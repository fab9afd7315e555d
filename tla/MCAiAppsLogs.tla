---------------------------- MODULE MCAiAppsLogs ----------------------------
(* Small instances of AiAppsLogs for TLC. *)
EXTENDS AiAppsLogs, TLC

CONSTANTS k1, k2

\* The first window has the second as its only narrower one.
MCNarrower == (k1 :> k2) @@ [k \in Keys |-> NoKey]

=============================================================================
