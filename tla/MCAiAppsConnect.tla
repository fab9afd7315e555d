--------------------------- MODULE MCAiAppsConnect --------------------------
(* Small instances of AiAppsConnect for TLC. *)
EXTENDS AiAppsConnect, TLC

\* Tabs, members and tokens are interchangeable.
Symmetry == Permutations(Pages) \cup Permutations(Members) \cup Permutations(Tokens)

=============================================================================
