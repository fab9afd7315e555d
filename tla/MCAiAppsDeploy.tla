--------------------------- MODULE MCAiAppsDeploy ---------------------------
(* Small instances of AiAppsDeploy for TLC. *)
EXTENDS AiAppsDeployProperties, TLC

\* Requests and bundles are interchangeable.
Symmetry == Permutations(Tasks) \cup Permutations(Bundles)

=============================================================================
