---------------------------- MODULE MCSearchSync ----------------------------
(* A member and a team, and two posts of the forum.                         *)
EXTENDS SearchSync, TLC

CONSTANTS e1, e2, t1

MCKind == (e1 :> "member") @@ (e2 :> "team")

MCThreadOf == [p \in 1 .. MaxPost |-> t1]
=============================================================================
