------------------------------ MODULE MCRoadmap -----------------------------
(* Small instances of Roadmap for TLC. *)
EXTENDS Roadmap, TLC

CONSTANTS i1, i2, m1, m2

\* m1 submitted the first item, and boosts it too; m2 the second.
MCAuthor == [i \in Items |-> IF i = i1 THEN m1 ELSE m2]

\* The second item stays in play: what it is for is to hold a boost.
MCMoves == [i \in Items |->
  IF i = i1 THEN {"PLANNED", "IN_PROGRESS", "SHIPPED", "ARCHIVED"} ELSE {"PLANNED"}]

=============================================================================
