----------------------------- MODULE MCJobAlerts ----------------------------
(* A small instance of JobAlerts for TLC. *)
EXTENDS JobAlerts, TLC

CONSTANT m1

MCOwner == [a \in Alerts |-> m1]

=============================================================================
