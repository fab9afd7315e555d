------------------------- MODULE MCMeetingFollowUps -------------------------
(* Small instances of MeetingFollowUps for TLC. *)
EXTENDS MeetingFollowUps, TLC

\* Rows and requests are interchangeable.
Symmetry ==
  Permutations(FollowUps) \cup Permutations(Members) \cup Permutations(Requests) \cup Permutations(Bookings)

=============================================================================
