----------------------- MODULE MeetingFollowUpsProofs -----------------------
(***************************************************************************)
(* Proofs about MeetingFollowUps, for any number of members, bookings,     *)
(* follow-ups and requests: its types, the counter of meetings, that no    *)
(* question outlives its sense, that further questions match the answers,  *)
(* and that an answer is final.                                            *)
(***************************************************************************)
EXTENDS MeetingFollowUps, FiniteSetTheorems, TLAPS

\* The rows of the database and what they say of each other.
Rows ==
  /\ \A b \in Bookings : b \in adjusted <=> Counted(b) /\ DidNotHappen(b)
  /\ \A b \in Bookings : ~Exists(b) => booking[b].member = NoMember
  /\ \A u \in FollowUps : Unused(u) => up[u] = NotAsked /\ feedback[u] = "none"
  /\ \A u \in FollowUps : feedback[u] # "none" => up[u].status # "PENDING"
  /\ \A u, v \in FollowUps :
       /\ up[u].type = "MEETING_SCHEDULED" /\ up[v].type = "MEETING_SCHEDULED"
       /\ up[u].of = up[v].of
       => u = v

\* What happens to the rows in any step: they stay, and stay of their booking.
RowsStay ==
  \A u \in FollowUps : ~Unused(u) =>
    /\ up'[u].status # "absent"
    /\ up'[u].of = up[u].of
    /\ up'[u].type = up[u].type

Idle(r) == req' = [req EXCEPT ![r] = NoRequest]

-----------------------------------------------------------------------------

LEMMA Shapes ==
  /\ NoRequest \in Request /\ NoRequest.pc = "idle"
  /\ NoBookingYet \in Booking
  /\ NotAsked \in Up /\ NotAsked.of = NoBooking /\ NotAsked.status = "absent"
  /\ NotAsked.type = "MEETING_INITIATED"
BY DEF NoRequest, Request, Answers, NoBookingYet, Booking, NotAsked, Asked, Up

LEMMA AskedIsUp ==
  ASSUME NEW b \in Bookings,
         NEW t \in {"MEETING_INITIATED", "MEETING_SCHEDULED",
                    "MEETING_YET_TO_HAPPEN", "MEETING_RESCHEDULED"}
  PROVE  /\ Asked(b, t) \in Up
         /\ Asked(b, t).of = b /\ Asked(b, t).type = t
         /\ Asked(b, t).status = "PENDING"
BY DEF Asked, Up

\* A request under way keeps its follow-up, whatever other requests do.
LEMMA ReqFrame ==
  ASSUME TypeOK, RowsStay, NEW r \in Requests, NEW q \in Request,
         q.pc # "idle" => q.up \in FollowUps /\ ~Unused(q.up),
         req' = [req EXCEPT ![r] = q]
  PROVE  /\ req' \in [Requests -> Request]
         /\ \A s \in Requests : req'[s].pc # "idle" =>
              req'[s].up \in FollowUps /\ up'[req'[s].up].status # "absent"
<1>1. req' \in [Requests -> Request]
  BY DEF TypeOK
<1>2. ASSUME NEW s \in Requests, req'[s].pc # "idle"
      PROVE  req'[s].up \in FollowUps /\ up'[req'[s].up].status # "absent"
  <2>1. req'[s].up \in FollowUps /\ ~Unused(req'[s].up)
    BY <1>2 DEF TypeOK, Unused
  <2>. QED BY <2>1 DEF RowsStay
<1>. QED BY <1>1, <1>2

LEMMA IdleFrame ==
  ASSUME TypeOK, RowsStay, NEW r \in Requests, Idle(r)
  PROVE  /\ req' \in [Requests -> Request]
         /\ \A s \in Requests : req'[s].pc # "idle" =>
              req'[s].up \in FollowUps /\ up'[req'[s].up].status # "absent"
BY ReqFrame, Shapes DEF Idle

LEMMA SameRows ==
  ASSUME up' = up
  PROVE  RowsStay
BY DEF RowsStay, Unused

\* A step that only starts or ends a request.
LEMMA QuietTypes ==
  ASSUME TypeOK, NEW r \in Requests,
         Idle(r) \/ \E u \in FollowUps, a \in Answers : StartAnswer(r, u, a) \/ StartClose(r, u),
         UNCHANGED <<booking, up, feedback, adjusted, count>>,
         thanked' \subseteq FollowUps
  PROVE  TypeOK'
<1>. DEFINE Fine == /\ req' \in [Requests -> Request]
                    /\ \A s \in Requests : req'[s].pc # "idle" =>
                         req'[s].up \in FollowUps /\ up'[req'[s].up].status # "absent"
<1>1. RowsStay
  BY SameRows
<1>2. Fine
  <2>1. CASE Idle(r)
    BY <2>1, <1>1, IdleFrame
  <2>2. ASSUME NEW u \in FollowUps, NEW a \in Answers, StartAnswer(r, u, a)
        PROVE  Fine
    <3>. DEFINE q == [pc |-> "answer", up |-> u, answer |-> a]
    <3>1. q \in Request /\ q.up = u
      BY DEF Request
    <3>2. ~Unused(u) /\ req' = [req EXCEPT ![r] = q]
      BY <2>2 DEF StartAnswer, Unused
    <3>. HIDE DEF q
    <3>. QED BY <3>1, <3>2, <1>1, ReqFrame
  <2>3. ASSUME NEW u \in FollowUps, StartClose(r, u)
        PROVE  Fine
    <3>. DEFINE q == [NoRequest EXCEPT !.pc = "close", !.up = u]
    <3>1. q \in Request /\ q.up = u
      BY Shapes DEF Request
    <3>2. ~Unused(u) /\ req' = [req EXCEPT ![r] = q]
      BY <2>3 DEF StartClose, Unused
    <3>. HIDE DEF q
    <3>. QED BY <3>1, <3>2, <1>1, ReqFrame
  <2>. QED BY <2>1, <2>2, <2>3
<1>. QED BY <1>1, <1>2 DEF TypeOK

LEMMA InitTypes == Init => TypeOK /\ Rows
<1>. SUFFICES ASSUME Init PROVE TypeOK /\ Rows
  OBVIOUS
<1>1. TypeOK
  BY Shapes, MeetingFollowUpsAssumptions DEF Init, TypeOK
<1>2. Rows
  BY Shapes DEF Init, Rows, Counted, Exists, DidNotHappen, Unused, NoBookingYet
<1>. QED BY <1>1, <1>2

-----------------------------------------------------------------------------
(* Bookings.                                                               *)

\* An answer belongs to a follow-up, and that to a booking, which stay.
LEMMA SameVerdicts ==
  ASSUME TypeOK, Rows, RowsStay, feedback' = feedback
  PROVE  \A b \in Bookings : DidNotHappen(b)' <=> DidNotHappen(b)
<1>1. \A u \in FollowUps : feedback[u] # "none" => up'[u].of = up[u].of
  BY DEF Rows, RowsStay, Unused
<1>. QED BY <1>1 DEF DidNotHappen

LEMMA NothingAskedYet ==
  ASSUME TypeOK, Rows, NEW b \in Bookings, ~Exists(b)
  PROVE  /\ \A u \in FollowUps : up[u].of # b
         /\ ~DidNotHappen(b) /\ b \notin adjusted
<1>1. \A u \in FollowUps : up[u].of # b
  BY Shapes, MeetingFollowUpsAssumptions DEF TypeOK, Rows, Exists, Unused
<1>2. ~DidNotHappen(b)
  BY <1>1 DEF DidNotHappen
<1>. QED BY <1>1, <1>2 DEF Rows

\* What a booking does to the follow-ups, in both its forms.
NewRowsOf(b) ==
  /\ RowsStay
  /\ up' \in [FollowUps -> Up]
  /\ \A u \in FollowUps : up'[u] = up[u] \/ /\ Unused(u) /\ up'[u].of = b
                                            /\ up'[u].status = "PENDING"
                                            /\ up'[u].type \in {"MEETING_INITIATED",
                                                                "MEETING_SCHEDULED"}
  /\ \A u, v \in FollowUps :
       /\ up'[u].type = "MEETING_SCHEDULED" /\ up'[v].type = "MEETING_SCHEDULED"
       /\ up'[u].of = b /\ up'[v].of = b
       => u = v

LEMMA BookRows ==
  ASSUME TypeOK, Rows, NEW b \in Bookings, NEW m \in Members \cup {NoMember},
         BookOnly(b, m) \/ \E i, s \in FollowUps : BookWithFollowUps(b, m, i, s)
  PROVE  Book(b, m) /\ NewRowsOf(b)
<1>1. CASE BookOnly(b, m)
  <2>1. RowsStay
    BY <1>1, SameRows DEF BookOnly
  <2>. QED BY <1>1, <2>1, NothingAskedYet DEF BookOnly, Book, NewRowsOf, TypeOK
<1>2. ASSUME NEW i \in FollowUps, NEW s \in FollowUps, BookWithFollowUps(b, m, i, s)
      PROVE  Book(b, m) /\ NewRowsOf(b)
  <2>. DEFINE I == Asked(b, "MEETING_INITIATED")
              S == Asked(b, "MEETING_SCHEDULED")
  <2>1. /\ I \in Up /\ I.of = b /\ I.type = "MEETING_INITIATED" /\ I.status = "PENDING"
        /\ S \in Up /\ S.of = b /\ S.type = "MEETING_SCHEDULED" /\ S.status = "PENDING"
    BY AskedIsUp
  <2>2. i # s /\ Unused(i) /\ Unused(s) /\ Book(b, m)
        /\ up' = [up EXCEPT ![i] = I, ![s] = S]
    BY <1>2 DEF BookWithFollowUps
  <2>. HIDE DEF I, S
  <2>3. up' \in [FollowUps -> Up] /\ up'[i] = I /\ up'[s] = S
        /\ \A u \in FollowUps \ {i, s} : up'[u] = up[u]
    BY <2>1, <2>2 DEF TypeOK
  <2>4. RowsStay
    BY <2>2, <2>3 DEF RowsStay, Unused
  <2>5. \A u \in FollowUps : up[u].of # b
    BY <2>2, NothingAskedYet DEF Book
  <2>6. ASSUME NEW u \in FollowUps, NEW v \in FollowUps,
               up'[u].type = "MEETING_SCHEDULED", up'[v].type = "MEETING_SCHEDULED",
               up'[u].of = b, up'[v].of = b
        PROVE  u = v
    BY <2>1, <2>3, <2>5, <2>6
  <2>7. \A u \in FollowUps : up'[u] = up[u] \/ /\ Unused(u) /\ up'[u].of = b
                                               /\ up'[u].status = "PENDING"
                                               /\ up'[u].type \in {"MEETING_INITIATED",
                                                                   "MEETING_SCHEDULED"}
    BY <2>1, <2>2, <2>3
  <2>. QED BY <2>2, <2>3, <2>4, <2>6, <2>7 DEF NewRowsOf
<1>. QED BY <1>1, <1>2

LEMMA BookTypes ==
  ASSUME TypeOK, Rows, NEW b \in Bookings, NEW m \in Members \cup {NoMember},
         Book(b, m), NewRowsOf(b)
  PROVE  TypeOK'
<1>. DEFINE row == [made |-> TRUE, member |-> m]
<1>1. row \in Booking /\ row.made = TRUE /\ row.member = m
  BY DEF Booking
<1>2. booking' = [booking EXCEPT ![b] = row]
  BY DEF Book
<1>. HIDE DEF row
<1>3. booking' \in [Bookings -> Booking]
      /\ \A c \in Bookings : booking[c].made => booking'[c].made
      /\ booking'[b].made
  BY <1>1, <1>2 DEF TypeOK
<1>4. count' \in [Members -> Nat]
  BY DEF Book, TypeOK
<1>5. \A u \in FollowUps : up'[u].status # "absent" =>
        up'[u].of \in Bookings /\ booking'[up'[u].of].made
  <2>. TAKE u \in FollowUps
  <2>1. CASE up'[u] = up[u]
    BY <2>1, <1>3 DEF TypeOK
  <2>2. CASE up'[u].of = b
    <3>1. booking'[b].made = TRUE
      BY <1>1, <1>2 DEF TypeOK
    <3>2. up'[u].of \in Bookings /\ booking'[up'[u].of].made = TRUE
      BY <2>2, <3>1
    <3>. QED BY <3>2
  <2>. QED BY <2>1, <2>2 DEF NewRowsOf
<1>6. \A s \in Requests : req'[s].pc # "idle" =>
        req'[s].up \in FollowUps /\ up'[req'[s].up].status # "absent"
  BY DEF Book, NewRowsOf, RowsStay, Unused, TypeOK
<1>. QED BY <1>3, <1>4, <1>5, <1>6 DEF Book, NewRowsOf, TypeOK

LEMMA BookKeepsRows ==
  ASSUME TypeOK, Rows, NEW b \in Bookings, NEW m \in Members \cup {NoMember},
         Book(b, m), NewRowsOf(b)
  PROVE  Rows'
<1>1. /\ \A c \in Bookings \ {b} : booking'[c] = booking[c]
      /\ booking'[b].made
      /\ feedback' = feedback /\ adjusted' = adjusted
      /\ ~Exists(b)
  BY DEF Book, TypeOK
<1>2. /\ \A c \in Bookings : DidNotHappen(c)' <=> DidNotHappen(c)
      /\ ~DidNotHappen(b) /\ b \notin adjusted
      /\ \A u \in FollowUps : up[u].of # b
  BY <1>1, SameVerdicts, NothingAskedYet DEF NewRowsOf
<1>3. \A c \in Bookings : c \in adjusted' <=> Counted(c)' /\ DidNotHappen(c)'
  BY <1>1, <1>2 DEF Rows, Counted
<1>4. \A c \in Bookings : ~Exists(c)' => booking'[c].member = NoMember
  BY <1>1 DEF Rows, Exists
<1>5. \A u \in FollowUps :
        /\ Unused(u)' => up'[u] = NotAsked /\ feedback'[u] = "none"
        /\ feedback'[u] # "none" => up'[u].status # "PENDING"
  BY <1>1 DEF Rows, Unused, NewRowsOf
<1>6. \A u, v \in FollowUps :
        /\ up'[u].type = "MEETING_SCHEDULED" /\ up'[v].type = "MEETING_SCHEDULED"
        /\ up'[u].of = up'[v].of
        => u = v
  <2>. TAKE u, v \in FollowUps
  <2>1. CASE up'[u].of = b \/ up'[v].of = b
    BY <2>1 DEF NewRowsOf
  <2>2. CASE up'[u] = up[u] /\ up'[v] = up[v]
    BY <2>2 DEF Rows
  <2>. QED BY <2>1, <2>2 DEF NewRowsOf
<1>. QED BY <1>3, <1>4, <1>5, <1>6 DEF Rows

-----------------------------------------------------------------------------
(* Answers that are saved.                                                 *)

\* The request, named so that it stays what it was before the step.
Answered(r, u, a, b) ==
  /\ req[r].up = u /\ req[r].answer = a /\ up[u].of = b
  /\ u \in FollowUps /\ a \in Answers /\ b \in Bookings
  /\ ~Unused(u) /\ Exists(b)

LEMMA Answerer ==
  ASSUME TypeOK, NEW r \in Requests, Answering(r)
  PROVE  \E u \in FollowUps, a \in Answers, b \in Bookings : Answered(r, u, a, b)
BY DEF TypeOK, Request, Answering, Answered, Unused, Exists

\* What a saved answer does to the follow-ups.
SavedUp(u, a, b, new) ==
  /\ up' \in [FollowUps -> Up]
  /\ \A v \in new : /\ v \in FollowUps /\ Unused(v) /\ NextType(a) # "none"
                    /\ up'[v] = Asked(b, NextType(a))
  /\ \A v \in FollowUps \ new : /\ up'[v].of = up[v].of
                                /\ up'[v].type = up[v].type
                                /\ up'[v].status = up[v].status \/ ~Unused(v)
                                /\ up'[v].status \in {up[v].status, "COMPLETED"}
  /\ u \notin new /\ up'[u].status = "COMPLETED"

LEMMA NextTypes ==
  ASSUME NEW a \in Answers
  PROVE  NextType(a) \in {"none", "MEETING_YET_TO_HAPPEN", "MEETING_RESCHEDULED"}
BY DEF NextType

LEMMA MootRows ==
  ASSUME NEW u, NEW a, NEW done \in Moot(u, a)
  PROVE  \A v \in done : v \in FollowUps /\ ~Unused(v)
BY DEF Moot

LEMMA SaveUp ==
  ASSUME TypeOK, Rows, NEW r \in Requests, NEW done, NEW new, Save(r, done, new),
         NEW u, NEW a, NEW b, Answered(r, u, a, b)
  PROVE  /\ SavedUp(u, a, b, new) /\ RowsStay
         /\ \A v \in FollowUps \ new : Unused(v) => up'[v] = up[v]
<1>. DEFINE Q == Asked(b, NextType(a))
<1>1. /\ done \in Moot(u, a) /\ new \in NewRows(a)
      /\ up' = [v \in FollowUps |->
           IF v \in new THEN Q
           ELSE IF v \in done \cup {u} THEN [up[v] EXCEPT !.status = "COMPLETED"]
           ELSE up[v]]
  BY DEF Save, Answered
<1>2. \A v \in new : /\ v \in FollowUps /\ Unused(v) /\ NextType(a) # "none"
  BY <1>1 DEF NewRows
<1>3. \A v \in new : Q \in Up /\ Q.of = b /\ Q.status = "PENDING"
  BY <1>2, NextTypes, AskedIsUp DEF Answered
<1>. HIDE DEF Q
<1>4. \A v \in done \cup {u} : v \in FollowUps /\ ~Unused(v)
  BY <1>1, MootRows DEF Answered
<1>5. \A v \in FollowUps :
        /\ up[v] \in Up
        /\ [up[v] EXCEPT !.status = "COMPLETED"] \in Up
        /\ [up[v] EXCEPT !.status = "COMPLETED"].status = "COMPLETED"
        /\ [up[v] EXCEPT !.status = "COMPLETED"].of = up[v].of
        /\ [up[v] EXCEPT !.status = "COMPLETED"].type = up[v].type
  BY DEF TypeOK, Up
<1>6. up' \in [FollowUps -> Up]
  BY <1>1, <1>3, <1>5
<1>7. u \notin new /\ up'[u].status = "COMPLETED"
  BY <1>1, <1>2, <1>4, <1>5
<1>8. \A v \in new : up'[v] = Q
  BY <1>1, <1>2
<1>9. ASSUME NEW v \in FollowUps \ new
      PROVE  /\ up'[v].of = up[v].of
             /\ up'[v].type = up[v].type
             /\ up'[v].status = up[v].status \/ ~Unused(v)
             /\ up'[v].status \in {up[v].status, "COMPLETED"}
  <2>1. CASE v \in done \cup {u}
    BY <1>1, <1>4, <1>5, <2>1
  <2>2. CASE v \notin done \cup {u}
    BY <1>1, <2>2
  <2>. QED BY <2>1, <2>2
<1>10. SavedUp(u, a, b, new)
  BY <1>2, <1>6, <1>7, <1>8, <1>9 DEF SavedUp, Q
<1>11. RowsStay
  BY <1>2, <1>9 DEF RowsStay, Unused
<1>12. \A v \in FollowUps \ new : Unused(v) => up'[v] = up[v]
  BY <1>1, <1>4
<1>. QED BY <1>10, <1>11, <1>12

LEMMA SaveTypes ==
  ASSUME TypeOK, Rows, NEW r \in Requests, NEW done, NEW new, Save(r, done, new),
         NEW u, NEW a, NEW b, Answered(r, u, a, b)
  PROVE  TypeOK'
<1>1. SavedUp(u, a, b, new) /\ RowsStay
  BY SaveUp
<1>2. req' \in [Requests -> Request]
      /\ \A s \in Requests : req'[s].pc # "idle" =>
           req'[s].up \in FollowUps /\ up'[req'[s].up].status # "absent"
  BY <1>1, IdleFrame DEF Save, Idle
<1>3. feedback' \in [FollowUps -> Answers \cup {"none"}] /\ thanked' \subseteq FollowUps
  BY DEF Save, Answered, TypeOK
<1>4. count' \in [Members -> Nat] /\ adjusted' \subseteq Bookings
  BY DEF Save, Adjust, Answered, TypeOK
<1>5. \A v \in FollowUps : up'[v].status # "absent" =>
        up'[v].of \in Bookings /\ booking[up'[v].of].made
  <2>. TAKE v \in FollowUps
  <2>1. CASE v \in new
    <3>1. Asked(b, NextType(a)).of = b
      BY DEF Asked
    <3>2. up'[v].of = b
      BY <1>1, <2>1, <3>1 DEF SavedUp
    <3>3. b \in Bookings /\ booking[b].made = TRUE
      BY DEF Answered, Exists, TypeOK, Booking
    <3>4. up'[v].of \in Bookings /\ booking[up'[v].of].made = TRUE
      BY <3>2, <3>3
    <3>. QED BY <3>4
  <2>2. CASE v \notin new
    BY <1>1, <2>2 DEF SavedUp, TypeOK, Unused
  <2>. QED BY <2>1, <2>2
<1>. QED BY <1>1, <1>2, <1>3, <1>4, <1>5 DEF Save, TypeOK, SavedUp

\* What becomes of the verdicts and the adjustments.
LEMMA SaveVerdicts ==
  ASSUME TypeOK, Rows, NEW r \in Requests, NEW done, NEW new, Save(r, done, new),
         NEW u, NEW a, NEW b, Answered(r, u, a, b)
  PROVE  /\ feedback' = [feedback EXCEPT ![u] = a] /\ feedback[u] = "none" /\ a # "none"
         /\ \A c \in Bookings : DidNotHappen(c)' <=> DidNotHappen(c) \/ (c = b /\ Negative(a))
         /\ \A v \in FollowUps : feedback'[v] # "none" => v = u \/ (v \notin new /\ ~Unused(v))
<1>1. feedback' = [feedback EXCEPT ![u] = a] /\ feedback[u] = "none" /\ a # "none"
  BY DEF Save, Answered, Taken, Answers
<1>2. SavedUp(u, a, b, new) /\ RowsStay
  BY SaveUp
<1>3. /\ feedback'[u] = a
      /\ \A v \in FollowUps \ {u} : feedback'[v] = feedback[v]
      /\ up'[u].of = b /\ up[u].of = b /\ u \in FollowUps
  BY <1>1, <1>2 DEF TypeOK, Answered, SavedUp
<1>4. \A v \in FollowUps : feedback[v] # "none" => v \notin new /\ ~Unused(v) /\ up'[v].of = up[v].of
  BY <1>2 DEF SavedUp, Rows
<1>5. ASSUME NEW c \in Bookings, DidNotHappen(c)'
      PROVE  DidNotHappen(c) \/ (c = b /\ Negative(a))
  <2>1. PICK v \in FollowUps : up'[v].of = c /\ feedback'[v] # "none" /\ Negative(feedback'[v])
    BY <1>5 DEF DidNotHappen
  <2>2. CASE v = u
    BY <2>1, <2>2, <1>3
  <2>3. CASE v # u
    BY <2>1, <2>3, <1>3, <1>4 DEF DidNotHappen
  <2>. QED BY <2>2, <2>3
<1>6. ASSUME NEW c \in Bookings, DidNotHappen(c)
      PROVE  DidNotHappen(c)'
  <2>1. PICK v \in FollowUps : up[v].of = c /\ feedback[v] # "none" /\ Negative(feedback[v])
    BY <1>6 DEF DidNotHappen
  <2>. QED BY <2>1, <1>1, <1>3, <1>4 DEF DidNotHappen
<1>7. ASSUME Negative(a) PROVE DidNotHappen(b)'
  BY <1>1, <1>3, <1>7 DEF DidNotHappen
<1>8. \A v \in FollowUps : feedback'[v] # "none" => v = u \/ (v \notin new /\ ~Unused(v))
  BY <1>3, <1>4
<1>. QED BY <1>1, <1>5, <1>6, <1>7, <1>8

LEMMA SaveAdjusts ==
  ASSUME TypeOK, Rows, NEW r \in Requests, NEW done, NEW new, Save(r, done, new),
         NEW u, NEW a, NEW b, Answered(r, u, a, b)
  PROVE  /\ booking' = booking
         /\ Adjusts(b, a) => /\ b \notin adjusted /\ adjusted' = adjusted \cup {b}
                             /\ count' = [m \in Members |->
                                  IF m = booking[b].member /\ count[m] > 0
                                  THEN count[m] - 1 ELSE count[m]]
         /\ ~Adjusts(b, a) => adjusted' = adjusted /\ count' = count
BY DEF Save, Adjust, Answered

LEMMA SaveKeepsRows ==
  ASSUME TypeOK, Rows, NEW r \in Requests, NEW done, NEW new, Save(r, done, new),
         NEW u, NEW a, NEW b, Answered(r, u, a, b)
  PROVE  Rows'
<1>1. SavedUp(u, a, b, new) /\ RowsStay
  BY SaveUp
<1>2. /\ feedback' = [feedback EXCEPT ![u] = a]
      /\ \A c \in Bookings : DidNotHappen(c)' <=> DidNotHappen(c) \/ (c = b /\ Negative(a))
      /\ \A v \in FollowUps : feedback'[v] # "none" => v = u \/ (v \notin new /\ ~Unused(v))
  BY SaveVerdicts
<1>3. \A c \in Bookings : c \in adjusted' <=> Counted(c)' /\ DidNotHappen(c)'
  BY <1>2, SaveAdjusts DEF Rows, Counted, Adjusts
<1>4. \A c \in Bookings : ~Exists(c)' => booking'[c].member = NoMember
  BY SaveAdjusts DEF Rows, Exists
<1>5. \A v \in new : up'[v].status = "PENDING" /\ up'[v].type # "MEETING_SCHEDULED"
  BY <1>1, NextTypes DEF SavedUp, Answered, Asked
<1>6. ASSUME NEW v \in FollowUps, Unused(v)'
      PROVE  up'[v] = NotAsked /\ feedback'[v] = "none"
  <2>1. v \notin new /\ v # u /\ Unused(v)
    BY <1>1, <1>5, <1>6 DEF SavedUp, Unused
  <2>2. up'[v] = up[v]
    BY <2>1, SaveUp
  <2>. QED BY <1>2, <2>1, <2>2 DEF Rows
<1>7. ASSUME NEW v \in FollowUps, feedback'[v] # "none"
      PROVE  up'[v].status # "PENDING"
  <2>1. CASE v = u
    BY <2>1, <1>1 DEF SavedUp
  <2>2. CASE v # u
    BY <2>2, <1>1, <1>2, <1>7 DEF SavedUp, Rows, TypeOK
  <2>. QED BY <2>1, <2>2
<1>8. ASSUME NEW v \in FollowUps, NEW w \in FollowUps,
             up'[v].type = "MEETING_SCHEDULED", up'[w].type = "MEETING_SCHEDULED",
             up'[v].of = up'[w].of
      PROVE  v = w
  BY <1>1, <1>5, <1>8 DEF SavedUp, Rows
<1>. QED BY <1>3, <1>4, <1>6, <1>7, <1>8 DEF Rows

-----------------------------------------------------------------------------

LEMMA CloseKeeps ==
  ASSUME TypeOK, Rows, NEW r \in Requests, Close(r)
  PROVE  TypeOK' /\ Rows'
<1>. DEFINE u == req[r].up
<1>1. u \in FollowUps /\ ~Unused(u) /\ up' = [up EXCEPT ![u].status = "CLOSED"]
  BY DEF Close, TypeOK, Unused
<1>. HIDE DEF u
<1>2. /\ up' \in [FollowUps -> Up]
      /\ up'[u].status = "CLOSED"
      /\ \A v \in FollowUps : up'[v].of = up[v].of /\ up'[v].type = up[v].type
      /\ \A v \in FollowUps \ {u} : up'[v] = up[v]
  BY <1>1 DEF TypeOK, Up
<1>3. RowsStay
  BY <1>1, <1>2 DEF RowsStay, Unused
<1>4. req' \in [Requests -> Request]
      /\ \A s \in Requests : req'[s].pc # "idle" =>
           req'[s].up \in FollowUps /\ up'[req'[s].up].status # "absent"
  BY <1>3, IdleFrame DEF Close, Idle
<1>5. TypeOK'
  BY <1>1, <1>2, <1>4 DEF Close, TypeOK, Unused
<1>6. \A c \in Bookings : DidNotHappen(c)' <=> DidNotHappen(c)
  BY <1>3, SameVerdicts DEF Close
<1>7. Rows'
  BY <1>1, <1>2, <1>6 DEF Close, Rows, Unused, Counted, Exists
<1>. QED BY <1>5, <1>7

LEMMA SameRowsKept ==
  ASSUME TypeOK, Rows, UNCHANGED <<booking, up, feedback, adjusted, count>>
  PROVE  Rows'
<1>1. \A c \in Bookings : DidNotHappen(c)' <=> DidNotHappen(c)
  BY DEF DidNotHappen
<1>. QED BY <1>1 DEF Rows, Unused, Counted, Exists

\* A step that changes no row of the database.
Quiet ==
  \E r \in Requests :
    \/ Conflict(r) \/ RolledBack(r) \/ Fail(r)
    \/ \E u \in FollowUps, a \in Answers : StartAnswer(r, u, a) \/ StartClose(r, u)

LEMMA QuietKeeps ==
  ASSUME TypeOK, Rows, Quiet
  PROVE  TypeOK' /\ Rows' /\ UNCHANGED <<booking, up, feedback, adjusted, count>>
<1>1. UNCHANGED <<booking, up, feedback, adjusted, count>>
  BY DEF Quiet, Conflict, RolledBack, Fail, StartAnswer, StartClose
<1>2. PICK r \in Requests :
        /\ Idle(r) \/ \E u \in FollowUps, a \in Answers : StartAnswer(r, u, a) \/ StartClose(r, u)
        /\ thanked' = thanked \/ (Answering(r) /\ thanked' = thanked \cup {req[r].up})
  BY DEF Quiet, Conflict, RolledBack, Fail, StartAnswer, StartClose, Idle
<1>3. thanked' \subseteq FollowUps
  BY <1>2 DEF TypeOK, Answering
<1>4. TypeOK'
  BY <1>1, <1>2, <1>3, QuietTypes
<1>. QED BY <1>1, <1>4, SameRowsKept

\* The steps, sorted by what they do to the rows.
LEMMA Steps ==
  ASSUME TypeOK, Next
  PROVE  \/ Quiet
         \/ \E r \in Requests : Close(r)
         \/ \E b \in Bookings, m \in Members \cup {NoMember} :
              BookOnly(b, m) \/ \E i, s \in FollowUps : BookWithFollowUps(b, m, i, s)
         \/ \E r \in Requests, done, new \in SUBSET FollowUps :
              Save(r, done, new) /\ \E u, a, b : Answered(r, u, a, b)
<1>1. ASSUME NEW r \in Requests, NEW done \in SUBSET FollowUps, NEW new \in SUBSET FollowUps,
             Save(r, done, new)
      PROVE  \E u, a, b : Answered(r, u, a, b)
  BY <1>1, Answerer DEF Save
<1>. QED BY <1>1 DEF Next, RequestStep, Quiet, Answers

LEMMA StepKeeps == TypeOK /\ Rows /\ [Next]_vars => TypeOK' /\ Rows'
<1>. SUFFICES ASSUME TypeOK, Rows, [Next]_vars PROVE TypeOK' /\ Rows'
  OBVIOUS
<1>1. CASE UNCHANGED vars
  BY <1>1, SameRowsKept DEF vars, TypeOK
<1>2. CASE Quiet
  BY <1>2, QuietKeeps
<1>3. ASSUME NEW r \in Requests, Close(r) PROVE TypeOK' /\ Rows'
  BY <1>3, CloseKeeps
<1>4. ASSUME NEW b \in Bookings, NEW m \in Members \cup {NoMember},
             BookOnly(b, m) \/ \E i, s \in FollowUps : BookWithFollowUps(b, m, i, s)
      PROVE  TypeOK' /\ Rows'
  BY <1>4, BookRows, BookTypes, BookKeepsRows
<1>5. ASSUME NEW r \in Requests, NEW done, NEW new, NEW u, NEW a, NEW b,
             Save(r, done, new), Answered(r, u, a, b)
      PROVE  TypeOK' /\ Rows'
  BY <1>5, SaveTypes, SaveKeepsRows
<1>. QED BY <1>1, <1>2, <1>3, <1>4, <1>5, Steps

\* The types of MeetingFollowUps, and that every request is about a question
\* of a booking, in every state.
THEOREM FollowUpsTypeCorrect == Spec => []TypeOK
BY InitTypes, StepKeeps, PTL DEF Spec

-----------------------------------------------------------------------------
(* The counter.                                                            *)

LEMMA MeetingsAreFinite ==
  \A m : IsFiniteSet(MeetingsWith(m)) /\ Cardinality(MeetingsWith(m)) \in Nat
<1>. TAKE m
<1>1. MeetingsWith(m) \in SUBSET Bookings
  BY DEF MeetingsWith
<1>2. IsFiniteSet(MeetingsWith(m))
  BY <1>1, FS_Subset, MeetingFollowUpsAssumptions
<1>. QED BY <1>2, FS_CardinalityType

LEMMA BookCounts ==
  ASSUME TypeOK, Rows, CounterMatches,
         NEW b \in Bookings, NEW m \in Members \cup {NoMember},
         Book(b, m), NewRowsOf(b)
  PROVE  CounterMatches'
<1>1. /\ \A c \in Bookings \ {b} : booking'[c] = booking[c]
      /\ booking'[b].member = m
      /\ booking[b].member = NoMember
      /\ count' = [n \in Members |-> IF n = m THEN count[n] + 1 ELSE count[n]]
      /\ feedback' = feedback /\ ~Exists(b)
  BY DEF Book, TypeOK, Rows
<1>2. /\ \A c \in Bookings : DidNotHappen(c)' <=> DidNotHappen(c)
      /\ ~DidNotHappen(b)
  BY <1>1, SameVerdicts, NothingAskedYet DEF NewRowsOf
<1>3. ASSUME NEW n \in Members
      PROVE  count'[n] = Cardinality(MeetingsWith(n)')
  <2>1. b \notin MeetingsWith(n)
    BY <1>1, MeetingFollowUpsAssumptions DEF MeetingsWith
  <2>2. CASE n = m
    <3>1. MeetingsWith(n)' = MeetingsWith(n) \cup {b}
      BY <1>1, <1>2, <2>2 DEF MeetingsWith
    <3>2. Cardinality(MeetingsWith(n) \cup {b}) = Cardinality(MeetingsWith(n)) + 1
      BY <2>1, MeetingsAreFinite, FS_AddElement
    <3>. QED BY <1>1, <2>2, <3>1, <3>2 DEF CounterMatches
  <2>3. CASE n # m
    <3>1. MeetingsWith(n)' = MeetingsWith(n)
      BY <1>1, <1>2, <2>1, <2>3 DEF MeetingsWith
    <3>. QED BY <1>1, <2>3, <3>1 DEF CounterMatches
  <2>. QED BY <2>2, <2>3
<1>. QED BY <1>3 DEF CounterMatches

\* What is adjusted was counted and is counted no more, so that the clamp at
\* zero never has to hold the counter.
LEMMA SaveCounts ==
  ASSUME TypeOK, Rows, CounterMatches,
         NEW r \in Requests, NEW done, NEW new, Save(r, done, new),
         NEW u, NEW a, NEW b, Answered(r, u, a, b)
  PROVE  CounterMatches'
<1>1. \A c \in Bookings : DidNotHappen(c)' <=> DidNotHappen(c) \/ (c = b /\ Negative(a))
  BY SaveVerdicts
<1>2. booking' = booking
  BY SaveAdjusts
<1>3. CASE Adjusts(b, a)
  <2>1. Negative(a) /\ Counted(b) /\ b \notin adjusted
    BY <1>3, SaveAdjusts DEF Adjusts
  <2>2. count' = [n \in Members |->
           IF n = booking[b].member /\ count[n] > 0 THEN count[n] - 1 ELSE count[n]]
    BY <1>3, SaveAdjusts
  <2>3. ~DidNotHappen(b) /\ b \in Bookings
    BY <2>1 DEF Rows, Answered
  <2>4. ASSUME NEW n \in Members
        PROVE  count'[n] = Cardinality(MeetingsWith(n)')
    <3>1. CASE n = booking[b].member
      <4>1. MeetingsWith(n)' = MeetingsWith(n) \ {b} /\ b \in MeetingsWith(n)
        BY <1>1, <1>2, <2>1, <2>3, <3>1 DEF MeetingsWith
      <4>2. Cardinality(MeetingsWith(n) \ {b}) = Cardinality(MeetingsWith(n)) - 1
        BY <4>1, MeetingsAreFinite, FS_RemoveElement
      <4>3. Cardinality(MeetingsWith(n)) # 0
        BY <4>1, MeetingsAreFinite, FS_EmptySet
      <4>4. count[n] = Cardinality(MeetingsWith(n)) /\ count[n] > 0
        BY <4>3, MeetingsAreFinite DEF CounterMatches
      <4>. QED BY <2>2, <3>1, <4>1, <4>2, <4>4
    <3>2. CASE n # booking[b].member
      <4>1. MeetingsWith(n)' = MeetingsWith(n)
        BY <1>1, <1>2, <3>2 DEF MeetingsWith
      <4>. QED BY <2>2, <3>2, <4>1 DEF CounterMatches
    <3>. QED BY <3>1, <3>2
  <2>. QED BY <2>4 DEF CounterMatches
<1>4. CASE ~Adjusts(b, a)
  <2>1. count' = count
    BY <1>4, SaveAdjusts
  <2>2. Negative(a) => booking[b].member = NoMember
    BY <1>4 DEF Adjusts, Counted
  <2>3. ASSUME NEW n \in Members
        PROVE  MeetingsWith(n)' = MeetingsWith(n)
    BY <1>1, <1>2, <2>2, MeetingFollowUpsAssumptions DEF MeetingsWith
  <2>. QED BY <2>1, <2>3 DEF CounterMatches
<1>. QED BY <1>3, <1>4

LEMMA SameCounter ==
  ASSUME CounterMatches, UNCHANGED <<booking, up, feedback, count>>
  PROVE  CounterMatches'
BY DEF CounterMatches, MeetingsWith, DidNotHappen

LEMMA CloseCounts ==
  ASSUME TypeOK, Rows, CounterMatches, NEW r \in Requests, Close(r)
  PROVE  CounterMatches'
<1>1. req[r].up \in FollowUps /\ up' = [up EXCEPT ![req[r].up].status = "CLOSED"]
  BY DEF Close, TypeOK
<1>2. RowsStay
  BY <1>1 DEF RowsStay, Unused, TypeOK, Up
<1>3. \A c \in Bookings : DidNotHappen(c)' <=> DidNotHappen(c)
  BY <1>2, SameVerdicts DEF Close
<1>4. \A m : MeetingsWith(m)' = MeetingsWith(m)
  BY <1>3 DEF Close, MeetingsWith
<1>. QED BY <1>4 DEF Close, CounterMatches

LEMMA InitCounts == Init => CounterMatches
<1>. SUFFICES ASSUME Init PROVE CounterMatches
  OBVIOUS
<1>1. \A m \in Members : MeetingsWith(m) = {}
  BY MeetingFollowUpsAssumptions DEF Init, MeetingsWith, NoBookingYet
<1>. QED BY <1>1, FS_EmptySet DEF Init, CounterMatches

LEMMA StepCounts ==
  TypeOK /\ Rows /\ CounterMatches /\ [Next]_vars => CounterMatches'
<1>. SUFFICES ASSUME TypeOK, Rows, CounterMatches, [Next]_vars PROVE CounterMatches'
  OBVIOUS
<1>1. CASE UNCHANGED vars
  BY <1>1, SameCounter DEF vars
<1>2. CASE Quiet
  BY <1>2, QuietKeeps, SameCounter
<1>3. ASSUME NEW r \in Requests, Close(r) PROVE CounterMatches'
  BY <1>3, CloseCounts
<1>4. ASSUME NEW b \in Bookings, NEW m \in Members \cup {NoMember},
             BookOnly(b, m) \/ \E i, s \in FollowUps : BookWithFollowUps(b, m, i, s)
      PROVE  CounterMatches'
  BY <1>4, BookRows, BookCounts
<1>5. ASSUME NEW r \in Requests, NEW done, NEW new, NEW u, NEW a, NEW b,
             Save(r, done, new), Answered(r, u, a, b)
      PROVE  CounterMatches'
  BY <1>5, SaveCounts
<1>. QED BY <1>1, <1>2, <1>3, <1>4, <1>5, Steps

\* A member's counter is the number of their meetings of which nobody said no.
THEOREM CounterIsRight == Spec => []CounterMatches
BY InitTypes, StepKeeps, InitCounts, StepCounts, PTL DEF Spec

-----------------------------------------------------------------------------
(* Answers stay, and stop the question that they make pointless.           *)

\* An answer, once there, is what it was.
THEOREM AnswersAreFinal == Spec => AnswerIsFinal
<1>1. TypeOK /\ [Next]_vars
      => [\A u \in FollowUps : feedback[u] # "none" => feedback'[u] = feedback[u]]_vars
  <2>. SUFFICES ASSUME TypeOK, Next, NEW u \in FollowUps, feedback[u] # "none"
                PROVE  feedback'[u] = feedback[u]
    OBVIOUS
  <2>1. CASE Quiet
    BY <2>1 DEF Quiet, Conflict, RolledBack, Fail, StartAnswer, StartClose
  <2>2. ASSUME NEW r \in Requests, Close(r) PROVE feedback'[u] = feedback[u]
    BY <2>2 DEF Close
  <2>3. ASSUME NEW b \in Bookings, NEW m \in Members \cup {NoMember}, Book(b, m)
        PROVE  feedback'[u] = feedback[u]
    BY <2>3 DEF Book
  <2>4. ASSUME NEW r \in Requests, NEW done, NEW new, NEW v, NEW a, NEW b,
               Save(r, done, new), Answered(r, v, a, b)
        PROVE  feedback'[u] = feedback[u]
    BY <2>4 DEF Save, Answered, Taken, TypeOK
  <2>. QED BY <2>1, <2>2, <2>3, <2>4, Steps DEF BookOnly, BookWithFollowUps
<1>. QED BY <1>1, InitTypes, StepKeeps, PTL DEF Spec, AnswerIsFinal

LEMMA SaveStops ==
  ASSUME TypeOK, Rows, NoStaleQuestion,
         NEW r \in Requests, NEW done, NEW new, Save(r, done, new),
         NEW u, NEW a, NEW b, Answered(r, u, a, b)
  PROVE  NoStaleQuestion'
<1>1. SavedUp(u, a, b, new)
  BY SaveUp
<1>2. feedback' = [feedback EXCEPT ![u] = a]
      /\ \A v \in FollowUps : feedback'[v] # "none" => v = u \/ (v \notin new /\ ~Unused(v))
  BY SaveVerdicts
<1>3. ASSUME NEW x \in FollowUps, NEW y \in FollowUps,
             up'[x].type = "MEETING_INITIATED", feedback'[x] # "none", Negative(feedback'[x]),
             up'[y].type = "MEETING_SCHEDULED", up'[y].of = up'[x].of
      PROVE  up'[y].status # "PENDING"
  <2>1. y \notin new
    BY <1>1, <1>3, NextTypes DEF SavedUp, Asked, Answered
  <2>2. x \notin new
    BY <1>1, <1>2, <1>3 DEF SavedUp
  <2>3. /\ up[x].type = "MEETING_INITIATED" /\ up[y].type = "MEETING_SCHEDULED"
        /\ up[y].of = up[x].of
        /\ up'[y].status \in {up[y].status, "COMPLETED"}
    BY <1>1, <1>3, <2>1, <2>2 DEF SavedUp
  <2>4. CASE x # u
    <3>1. feedback[x] # "none" /\ Negative(feedback[x])
      BY <1>2, <1>3, <2>4 DEF TypeOK
    <3>. QED BY <2>3, <3>1 DEF NoStaleQuestion
  <2>5. CASE x = u
    <3>1. Negative(a)
      BY <1>2, <1>3, <2>5 DEF TypeOK
    <3>2. CASE Unused(y)
      BY <2>3, <3>2 DEF Unused
    <3>3. CASE ~Unused(y)
      <4>1. PICK v \in FollowUps : /\ done = {v} /\ up[v].type = "MEETING_SCHEDULED"
                                   /\ up[v].of = up[u].of
        BY <2>3, <2>5, <3>1, <3>3 DEF Save, Answered, Moot
      <4>2. v = y
        BY <2>3, <2>5, <4>1 DEF Rows
      <4>. QED BY <2>1, <4>1, <4>2 DEF Save, Answered, TypeOK, Up
    <3>. QED BY <3>2, <3>3
  <2>. QED BY <2>4, <2>5
<1>. QED BY <1>3 DEF NoStaleQuestion

LEMMA BookStops ==
  ASSUME TypeOK, Rows, NoStaleQuestion,
         NEW b \in Bookings, NEW m \in Members \cup {NoMember}, Book(b, m), NewRowsOf(b)
  PROVE  NoStaleQuestion'
<1>1. feedback' = feedback /\ \A u \in FollowUps : up[u].of # b
  BY NothingAskedYet DEF Book
<1>2. ASSUME NEW x \in FollowUps, NEW y \in FollowUps,
             up'[x].type = "MEETING_INITIATED", feedback'[x] # "none", Negative(feedback'[x]),
             up'[y].type = "MEETING_SCHEDULED", up'[y].of = up'[x].of
      PROVE  up'[y].status # "PENDING"
  <2>1. ~Unused(x)
    BY <1>1, <1>2 DEF Rows
  <2>2. up'[x] = up[x]
    BY <2>1 DEF NewRowsOf
  <2>3. up'[y] = up[y]
    BY <1>1, <1>2, <2>2 DEF NewRowsOf
  <2>. QED BY <1>1, <1>2, <2>2, <2>3 DEF NoStaleQuestion
<1>. QED BY <1>2 DEF NoStaleQuestion

LEMMA StepStops ==
  TypeOK /\ Rows /\ NoStaleQuestion /\ [Next]_vars => NoStaleQuestion'
<1>. SUFFICES ASSUME TypeOK, Rows, NoStaleQuestion, [Next]_vars PROVE NoStaleQuestion'
  OBVIOUS
<1>1. CASE UNCHANGED vars
  BY <1>1 DEF vars, NoStaleQuestion
<1>2. CASE Quiet
  BY <1>2, QuietKeeps DEF NoStaleQuestion
<1>3. ASSUME NEW r \in Requests, Close(r) PROVE NoStaleQuestion'
  <2>1. req[r].up \in FollowUps /\ up' = [up EXCEPT ![req[r].up].status = "CLOSED"]
        /\ feedback' = feedback
    BY <1>3 DEF Close, TypeOK
  <2>2. \A v \in FollowUps : /\ up'[v].of = up[v].of /\ up'[v].type = up[v].type
                             /\ up'[v].status \in {up[v].status, "CLOSED"}
    BY <2>1 DEF TypeOK, Up
  <2>. QED BY <2>1, <2>2 DEF NoStaleQuestion
<1>4. ASSUME NEW b \in Bookings, NEW m \in Members \cup {NoMember},
             BookOnly(b, m) \/ \E i, s \in FollowUps : BookWithFollowUps(b, m, i, s)
      PROVE  NoStaleQuestion'
  BY <1>4, BookRows, BookStops
<1>5. ASSUME NEW r \in Requests, NEW done, NEW new, NEW u, NEW a, NEW b,
             Save(r, done, new), Answered(r, u, a, b)
      PROVE  NoStaleQuestion'
  BY <1>5, SaveStops
<1>. QED BY <1>1, <1>2, <1>3, <1>4, <1>5, Steps

LEMMA InitStops == Init => NoStaleQuestion
BY Shapes DEF Init, NoStaleQuestion

\* Nobody is asked how a meeting went that they said was not scheduled.
THEOREM NoQuestionIsStale == Spec => []NoStaleQuestion
BY InitTypes, StepKeeps, InitStops, StepStops, PTL DEF Spec

-----------------------------------------------------------------------------
(* Further questions.                                                      *)

Leading == {"IFR0004", "IFR0005"}

LEMMA FollowUpSetsAreFinite ==
  \A b, x : /\ IsFiniteSet(QuestionsOf(b, x)) /\ IsFiniteSet(AnswersOf(b, x))
            /\ Cardinality(QuestionsOf(b, x)) \in Nat
            /\ Cardinality(AnswersOf(b, x)) \in Nat
<1>. TAKE b, x
<1>1. QuestionsOf(b, x) \in SUBSET FollowUps /\ AnswersOf(b, x) \in SUBSET FollowUps
  BY DEF QuestionsOf, AnswersOf
<1>2. IsFiniteSet(QuestionsOf(b, x)) /\ IsFiniteSet(AnswersOf(b, x))
  BY <1>1, FS_Subset, MeetingFollowUpsAssumptions
<1>. QED BY <1>2, FS_CardinalityType

LEMMA SaveAsks ==
  ASSUME TypeOK, Rows, QuestionsFollowAnswers,
         NEW r \in Requests, NEW done, NEW new, Save(r, done, new),
         NEW u, NEW a, NEW b, Answered(r, u, a, b)
  PROVE  QuestionsFollowAnswers'
<1>1. SavedUp(u, a, b, new)
  BY SaveUp
<1>2. /\ feedback' = [feedback EXCEPT ![u] = a] /\ feedback[u] = "none"
      /\ \A v \in FollowUps : feedback'[v] # "none" => v = u \/ (v \notin new /\ ~Unused(v))
  BY SaveVerdicts
<1>3. u \in FollowUps \ new /\ up[u].of = b /\ up'[u].of = b
  BY <1>1 DEF Answered, SavedUp
<1>4. ASSUME NEW c \in Bookings, NEW e \in Leading
      PROVE  AnswersOf(c, e)' = IF c = b /\ e = a THEN AnswersOf(c, e) \cup {u} ELSE AnswersOf(c, e)
  <2>1. \A v \in FollowUps \ {u} : /\ feedback'[v] = feedback[v]
                                   /\ feedback[v] # "none" => up'[v].of = up[v].of
    BY <1>1, <1>2 DEF SavedUp, TypeOK
  <2>2. feedback'[u] = a
    BY <1>2, <1>3 DEF TypeOK
  <2>3. e # "none"
    BY DEF Leading
  <2>. QED BY <1>2, <1>3, <2>1, <2>2, <2>3 DEF AnswersOf
<1>5. ASSUME NEW c \in Bookings, NEW e \in Leading
      PROVE  QuestionsOf(c, NextType(e))' =
               IF c = b /\ e = a THEN QuestionsOf(c, NextType(e)) \cup new
               ELSE QuestionsOf(c, NextType(e))
  <2>1. \A v \in FollowUps \ new : up'[v].of = up[v].of /\ up'[v].type = up[v].type
    BY <1>1 DEF SavedUp
  <2>2. \A v \in new : v \in FollowUps /\ up'[v].of = b /\ up'[v].type = NextType(a)
    BY <1>1 DEF SavedUp, Asked
  <2>3. \A v \in new : up[v].of = NoBooking
    BY <1>1, Shapes DEF SavedUp, Rows
  <2>4. new # {} => (NextType(a) = NextType(e) <=> a = e)
    BY <1>1 DEF SavedUp, Leading, Answered, Answers, NextType
  <2>5. c # NoBooking
    BY MeetingFollowUpsAssumptions
  <2>. QED BY <2>1, <2>2, <2>3, <2>4, <2>5 DEF QuestionsOf
<1>6. ASSUME NEW c \in Bookings, NEW e \in Leading
      PROVE  Cardinality(QuestionsOf(c, NextType(e))') = Cardinality(AnswersOf(c, e)')
  <2>1. CASE c = b /\ e = a
    <3>1. PICK n \in FollowUps : new = {n} /\ Unused(n)
      BY <2>1 DEF Save, Answered, NewRows, NextType, Leading
    <3>2. n \notin QuestionsOf(c, NextType(e))
      <4>1. up[n].of = NoBooking
        BY <3>1, Shapes DEF Rows
      <4>. QED BY <4>1, MeetingFollowUpsAssumptions DEF QuestionsOf
    <3>3. u \notin AnswersOf(c, e)
      BY <1>2 DEF AnswersOf, Leading
    <3>4. /\ QuestionsOf(c, NextType(e))' = QuestionsOf(c, NextType(e)) \cup {n}
          /\ AnswersOf(c, e)' = AnswersOf(c, e) \cup {u}
      BY <1>4, <1>5, <2>1, <3>1
    <3>5. /\ Cardinality(QuestionsOf(c, NextType(e)) \cup {n})
               = Cardinality(QuestionsOf(c, NextType(e))) + 1
          /\ Cardinality(AnswersOf(c, e) \cup {u}) = Cardinality(AnswersOf(c, e)) + 1
      BY <3>2, <3>3, FollowUpSetsAreFinite, FS_AddElement
    <3>. QED BY <3>4, <3>5 DEF QuestionsFollowAnswers, Leading
  <2>2. CASE ~(c = b /\ e = a)
    BY <1>4, <1>5, <2>2 DEF QuestionsFollowAnswers, Leading
  <2>. QED BY <2>1, <2>2
<1>7. \A e : NextType(e)' = NextType(e)
  BY DEF NextType
<1>. QED BY <1>6, <1>7 DEF QuestionsFollowAnswers, Leading

\* Steps that add no further question and no answer.
LEMMA SameQuestions ==
  ASSUME QuestionsFollowAnswers, feedback' = feedback,
         \A u \in FollowUps : feedback[u] # "none" => up'[u].of = up[u].of,
         \A u \in FollowUps :
           \/ up'[u].of = up[u].of /\ up'[u].type = up[u].type
           \/ /\ up[u].type \in {"MEETING_INITIATED", "MEETING_SCHEDULED"}
              /\ up'[u].type \in {"MEETING_INITIATED", "MEETING_SCHEDULED"}
  PROVE  QuestionsFollowAnswers'
<1>1. ASSUME NEW b \in Bookings, NEW a \in Leading
      PROVE  /\ QuestionsOf(b, NextType(a))' = QuestionsOf(b, NextType(a))
             /\ AnswersOf(b, a)' = AnswersOf(b, a)
  <2>1. NextType(a) \notin {"MEETING_INITIATED", "MEETING_SCHEDULED"}
    BY DEF NextType, Leading
  <2>2. a # "none"
    BY DEF Leading
  <2>. QED BY <2>1, <2>2 DEF QuestionsOf, AnswersOf
<1>. QED BY <1>1 DEF QuestionsFollowAnswers, Leading, NextType

LEMMA StepAsks ==
  TypeOK /\ Rows /\ QuestionsFollowAnswers /\ [Next]_vars => QuestionsFollowAnswers'
<1>. SUFFICES ASSUME TypeOK, Rows, QuestionsFollowAnswers, [Next]_vars
              PROVE  QuestionsFollowAnswers'
  OBVIOUS
<1>1. CASE UNCHANGED vars
  BY <1>1, SameQuestions DEF vars
<1>2. CASE Quiet
  BY <1>2, QuietKeeps, SameQuestions
<1>3. ASSUME NEW r \in Requests, Close(r) PROVE QuestionsFollowAnswers'
  <2>1. req[r].up \in FollowUps /\ up' = [up EXCEPT ![req[r].up].status = "CLOSED"]
        /\ feedback' = feedback
    BY <1>3 DEF Close, TypeOK
  <2>2. \A v \in FollowUps : up'[v].of = up[v].of /\ up'[v].type = up[v].type
    BY <2>1 DEF TypeOK, Up
  <2>. QED BY <2>1, <2>2, SameQuestions
<1>4. ASSUME NEW b \in Bookings, NEW m \in Members \cup {NoMember},
             BookOnly(b, m) \/ \E i, s \in FollowUps : BookWithFollowUps(b, m, i, s)
      PROVE  QuestionsFollowAnswers'
  <2>1. Book(b, m) /\ NewRowsOf(b)
    BY <1>4, BookRows
  <2>2. feedback' = feedback
    BY <2>1 DEF Book
  <2>3. \A u \in FollowUps : feedback[u] # "none" => up'[u].of = up[u].of
    BY <2>1 DEF NewRowsOf, Rows
  <2>4. ASSUME NEW u \in FollowUps
        PROVE  \/ up'[u].of = up[u].of /\ up'[u].type = up[u].type
               \/ /\ up[u].type \in {"MEETING_INITIATED", "MEETING_SCHEDULED"}
                  /\ up'[u].type \in {"MEETING_INITIATED", "MEETING_SCHEDULED"}
    <3>1. CASE up'[u] = up[u]
      BY <3>1
    <3>2. CASE up'[u] # up[u]
      <4>1. up[u].type = "MEETING_INITIATED"
        BY <2>1, <3>2, Shapes DEF NewRowsOf, Rows
      <4>. QED BY <2>1, <3>2, <4>1 DEF NewRowsOf
    <3>. QED BY <3>1, <3>2
  <2>. QED BY <2>2, <2>3, <2>4, SameQuestions
<1>5. ASSUME NEW r \in Requests, NEW done, NEW new, NEW u, NEW a, NEW b,
             Save(r, done, new), Answered(r, u, a, b)
      PROVE  QuestionsFollowAnswers'
  BY <1>5, SaveAsks
<1>. QED BY <1>1, <1>2, <1>3, <1>4, <1>5, Steps

LEMMA InitAsks == Init => QuestionsFollowAnswers
<1>. SUFFICES ASSUME Init PROVE QuestionsFollowAnswers
  OBVIOUS
<1>1. \A b \in Bookings : \A x : QuestionsOf(b, x) = {}
  BY Shapes, MeetingFollowUpsAssumptions DEF Init, QuestionsOf
<1>2. \A b \in Bookings, a \in Leading : AnswersOf(b, a) = {}
  BY DEF Init, AnswersOf, Leading
<1>. QED BY <1>1, <1>2 DEF QuestionsFollowAnswers, Leading

\* Further questions and the answers that led to them match one to one.
THEOREM QuestionsMatch == Spec => []QuestionsFollowAnswers
BY InitTypes, StepKeeps, InitAsks, StepAsks, PTL DEF Spec

=============================================================================
