-------------------------- MODULE MeetingFollowUps --------------------------
(***************************************************************************)
(* Office hours: booked meetings, the questions that follow them up, and   *)
(* their answers (office-hours, member-follow-ups, member-feedbacks,       *)
(* member-interaction-adjustments).                                        *)
(*                                                                         *)
(* An answer and a close are each a lookup and then a write that does not  *)
(* look again, so that requests for one question interleave.  The write of *)
(* an answer is one transaction, whose rows the database locks until its   *)
(* end: it is one step here, with the three ways in which it can end.      *)
(*                                                                         *)
(* Left out: who asks, for only the member that booked can answer, and is  *)
(* taken to stay approved; the delay after which a question is listed,     *)
(* which no write looks at; texts, ratings and the data of a meeting.      *)
(***************************************************************************)
EXTENDS Naturals, FiniteSets

CONSTANTS
  Members,      \* those whose office hours are booked
  NoMember,
  Bookings,     \* ids of MemberInteraction rows
  NoBooking,
  FollowUps,    \* ids of MemberFollowUp rows
  NoFollowUp,
  Requests      \* answers and closes under way at once

ASSUME MeetingFollowUpsAssumptions ==
  /\ NoMember \notin Members
  /\ NoBooking \notin Bookings
  /\ NoFollowUp \notin FollowUps
  /\ IsFiniteSet(Bookings) /\ IsFiniteSet(FollowUps)

VARIABLES
  booking,
  up,
  feedback,   \* MemberFeedback, of which a follow-up has at most one
  adjusted,   \* bookings with a NEGATIVE_FEEDBACK adjustment
  count,      \* scheduleMeetingCount
  req,
  thanked     \* history: follow-ups of which an answer was reported as saved

vars == <<booking, up, feedback, adjusted, count, req, thanked>>

-----------------------------------------------------------------------------

\* A booking without a member is of another type or names nobody.
Booking == [made : BOOLEAN, member : Members \cup {NoMember}]

NoBookingYet == [made |-> FALSE, member |-> NoMember]

\* A NEGATIVE answer for another reason is "NEGATIVE"; NEUTRAL is "POSITIVE".
Answers == {"POSITIVE", "NEGATIVE", "IFR0004", "IFR0005"}

Negative(a) == a # "POSITIVE"

Up == [status : {"absent", "PENDING", "COMPLETED", "CLOSED"},
       type : {"MEETING_INITIATED", "MEETING_SCHEDULED",
               "MEETING_YET_TO_HAPPEN", "MEETING_RESCHEDULED"},
       of : Bookings \cup {NoBooking}]

Asked(b, type) == [status |-> "PENDING", type |-> type, of |-> b]

NotAsked == [Asked(NoBooking, "MEETING_INITIATED") EXCEPT !.status = "absent"]

Request == [pc : {"idle", "answer", "close"}, up : FollowUps \cup {NoFollowUp},
            answer : Answers]

NoRequest == [pc |-> "idle", up |-> NoFollowUp, answer |-> "POSITIVE"]

\* A request under way is for a follow-up that is there, and that belongs to a
\* booking that is.
TypeOK ==
  /\ booking \in [Bookings -> Booking]
  /\ up \in [FollowUps -> Up]
  /\ feedback \in [FollowUps -> Answers \cup {"none"}]
  /\ adjusted \subseteq Bookings
  /\ count \in [Members -> Nat]
  /\ req \in [Requests -> Request]
  /\ thanked \subseteq FollowUps
  /\ \A r \in Requests : req[r].pc # "idle" =>
       req[r].up \in FollowUps /\ up[req[r].up].status # "absent"
  /\ \A u \in FollowUps : up[u].status # "absent" =>
       up[u].of \in Bookings /\ booking[up[u].of].made

Init ==
  /\ booking = [b \in Bookings |-> NoBookingYet]
  /\ up = [u \in FollowUps |-> NotAsked]
  /\ feedback = [u \in FollowUps |-> "none"]
  /\ adjusted = {}
  /\ count = [m \in Members |-> 0]
  /\ req = [r \in Requests |-> NoRequest]
  /\ thanked = {}

-----------------------------------------------------------------------------

Unused(u) == up[u].status = "absent"

Exists(b) == booking[b].made

Counted(b) == booking[b].member # NoMember

-----------------------------------------------------------------------------
(* createInteraction: one transaction.  A recent booking of the same member *)
(* is looked up before, and not looked at.                                  *)

Book(b, m) ==
  /\ ~Exists(b)
  /\ booking' = [booking EXCEPT ![b] = [made |-> TRUE, member |-> m]]
  /\ count' = [n \in Members |-> IF n = m THEN count[n] + 1 ELSE count[n]]
  /\ UNCHANGED <<feedback, adjusted, req, thanked>>

BookWithFollowUps(b, m, i, s) ==
  /\ i # s /\ Unused(i) /\ Unused(s)
  /\ Book(b, m)
  /\ up' = [up EXCEPT ![i] = Asked(b, "MEETING_INITIATED"),
                      ![s] = Asked(b, "MEETING_SCHEDULED")]

BookOnly(b, m) == Book(b, m) /\ UNCHANGED up

-----------------------------------------------------------------------------
(* createMemberInteractionFeedback.                                        *)

\* The lookup forgets the status.
StartAnswer_Slip(r, u, a) ==
  /\ req[r].pc = "idle"
  /\ req' = [req EXCEPT ![r] = [pc |-> "answer", up |-> u, answer |-> a]]
  /\ UNCHANGED <<booking, up, feedback, adjusted, count, thanked>>

StartAnswer(r, u, a) ==
  /\ req[r].pc = "idle"
  /\ up[u].status \in {"PENDING", "CLOSED"}
  /\ req' = [req EXCEPT ![r] = [pc |-> "answer", up |-> u, answer |-> a]]
  /\ UNCHANGED <<booking, up, feedback, adjusted, count, thanked>>

\* The caller hears of an error, the process dies, or there was no time left.
Fail(r) ==
  /\ req[r].pc # "idle"
  /\ req' = [req EXCEPT ![r] = NoRequest]
  /\ UNCHANGED <<booking, up, feedback, adjusted, count, thanked>>

Answering(r) == req[r].pc = "answer"

\* Nobody asks whether a feedback is there.
Taken_Slip(u) == FALSE

\* followUpUid is unique among feedbacks: the insert fails, and with it all.
Taken(u) == feedback[u] # "none"

\* applyAdjustmentByInteractionTx is to insert a row.
Adjusts(b, a) == Negative(a) /\ Counted(b)

\* The insert of the adjustment fails on its unique index.  The code takes that
\* for a no-op, but a statement that fails aborts the transaction in Postgres:
\* the COMMIT that follows rolls everything back, and reports no error.
RolledBack(r) ==
  LET u == req[r].up
      b == up[u].of
  IN /\ Answering(r)
     /\ ~Taken(u)
     /\ Adjusts(b, req[r].answer) /\ b \in adjusted
     /\ thanked' = thanked \cup {u}
     /\ req' = [req EXCEPT ![r] = NoRequest]
     /\ UNCHANGED <<booking, up, feedback, adjusted, count>>

\* The question after the meeting stays.
Moot_Slip(u, a) == {{}}

\* "I have not scheduled" makes the question after the meeting pointless: the
\* first such follow-up is completed along.
Moot(u, a) ==
  LET later == {v \in FollowUps : /\ ~Unused(v) /\ up[v].of = up[u].of
                                  /\ up[v].type = "MEETING_SCHEDULED"}
  IN IF up[u].type = "MEETING_INITIATED" /\ Negative(a) /\ later # {}
     THEN {{v} : v \in later}
     ELSE {{}}

\* The type of the question that an answer leads to.
NextType(a) ==
  IF a = "IFR0004" THEN "MEETING_YET_TO_HAPPEN"
  ELSE IF a = "IFR0005" THEN "MEETING_RESCHEDULED"
  ELSE "none"

\* Rows for the next question: none, or any unused one.
NewRows(a) ==
  IF NextType(a) = "none" THEN {{}} ELSE {{n} : n \in {v \in FollowUps : Unused(v)}}

\* The next question is written before, and outside, the transaction that the
\* feedback fails in.
Conflict_Slip(r) ==
  /\ Answering(r)
  /\ Taken(req[r].up)
  /\ \E new \in NewRows(req[r].answer) : up' = [v \in FollowUps |->
       IF v \in new THEN Asked(up[req[r].up].of, NextType(req[r].answer)) ELSE up[v]]
  /\ req' = [req EXCEPT ![r] = NoRequest]
  /\ UNCHANGED <<booking, feedback, adjusted, count, thanked>>

Conflict(r) ==
  /\ Answering(r)
  /\ Taken(req[r].up)
  /\ req' = [req EXCEPT ![r] = NoRequest]
  /\ UNCHANGED <<booking, up, feedback, adjusted, count, thanked>>

\* The counter goes down with every negative answer.
Adjust_Slip(b, a) ==
  /\ adjusted' = adjusted
  /\ count' = [m \in Members |->
       IF Negative(a) /\ m = booking[b].member /\ count[m] > 0 THEN count[m] - 1 ELSE count[m]]

\* The row of the adjustment and, with it, the counter of the member booked.
Adjust(b, a) ==
  IF Adjusts(b, a)
  THEN /\ adjusted' = adjusted \cup {b}
       /\ count' = [m \in Members |->
            IF m = booking[b].member /\ count[m] > 0 THEN count[m] - 1 ELSE count[m]]
  ELSE UNCHANGED <<adjusted, count>>

Save(r, done, new) ==
  LET u == req[r].up
      a == req[r].answer
      b == up[u].of
  IN /\ Answering(r)
     /\ ~Taken(u)
     /\ ~(Adjusts(b, a) /\ b \in adjusted)
     /\ done \in Moot(u, a) /\ new \in NewRows(a)
     /\ feedback' = [feedback EXCEPT ![u] = a]
     /\ up' = [v \in FollowUps |->
          IF v \in new THEN Asked(b, NextType(a))
          ELSE IF v \in done \cup {u} THEN [up[v] EXCEPT !.status = "COMPLETED"]
          ELSE up[v]]
     /\ Adjust(b, a)
     /\ thanked' = thanked \cup {u}
     /\ req' = [req EXCEPT ![r] = NoRequest]
     /\ UNCHANGED booking

-----------------------------------------------------------------------------
(* closeMemberInteractionFollowUp.                                         *)

StartClose(r, u) ==
  /\ req[r].pc = "idle"
  /\ up[u].status = "PENDING"
  /\ req' = [req EXCEPT ![r] = [NoRequest EXCEPT !.pc = "close", !.up = u]]
  /\ UNCHANGED <<booking, up, feedback, adjusted, count, thanked>>

\* Whatever became of it in the meantime.
Close(r) ==
  /\ req[r].pc = "close"
  /\ up' = [up EXCEPT ![req[r].up].status = "CLOSED"]
  /\ req' = [req EXCEPT ![r] = NoRequest]
  /\ UNCHANGED <<booking, feedback, adjusted, count, thanked>>

-----------------------------------------------------------------------------

RequestStep(r) ==
  \/ Conflict(r) \/ RolledBack(r) \/ Close(r) \/ Fail(r)
  \/ \E done, new \in SUBSET FollowUps : Save(r, done, new)

Next ==
  \/ \E b \in Bookings, m \in Members \cup {NoMember} :
       \/ BookOnly(b, m)
       \/ \E i, s \in FollowUps : BookWithFollowUps(b, m, i, s)
  \/ \E r \in Requests, u \in FollowUps :
       StartClose(r, u) \/ \E a \in Answers : StartAnswer(r, u, a)
  \/ \E r \in Requests : RequestStep(r)

Spec == Init /\ [][Next]_vars

-----------------------------------------------------------------------------
(* Properties.                                                             *)

DidNotHappen(b) ==
  \E u \in FollowUps : /\ up[u].of = b /\ feedback[u] # "none"
                       /\ Negative(feedback[u])

MeetingsWith(m) == {b \in Bookings : booking[b].member = m /\ ~DidNotHappen(b)}

\* A member's counter is the number of meetings booked with them of which
\* nobody said no, however often and by how many requests the questions of a
\* meeting are answered: each booking counts once and is taken back once.
CounterMatches == \A m \in Members : count[m] = Cardinality(MeetingsWith(m))

\* Once the member has said that nothing was scheduled they are not asked how
\* the meeting went, even if a close or another answer came in between.
NoStaleQuestion ==
  \A u, v \in FollowUps :
    /\ up[u].type = "MEETING_INITIATED" /\ feedback[u] # "none" /\ Negative(feedback[u])
    /\ up[v].type = "MEETING_SCHEDULED" /\ up[v].of = up[u].of
    => up[v].status # "PENDING"

QuestionsOf(b, type) == {u \in FollowUps : up[u].of = b /\ up[u].type = type}

AnswersOf(b, a) == {u \in FollowUps : up[u].of = b /\ feedback[u] = a}

\* A further question is there exactly for an answer that leads to one, of the
\* same booking and of its type: two requests that answer one question, or one
\* that fails halfway, leave no question without its answer and none twice.
QuestionsFollowAnswers ==
  \A b \in Bookings, a \in {"IFR0004", "IFR0005"} :
    Cardinality(QuestionsOf(b, NextType(a))) = Cardinality(AnswersOf(b, a))

\* An answer is never replaced, although a close that was looked up before it
\* makes its question answerable again.
AnswerIsFinal ==
  [][\A u \in FollowUps : feedback[u] # "none" => feedback'[u] = feedback[u]]_vars

\* An answer that was reported as saved is there.
AnswersAreKept == \A u \in thanked : feedback[u] # "none"

=============================================================================
