SPECIFICATION Spec
CONSTANTS
  m1 = m1
  m2 = m2
  b1 = b1
  b2 = b2
  u1 = u1
  u2 = u2
  u3 = u3
  r1 = r1
  r2 = r2
  Members = {m1, m2}
  NoMember = NoMember
  Bookings = {b1, b2}
  NoBooking = NoBooking
  FollowUps = {u1, u2, u3}
  NoFollowUp = NoFollowUp
  Requests = {r1, r2}
SYMMETRY Symmetry
CHECK_DEADLOCK FALSE
INVARIANTS TypeOK CounterMatches NoStaleQuestion QuestionsFollowAnswers
PROPERTIES AnswerIsFinal
