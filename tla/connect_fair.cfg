SPECIFICATION FairSpec
CONSTANTS
  None = None
  s1 = s1
  p1 = p1
  p2 = p2
  m1 = m1
  m2 = m2
  k1 = k1
  k2 = k2
  Sessions = {s1}
  Pages = {p1, p2}
  Members = {m1, m2}
  Tokens = {k1, k2}
  MaxCrashes = 1
INVARIANTS TypeOK ActsAsMinter
PROPERTIES AgentHears
CHECK_DEADLOCK FALSE
