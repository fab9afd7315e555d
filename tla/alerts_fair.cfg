SPECIFICATION FairSpec
CONSTANTS
  m1 = m1
  NoRun = NoRun
  Postings = {p1, p2}
  Alerts = {a1}
  Members = {m1}
  Owner <- MCOwner
  Runs = {r1, r2}
  Jobs = {g1, g2}
  MaxFaults = 1
  Env = {}
CHECK_DEADLOCK FALSE
INVARIANTS TypeOK NothingMissed OncePerRun
PROPERTIES OwedMailed
