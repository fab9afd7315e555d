SPECIFICATION Spec
CONSTANTS
  k1 = k1
  k2 = k2
  NoKey = NoKey
  r1 = r1
  r2 = r2
  Keys = {k1, k2}
  Narrower <- MCNarrower
  Reads = {r1, r2}
  Limit = 1
  Retain = 2
  MaxEntries = 1
  MaxLines = 3
  MaxDeploys = 2
  MaxStreams = 1
CHECK_DEADLOCK FALSE
INVARIANTS TypeOK CacheIsCurrent NoGap
