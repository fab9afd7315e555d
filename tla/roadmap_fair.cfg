SPECIFICATION FairSpec
CONSTANTS
  i1 = i1
  i2 = i2
  m1 = m1
  m2 = m2
  Items = {i1, i2}
  Members = {m1, m2}
  Author <- MCAuthor
  Requests = {t1}
  Curators = {c1}
  Moves <- MCMoves
  DefaultLimit = 1
  MaxLimit = 1
  MaxFaults = 1
  Env = {}
  NoItem = NoItem
  NoMember = NoMember
CHECK_DEADLOCK FALSE
INVARIANTS TypeOK BudgetKept FrozenHoldsNoBoost CommittedOnce
PROPERTIES OwedAreTold
