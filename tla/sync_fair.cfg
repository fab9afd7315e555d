SPECIFICATION FairSpec
CONSTANTS
  e1 = e1
  e2 = e2
  t1 = t1
  Rows = {e1, e2}
  Kind <- MCKind
  Threads = {t1}
  MaxPost = 2
  ThreadOf <- MCThreadOf
  MaxTime = 3
  MaxChanges = 3
  MaxFaults = 2
INVARIANTS TypeOK NothingSkipped NoPostSkipped
PROPERTIES RemovedLeaves
