SPECIFICATION FairSpec
CONSTANTS
  None = None
  a1 = a1
  m1 = m1
  b1 = b1
  k1 = k1
  t1 = t1
  t2 = t2
  d1 = d1
  d2 = d2
  Members = {m1}
  AppIds = {a1}
  Bundles = {b1}
  EnvVars = {k1}
  Databases = {FALSE}
  Tasks = {t1, t2}
  Readers = {d1, d2}
  HelmRetries = 1
  Env = {"overlap", "crash", "age", "timeout", "redelete", "noupload"}
INVARIANTS ShipsAreAccountedFor OneTimeoutVerdict ReadyIsClean RecordedNamesAreStored
PROPERTIES ServingIsHonest DeployingEnds
CHECK_DEADLOCK FALSE
