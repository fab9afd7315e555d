SPECIFICATION Spec
CONSTANTS
  None = None
  a1 = a1
  m1 = m1
  m2 = m2
  b1 = b1
  b2 = b2
  k1 = k1
  t1 = t1
  t2 = t2
  t3 = t3
  Members = {m1, m2}
  AppIds = {a1}
  Bundles = {b1, b2}
  EnvVars = {k1}
  Databases = {FALSE, TRUE}
  Tasks = {t1, t2, t3}
  Readers = {}
  HelmRetries = 1
  Env = {"noupload"}
SYMMETRY Symmetry
INVARIANTS TypeOK LatestServes ReadyHasConfig AnnouncedOnce DeletedIsTornDown
PROPERTIES ClaimIsGlobal
CHECK_DEADLOCK FALSE
