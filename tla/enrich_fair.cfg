SPECIFICATION EditedSpec
CONSTANTS
  f1 = f1
  r1 = r1
  EnrichCron = EnrichCron
  JudgeCron = JudgeCron
  Fields = {f1}
  UserJudgable = {f1}
  Requests = {r1}
  MaxCrashes = 1
  Env = {"raceedit"}
INVARIANTS TypeOK
PROPERTIES  EnrichmentEnds JudgingEnds
