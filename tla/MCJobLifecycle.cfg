CONSTANTS
  CtlJobs = {j1}
  TestJobs = {t1}
  ScanJobs = {s1}
  t1 = t1
  Type <- TypeMC
  TestOf <- TestOfMC
  Res = {r1}
  j1 = j1
  j2 = j2
  r2 = r2
  s1 = s1
  r1 = r1
  Tgt <- TgtOne
  MaxDisconnects = 1
  MaxRestarts = 1
  NONE = NONE
SPECIFICATION Spec
INVARIANT TypeOK
INVARIANT ArchiveMatchesExecution
INVARIANT TestFollowsOk
PROPERTY EverySettles
CHECK_DEADLOCK FALSE
