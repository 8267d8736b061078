CONSTANTS
  CtlJobs = {j1}
  TestJobs = {t1}
  ScanJobs = {s1}
  t1 = t1
  Type <- TypeMC
  TestOf <- TestOfMC
  Res = {r1}
  j1 = j1
  j2 = j2
  s1 = s1
  r1 = r1
  r2 = r2
  Tgt <- TgtOne
  MaxDisconnects = 1
  MaxRestarts = 0
  NONE = NONE
SPECIFICATION Spec
INVARIANT AgentListed
CHECK_DEADLOCK FALSE
