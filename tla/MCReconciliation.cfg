CONSTANTS
  m1 = m1
  q1 = q1
  t1 = t1
  t2 = t2
  u1 = u1
  u2 = u2
  lab = lab
  prod = prod
  n1 = n1
  n2 = n2
  Subs = {u1}
  Macs = {m1}
  Qns = {q1}
  ResIds = {t1, t2}
  ScanHealth = {"OK", "FAILED"}
  ScanProtos = {"iscsi", "scst"}
  MaxScans = 2
  MaxRestarts = 1
  MaxCopies = 1
  NONE = NONE
  DUP = DUP
  Envs <- EnvsOne
  ControlEnv <- CtlEnv
SYMMETRY SymIdsSubs
SPECIFICATION Spec
INVARIANT TypeOK
PROPERTY ChangesAreAnnounced
CHECK_DEADLOCK FALSE
