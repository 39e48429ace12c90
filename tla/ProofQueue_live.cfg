SPECIFICATION FairSpec
CONSTANTS
  t1 = t1  t2 = t2  w1 = w1  w2 = w2  p1 = p1  p2 = p2  k1 = k1
  None = None
  Task = {t1}
  Key = {k1}
  KeyOf <- NoKey
  Worker = {w1, w2}
  Process = {p1, p2}
  ProcOf <- Together
  Admin = {a1, a2}
  MaxRetries = 1
  Deadlined = {t1}
  MaxFaults = 2
  MaxRequeues = 2
CHECK_DEADLOCK FALSE
PROPERTY TaskEnds
