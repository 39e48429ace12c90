CONSTANTS
  t1 = t1  t2 = t2  m1 = m1  m2 = m2  p1 = p1  p2 = p2
  kp = kp  kb = kb  None = None
  Task <- MCTask
  Manager <- MCManager
  Process = {p1, p2}
  Key = {kb}
  ManagerOf <- MCManagerOf
  ProcessOf <- TwoProcesses
  ScopeOf <- BatchOnly
  MaxOwners = 2
  MaxAttempts = 2
  MaxTtl = 2
  MaxFaults = 1
  StrictParent = FALSE
SPECIFICATION FairSpec
PROPERTIES AcquireEnds OrphanExpires
CHECK_DEADLOCK FALSE
