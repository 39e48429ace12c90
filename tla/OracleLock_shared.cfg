CONSTANTS
  t1 = t1  t2 = t2  m1 = m1  m2 = m2  p1 = p1  p2 = p2
  kp = kp  kb = kb  None = None
  Task <- MCTask
  Manager <- MCManager
  Process = {p1}
  Key = {kp, kb}
  ManagerOf <- MCManagerOf
  ProcessOf <- OneProcess
  ScopeOf <- MCScopeOf
  MaxOwners = 3
  MaxAttempts = 2
  MaxTtl = 1
  MaxFaults = 1
  StrictParent = FALSE
SPECIFICATION Spec
INVARIANTS TypeOK HeldMeansOwned TrackingAgrees NoDeadlockReport RankOrder
PROPERTY RecoveryIsSafe
CHECK_DEADLOCK FALSE
