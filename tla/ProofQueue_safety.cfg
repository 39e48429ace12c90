SPECIFICATION Spec
CONSTANTS
  t1 = t1  t2 = t2  w1 = w1  w2 = w2  p1 = p1  p2 = p2  k1 = k1
  None = None
  Task = {t1, t2}
  Key = {k1}
  KeyOf <- OneKey
  Worker = {w1, w2}
  Process = {p1, p2}
  ProcOf <- OneEach
  Admin = {a1, a2}
  MaxRetries = 1
  Deadlined = {}
  MaxFaults = 1
  MaxRequeues = 2
CHECK_DEADLOCK FALSE
INVARIANTS ListsAgree ExclusiveUnlessLapsed AttemptsBounded DeadLetterJustified DuplicatesOverlap
PROPERTY KeepsLifecycle
SYMMETRY Alike
