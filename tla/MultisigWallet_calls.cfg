SPECIFICATION Spec
CONSTANTS
  Address = {a1, a2, a3}
  Delay = {0, 2}
  MaxStamp = 3
  MaxTime = 2
  MaxTx = 2
  None = None
SYMMETRY Accounts
INVARIANTS OwnersDense QuorumReachable CountsMatch DelayRespected PendingCanProceed
PROPERTY Settled
