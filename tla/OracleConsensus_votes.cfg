CONSTANTS
  n1 = n1  n2 = n2  n3 = n3  n4 = n4  a = a  b = b
  None = None
  Node = {n1, n2, n3, n4}
  Vote = {a, b}
  WeightOf <- Weighted
  Threshold = 3
  MaxProofs = 1
  Retention = 1
  MaxFaults = 2
SPECIFICATION Spec
INVARIANTS SubmittedHadQuorum Agreement LeaderHoldsLock OutcomeMatchesSubmission QuorumIsSeen
CHECK_DEADLOCK FALSE
