CONSTANTS
  n1 = n1  n2 = n2  n3 = n3  n4 = n4  a = a  b = b
  None = None
  Node = {n1, n2, n3}
  Vote = {a}
  WeightOf <- Equal
  Threshold = 2
  MaxProofs = 1
  Retention = 1
  MaxFaults = 0
SPECIFICATION Spec
INVARIANT OneSubmissionPerProof
CHECK_DEADLOCK FALSE
