CONSTANTS
  n1 = n1  n2 = n2  n3 = n3  n4 = n4  a = a  b = b
  None = None
  Node = {n1, n2}
  Vote = {a}
  WeightOf <- Equal
  Threshold = 2
  MaxProofs = 2
  Retention = 1
  MaxFaults = 2
SPECIFICATION FairSpec
INVARIANT TypeOK
PROPERTY ProofDecided
CHECK_DEADLOCK FALSE
