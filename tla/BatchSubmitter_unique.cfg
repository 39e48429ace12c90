SPECIFICATION Spec
CONSTANTS
  t1 = t1  t2 = t2  a1 = a1
  Tx = {t1, t2}
  Account = {a1}
  AccountOf <- OneAccount
  MaxBatchSize = 2
  RetryAttempts = 2
INVARIANT NumbersUnique
