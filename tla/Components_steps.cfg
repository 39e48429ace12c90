SPECIFICATION Spec
CONSTANTS
  u1 = u1
  u2 = u2
  u3 = u3
  k1 = k1
  k2 = k2
  t1 = t1
  t2 = t2
  h1 = h1
  h2 = h2
  Nil = Nil
  Job = {u1, u2, u3}
  Source = {k1, k2}
  SourceOf <- SourceOfJob
  MaxWorkers = 2
  MaxDeaths = 2
  Request = {u1, u2, u3}
  MaxFlips = 1
  Empty = t1
  Sentinel = t2
  Process = {k1, k2}
  Reader = {u1, u2}
  Purger = {u3, h1}
  ProcOf <- ProcessOf
  MaxVersion = 2
  MaxPurges = 1
  Task = {t1}
  High = {}
  Worker = {u1, u2}
  Sweeper = {k1}
  MaxRetries = 1
  LiveCanAge = TRUE
  MaxFails = 2
  MaxMoves = 1
  MaxLapses = 1
  MaxCrashes = 1
INVARIANTS DoneOnce AnswersGenuine FundsBacked RecordsAgree
PROPERTIES SettledOnce ValueKept
CHECK_DEADLOCK FALSE
