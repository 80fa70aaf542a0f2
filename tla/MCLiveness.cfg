\* A process dies for good, an attempt fails, a lease or a claim runs out: the
\* ones left over finish the task and drain the pending list.
CONSTANTS
  TaskIds = {t1}
  Keys = {k1}
  Workers = {w1, w2}
  Names = {w1, w2}
  Dispatchers = {d1, d2}
  None = None
  AttemptLimits = {1, 2}
  MaxAttempts = 2
  BatchSize = 1
  MaxMessages = 3
  MaxFaults = 1
  Unreliable = {w1, d1}
  WorkerName <- OwnName
SPECIFICATION LiveSpec
PROPERTIES EventuallySettled EventuallyAcked
