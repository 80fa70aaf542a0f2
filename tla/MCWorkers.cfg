SPECIFICATION Spec
CONSTANTS
  TaskIds = {t1}
  Keys = {k1}
  Workers = {w1, w2}
  Names = {w1, w2}
  Dispatchers = {d1}
  None = None
  AttemptLimits = {2}
  MaxAttempts = 2
  BatchSize = 1
  MaxMessages = 2
  WorkerName <- OwnName
SYMMETRY Symmetry
INVARIANTS
  TypeOK
  NoLostTask
  AckedIsSettled
  SoleFencedExecutor
  AttemptAccounting
  VisibleImpliesEnqueued
PROPERTIES
  NeverReopened
  LiveLeaseRespected
