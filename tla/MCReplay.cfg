SPECIFICATION Spec
CONSTANTS
  TaskIds = {t1, t2}
  Keys = {k1, k2}
  Workers = {w1}
  Names = {w1}
  Dispatchers = {d1}
  None = None
  AttemptLimits = {1}
  MaxAttempts = 1
  BatchSize = 2
  MaxMessages = 2
  WorkerName <- OwnName
SYMMETRY Symmetry
INVARIANTS
  DeadLetterArchive
  ReplayLineage
  IInv
PROPERTIES
  LifecycleSpec
