SPECIFICATION MigrationSpec
CONSTANTS
  TaskIds = {t1}
  Keys = {k1}
  Workers = {w1}
  Names = {w1}
  Dispatchers = {d1}
  None = None
  AttemptLimits = {1}
  MaxAttempts = 1
  BatchSize = 1
  MaxMessages = 3
  MaxFaults = 2
  Unreliable = {w1, d1}
  WorkerName <- OwnName
PROPERTIES
  HardCrashRecovers
