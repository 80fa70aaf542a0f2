\* Every timer of a delivery, from the defaults to settings without slack.
CONSTANTS
  Second = 3
  Environments <- AllEnvironments
  Polling = 2
  Traffic = FALSE
  None = None
SPECIFICATION Spec
INVARIANTS TypeOK LeaseOutlivesHeartbeat ReclaimedOnlyIfMissed RecoveredInTime
