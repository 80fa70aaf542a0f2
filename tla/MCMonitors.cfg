\* Spikes and briefs around the turn of an hour.
CONSTANTS
  Hour = 4
  ScanInterval = 2
  Threshold = 1
  Top = 2
  MaxTime = 9
  MaxPosts = 3
SPECIFICATION Spec
CHECK_DEADLOCK FALSE
INVARIANTS MonitorInv AlertsAreTrue BriefedOnce
