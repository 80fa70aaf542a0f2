\* Two collectors, one session with two slots.
CONSTANTS
  Sessions = {s1}
  Names = {c1, c2}
  Collectors = {c1, c2}
  CollectorName <- OwnName
  MaxConcurrency <- EqualConcurrency
  Slots = 2
  MaxLeases = 4
  HasRecovery = FALSE
SPECIFICATION LiveSpec
PROPERTIES RevokedStaysOut
