\* Two collectors with names of their own, one session with one slot.
CONSTANTS
  Sessions = {s1}
  Names = {c1, c2}
  Collectors = {c1, c2}
  CollectorName <- OwnName
  MaxConcurrency <- EqualConcurrency
  Slots = 1
  MaxLeases = 4
  HasRecovery = FALSE
SPECIFICATION Spec
INVARIANTS NoDuplicateLeasing
