\* Two collectors of different processes, both "worker-1", on one session with two
\* slots; under fairness the cooldown ends.
CONSTANTS
  Sessions = {s1}
  Names = {worker_1}
  Collectors = {c1, c2}
  CollectorName <- SharedName
  MaxConcurrency <- EqualConcurrency
  Slots = 2
  MaxLeases = 4
  HasRecovery = TRUE
SPECIFICATION LiveSpec
INVARIANTS TypeOK CooldownHasReason OverbookingBound
PROPERTIES LiveLeaseKept GrantedWhileOpen CooldownEnds LendingSpec
