\* Every payload under three settings and three routes, and collections of up to
\* four pages of a source with three.
CONSTANTS
  Catalog <- SearchCatalog
  Digits <- Numerals
  Dates <- CalendarDates
  None = None
  Tasks <- AllTasks
  Environments <- SomeEnvironments
  OtherRoutes <- TwoRoutes
  Last = 3
SPECIFICATION Spec
CHECK_DEADLOCK FALSE
INVARIANTS NothingIgnored WithinLimits PlanIsRepeatable CursorProgression
PROPERTIES RequestsRunOut CollectEnds
