\* Two writers, two objects and two windows; texts gain and lose their words.  No
\* symmetry: LossNeedsOverlap is not an invariant.
CONSTANTS
  Objects = {o1, o2}
  Keywords = {1, 2}
  Hours = {1, 2}
  Texts <- AnyText
  Likes = {0, 1}
  Documents <- Captures
  Deliveries = {d1}
  Writers = {w1, w2}
  None = None
SPECIFICATION Spec
INVARIANTS TypeOK NoDeadlock ContributionsMatchFeed MaximumObserved
PROPERTIES SoloRebuildExact LossNeedsOverlap
