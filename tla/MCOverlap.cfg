\* Two objects with one word in common.
CONSTANTS
  Objects = {o1, o2}
  Keywords = {1}
  Hours = {1}
  Texts <- AnyText
  Likes = {0}
  Documents <- OneCapture
  Deliveries = {d1}
  Writers = {w1, w2}
  None = None
SPECIFICATION Spec
INVARIANTS NoContributionLost
