SPECIFICATION Spec
CONSTANTS
  q1 = q1
  q2 = q2
  Request <- MCTwo
  Op <- MCStatuses
  MaxVersion = 1
  MaxDelivs = 0
  MaxWrites = 0
SYMMETRY RequestSymmetry
CHECK_DEADLOCK FALSE
INVARIANT DiscardedIsNeverApproved
