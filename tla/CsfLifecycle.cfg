SPECIFICATION Spec
CONSTANTS
  q1 = q1
  q2 = q2
  Request <- MCTwo
  Op <- AllOps
  MaxVersion = 2
  MaxDelivs = 2
  MaxWrites = 1
SYMMETRY RequestSymmetry
CHECK_DEADLOCK FALSE
INVARIANT LifecycleInv
INVARIANT ReleasedTogether
INVARIANT BuiltOnApproval
PROPERTY ClientKeepsReport
