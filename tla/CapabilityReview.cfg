SPECIFICATION Spec
CONSTANTS
  q1 = q1
  q2 = q2
  s1 = s1
  c1 = c1
  Request <- MCTwo
  Op <- MCAll
  Source <- MCRow
  Part <- MCPart
  MaxVersion = 1
  MaxRevision = 3
  MaxDelivs = 2
SYMMETRY RequestSymmetry
CHECK_DEADLOCK FALSE
INVARIANT ReportsAreWhole
PROPERTY ImplementsReviewedDoc
