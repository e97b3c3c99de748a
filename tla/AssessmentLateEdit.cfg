SPECIFICATION Spec
CONSTANTS
  q1 = q1
  q2 = q2
  q3 = q3
  r1 = r1
  r2 = r2
  Kinds <- MCAttack
  Request <- MCTwo
  Does <- MCPair
  Row <- MCRows
  MaxDelivs = 1
  MaxApprovals = 1
SYMMETRY RowSymmetry
CHECK_DEADLOCK FALSE
PROPERTY ApprovedRowsStand
