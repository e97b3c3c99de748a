SPECIFICATION Spec
CONSTANTS
  q1 = q1
  q2 = q2
  q3 = q3
  r1 = r1
  r2 = r2
  Kinds <- MCKinds
  Request <- MCThree
  Does <- MCTeam
  Row <- MCRow
  MaxDelivs = 2
  MaxApprovals = 2
CHECK_DEADLOCK FALSE
INVARIANT ReleasedIsWhatWasSent
INVARIANT ReleasedIsReviewed
PROPERTY OnlyOvertakenMoves
