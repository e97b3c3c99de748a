SPECIFICATION Spec
CONSTANTS
  q1 = q1
  q2 = q2
  s1 = s1
  s2 = s2
  csf = csf
  zt = zt
  Request <- MCTwo
  Service <- MCServices
  Kind <- MCKinds
  MaxRegs = 2
  MaxRecords = 2
  MaxContent = 1
  MaxOdd = 1
  Fingerprinted <- MCFingerprinted
  Worked <- MCWorked
  Setting <- MCSetting
  Body <- MCBodies
SYMMETRY RiskSymmetry
INVARIANT FileIsRegister
INVARIANT PublishedIsReleasedWork
INVARIANT KindStaysEngaged
PROPERTY RatingsAccounted
PROPERTY UnsentStays
CHECK_DEADLOCK FALSE
