SPECIFICATION FairSpec
CONSTANTS
  c1 = c1
  c2 = c2
  c3 = c3
  u1 = u1
  None = None
  Run <- MCOneRun
  Call <- MCThree
  RunOf <- MCMixed
  Capacity = 1
  MaxRuns = 1
  EndedMemory = 1
INVARIANT PlacesComeBack
INVARIANT RefusalIsTrue
INVARIANT SlotsConserved
PROPERTY CallsEnd
PROPERTY ServedInTurn
PROPERTY ImplementsGate
