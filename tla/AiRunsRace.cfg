SPECIFICATION Spec
CONSTANTS
  r1 = r1
  r2 = r2
  p1 = p1
  p2 = p2
  w1 = w1
  mitre_map = mitre_map
  scenario_delta = scenario_delta
  a1 = a1
  a2 = a2
  NoRun = NoRun
  RunId <- MCRunId
  Poster <- MCPosters
  Poller <- MCNoPoller
  Purpose <- MCPurpose
  NonLocking <- MCNoPoller
  Subject <- MCSubjects
  RunDeadline = 0
  ReapMargin = 0
  MaxClock = 1
  MaxBoot = 1
  MaxFault = 0
SYMMETRY RunSymmetry
INVARIANT NoJobIsOrphaned
INVARIANT HandedWhatItAsked
INVARIANT HeldPlaceIsNeeded
PROPERTY ImplementsRunLock
