SPECIFICATION FairSpec
CONSTANTS
  r1 = r1
  r2 = r2
  p1 = p1
  p2 = p2
  w1 = w1
  mitre_map = mitre_map
  scenario_delta = scenario_delta
  a1 = a1
  a2 = a2
  NoRun = NoRun
  RunId <- MCOneRun
  Poster <- MCPoster
  Poller <- MCPoller
  Purpose <- MCPurposes
  NonLocking <- MCNonLocking
  Subject <- MCSubject
  RunDeadline = 1
  ReapMargin = 1
  MaxClock = 3
  MaxBoot = 1
  MaxFault = 2
INVARIANT RunInv
PROPERTY RunsEndOnce
PROPERTY LockComesBack
PROPERTY LockedMeansExecuting
