SPECIFICATION FairSpec
CONSTANTS
  Batches <- MCThree
  MaxWorkers = 2
  MaxLost = 1
CHECK_DEADLOCK FALSE
INVARIANT WholeOrFailed
INVARIANT RecordsAreTrue
INVARIANT BadKeyCostsOnePerWorker
PROPERTY NothingStartsUnheard
PROPERTY RunEnds
