CONSTANTS
  n1 = n1
  n2 = n2
  c1 = c1
  c2 = c2
  Names = {n1, n2}
  MaxEndpoints = 2
  MaxWorkers = 3
  Clones = {c1, c2}
SPECIFICATION FairSpec
INVARIANTS TypeOK RunsWhole ReturnedMeansStopped
PROPERTIES ShutdownReturns LastDropEnds
CHECK_DEADLOCK FALSE
