CONSTANTS
  Rows = {1, 2}
  Unreadable = {2}
  Dispatchers = {d1}
  Stoppable = {}
  BatchSize = 1
  Lease = 2
  Attempts = 2
  RetryDelays = {1}
  AttemptBound = 2
  StallBound = 0
  AgeBound = 1
SPECIFICATION FairSpec
PROPERTY EveryRowIsSettled
