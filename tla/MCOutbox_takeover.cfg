CONSTANTS
  Rows = {1}
  Unreadable = {}
  Dispatchers = {d1, d2}
  Stoppable = {d1}
  BatchSize = 1
  Lease = 2
  Attempts = 1
  RetryDelays = {1}
  AttemptBound = 0
  StallBound = 0
  AgeBound = 1
SPECIFICATION FairSpec
PROPERTIES KeepsPromise EveryRowIsSettled
