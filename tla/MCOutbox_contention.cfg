CONSTANTS
  Rows = {1, 2}
  Unreadable = {}
  Dispatchers = {d1, d2}
  Stoppable = {}
  BatchSize = 2
  Lease = 1
  Attempts = 2
  RetryDelays = {1}
  AttemptBound = 2
  StallBound = 1
  AgeBound = 2
SPECIFICATION Spec
SYMMETRY Symmetry
INVARIANTS DispatchedIsStored LeaseExclusive
PROPERTIES NoOverwrite AttemptsDecide
