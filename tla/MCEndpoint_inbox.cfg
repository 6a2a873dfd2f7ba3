CONSTANTS
  m1 = m1
  m2 = m2
  c1 = c1
  c2 = c2
  c3 = c3
  w1 = w1
  w2 = w2
  None = none
  Messages = {m1, m2}
  Copies = {c1, c2, c3}
  MessageOf <- TwiceAndOnce
  Workers = {w1, w2}
  Stoppable = {}
  Handles <- Deploying
  Undecodable = {m2}
  Inbox = TRUE
  Outbox = TRUE
  Publishes = 1
  Attempts = 2
SPECIFICATION Spec
SYMMETRY Alike
INVARIANTS WorkOnceAndWhole HandlerAlone AckedIsDone RejectedHasCopy
PROPERTY KeepsPromise
CHECK_DEADLOCK FALSE
