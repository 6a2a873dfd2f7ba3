CONSTANTS
  m1 = m1
  m2 = m2
  c1 = c1
  c2 = c2
  c3 = c3
  w1 = w1
  w2 = w2
  None = none
  Messages = {m1}
  Copies = {c1}
  MessageOf <- OneCopy
  Workers = {w1, w2}
  Stoppable = {w2}
  Handles <- AllHandle
  Undecodable = {}
  Inbox = TRUE
  Outbox = FALSE
  Publishes = 0
  Attempts = 2
SPECIFICATION FairSpec
INVARIANT AckedIsDone
PROPERTY EverySettled
CHECK_DEADLOCK FALSE
