CONSTANTS
  m1 = m1
  m2 = m2
  c1 = c1
  c2 = c2
  c3 = c3
  w1 = w1
  w2 = w2
  None = none
  Messages = {m1}
  Copies = {c1, c2}
  MessageOf <- Twice
  Workers = {w1, w2}
  Stoppable = {}
  Handles <- AllHandle
  Undecodable = {}
  Inbox = FALSE
  Outbox = TRUE
  Publishes = 2
  Attempts = 2
SPECIFICATION Spec
SYMMETRY Symmetry
INVARIANT AckedIsDone
CHECK_DEADLOCK FALSE
