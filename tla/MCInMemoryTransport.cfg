CONSTANTS
  a = a
  b = b
  m1 = m1
  m2 = m2
  e1 = e1
  e2 = e2
  s1 = s1
  s2 = s2
  s3 = s3
  Messages = {m1, m2}
  TypeOf <- TwoTypes
  Endpoints = {e1, e2}
  Streams = {s1, s2, s3}
  EndpointOf <- SharedAndOne
  TypesOf <- Growing
  Closers = {s3}
  MaxAttempt = 2
SPECIFICATION FairSpec
INVARIANTS TypeOK OneCopy NoPushIsMissed
PROPERTY EveryCopyIsSettled
CHECK_DEADLOCK FALSE
