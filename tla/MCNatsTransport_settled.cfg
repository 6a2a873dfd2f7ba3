CONSTANTS
  a = a
  b = b
  x = x
  y = y
  w1 = w1
  w2 = w2
  w3 = w3
  Types = {a, b}
  ErrorType = error
  Messages = {x, y}
  TypeOf <- TwoTypes
  Unreadable = {x}
  Instances = {w1, w2}
  TypesOf <- Growing
  OneStarts = TRUE
  MaxStored = 1
SPECIFICATION FairSpec
PROPERTY EveryOwedIsSettled
CHECK_DEADLOCK FALSE
