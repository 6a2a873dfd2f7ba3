CONSTANTS
  a = a
  b = b
  x = x
  y = y
  w1 = w1
  w2 = w2
  w3 = w3
  Types = {a, b}
  ErrorType = error
  Messages = {x, y}
  TypeOf <- TwoTypes
  Unreadable = {y}
  Instances = {w1, w2, w3}
  TypesOf <- ApartAndNone
  OneStarts = TRUE
  MaxStored = 2
SPECIFICATION Spec
INVARIANTS TypeOK TakesItsOwn TerminatedHasCopy
PROPERTY FilterOnlyWidens
