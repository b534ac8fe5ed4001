CONSTANTS
  b1 = b1
  b2 = b2
  b3 = b3
  r1 = r1
  r2 = r2
  Backends = {b1}
  Requests = {r1}
  Kinds = {"get"}
  Spaces = {0, 1}
  FailCap = 3
SPECIFICATION BSpec
PROPERTY CopyNotCancelled
