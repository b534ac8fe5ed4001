CONSTANTS
  b1 = b1
  b2 = b2
  b3 = b3
  r1 = r1
  r2 = r2
  Backends = {b1, b2}
  Requests = {r1, r2}
  Kinds = {"download", "info", "delete", "upload"}
  Spaces = {1}
  FailCap = 3
SPECIFICATION BSpec
INVARIANTS
  BTypeOK
  NotFoundMeansNowhere
  HeldFileIsServed
  DeletedWhereAsked
  UploadIsStored
SYMMETRY Symm
CONSTRAINT BetweenRounds
VIEW LiveState
