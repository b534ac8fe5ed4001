CONSTANTS
  c1 = c1
  c2 = c2
  u1 = u1
  u2 = u2
  n1 = n1
  h1 = h1
  None = None
  Clients = {c1, c2}
  Names = {n1}
  Owners = {u1, u2}
  Keys = {1, 2}
  Hashes = {h1}
  MaxKeys = 1
  MaxBuckets = 2
  MaxObjects = 2
SPECIFICATION BSpec
INVARIANTS
  BucketTypeOK
  ObjectHasBucket
  ContentBehindObjects
  ReadsAreChecked
PROPERTIES
  ObjectsLeaveByTheirKey
  ChangesAreOwned
SYMMETRY Symm
VIEW LiveState
