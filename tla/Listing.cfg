CONSTANTS
  c1 = c1
  c2 = c2
  u1 = u1
  u2 = u2
  n1 = n1
  h1 = h1
  None = None
  Clients = {c1}
  Names = {n1}
  Owners = {u1}
  Keys = {1, 2}
  Hashes = {h1}
  MaxKeys = 1
  MaxBuckets = 1
  MaxObjects = 2
SPECIFICATION BSpec
INVARIANT ListingComplete
