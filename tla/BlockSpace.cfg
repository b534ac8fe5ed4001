CONSTANTS
  p1 = p1
  p2 = p2
  p3 = p3
  Procs = {p1, p2}
  Contents = {1, 2, 4}
  MB = 2
  LoopFileSize = 4
  BufferSize = 2
  MaxSize = 14
  Overhead <- MCOverhead
  Reserve = 1
SPECIFICATION SSpec
INVARIANTS
  SpaceTypeOK
  RoomIsAccounted
  RoomWhenAlone
PROPERTY
  ShrinksForAReason
SYMMETRY Symm
