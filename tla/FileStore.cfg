CONSTANTS
  p1 = p1
  p2 = p2
  p3 = p3
  m1 = m1
  m2 = m2
  m3 = m3
  h1 = h1
  None = None
  Procs = {p1, p2, p3}
  Hashes = {h1}
  Mutexes = {m1, m2, m3}
  SyncOnWrite = TRUE
SPECIFICATION SoundSpec
INVARIANTS
  FTypeOK
  OneUploadPerHash
  ImageMadeOnce
PROPERTIES
  WholeUntilDeleted
  KeepsPromise
SYMMETRY Symm
