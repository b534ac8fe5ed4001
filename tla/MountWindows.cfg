CONSTANTS
  o1 = o1
  o2 = o2
  o3 = o3
  t1 = t1
  t2 = t2
  None = None
  Ops = {o1, o2, o3}
  Timers = {t1, t2}
  Addrs = {1, 2, 3}
  MountMayFail = TRUE
SPECIFICATION WSpec
INVARIANTS
  UnmountedOnlyThroughAWindow
  CountIsExact
  WaiterHasMounter
SYMMETRY Symm
CONSTRAINT Explored
