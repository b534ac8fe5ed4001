CONSTANTS
  o1 = o1
  o2 = o2
  o3 = o3
  t1 = t1
  t2 = t2
  None = None
  Ops = {o1}
  Timers = {t1}
  Addrs = {1}
  MountMayFail = FALSE
SPECIFICATION Spec
INVARIANT NoPrematureUnmount
