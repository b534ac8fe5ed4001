CONSTANTS
  o1 = o1
  o2 = o2
  t1 = t1
  i1 = i1
  i2 = i2
  i3 = i3
  i4 = i4
  i5 = i5
  i6 = i6
  None = None
  Ops = {o1}
  Timers = {t1}
  Addrs = {1}
  MountMayFail = TRUE
  Locks = {1, 2}
  Images = {i1, i2, i3, i4, i5, i6}
  CommandsMayFail = FALSE
SPECIFICATION RSpec
INVARIANT ResizeKeepsFiles
