---- MODULE MCMountWindows ----
EXTENDS MountWindows, TLC
CONSTANTS o1, o2, o3, t1, t2
Symm == Permutations(Ops) \cup Permutations(Timers)
Explored == "CounterLost" \notin windows
====
