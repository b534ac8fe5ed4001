---- MODULE MCMountLifecycle ----
EXTENDS MountLifecycle, TLC
CONSTANTS o1, o2, o3, t1, t2
Symm == Permutations(Ops)
====
