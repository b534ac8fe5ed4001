---- MODULE MCFileStore ----
EXTENDS FileStore, TLC
CONSTANTS p1, p2, p3, m1, m2, m3, h1
Symm == Permutations(Procs) \cup Permutations(Mutexes)
====
