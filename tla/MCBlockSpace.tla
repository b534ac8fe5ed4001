---- MODULE MCBlockSpace ----
EXTENDS BlockSpace, TLC
CONSTANTS p1, p2, p3
Symm == Permutations(Procs)
\* A large image gets a larger journal.
MCOverhead(s) == IF s < 12 THEN 1 ELSE 6
====
