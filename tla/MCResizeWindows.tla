---- MODULE MCResizeWindows ----
EXTENDS ResizeWindows, MCResizeBlock, FiniteSets
Symm == Permutations(Ops)
(* After an incident only the way of one operation and a second resize to the *)
(* wait for quiescence is explored; what an earlier resize has left of its new *)
(* image meets one operation at a time, and at most once more.                *)
OneAtWork == Cardinality({o \in Ops : pc[o] # "idle" \/ lockRef[o] # None} \cup stored) <= 1
Early == {"idle", "lookup", "writeLock", "quiesce", "parking", "asleep", "lockOld",
          "mountOld", "create"}
Untidy == Leftovers # {} \/ (newImage # None /\ step \in Early)
Explored ==
    /\ Cardinality(Leftovers) <= 1
    /\ Untidy => OneAtWork
    /\ incidents # {} => OneAtWork /\ step \in
           {"lockDefer", "unmountDefer", "removeNew", "unlock", "idle",
            "lookup", "writeLock", "quiesce", "parking", "asleep"}
Observed == <<LiveState, incidents>>
====
