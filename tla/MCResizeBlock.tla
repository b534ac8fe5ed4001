---- MODULE MCResizeBlock ----
EXTENDS ResizeBlock, TLC
CONSTANTS o1, o2, t1, i1, i2, i3, i4, i5, i6

(* Addresses and inodes matter only by who points at them, and those nobody *)
(* points at not at all: states that differ by their names are one state.   *)
Counters == {<<a = refCounts, {o \in Ops : ctr[o] = a}, count[a]>> :
                a \in ({refCounts} \cup {ctr[o] : o \in Ops}) \ {None}}
Statuses == {<<a = mountStatuses, {o \in Ops : waiting[o] = a}, status[a]>> :
                a \in ({mountStatuses} \cup {waiting[o] : o \in Ops}) \ {None}}
RWMutexes == {<<l = resizeLock, {p \in DOMAIN lockRef : lockRef[p] = l}>> : l \in Locks}
Inodes == {<<i = image, i = newImage, i = backup, i = source, i \in newMounts, files[i]>> :
              i \in {image, newImage, backup, source} \ {None}}
Leftovers == newMounts \ {newImage}
LiveState ==
    <<pc, file, Counters, result, Statuses, timerVars, mountVars, shutdown,
      RWMutexes, step, Inodes, Cardinality(Leftovers), files[Bare], stored>>
====
