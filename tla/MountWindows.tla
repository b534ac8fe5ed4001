---------------------------- MODULE MountWindows ----------------------------
(***************************************************************************)
(* MountLifecycle observed: a history variable collects the race windows   *)
(* of the reference counter that an execution has gone through.  The       *)
(* properties say that outside these windows the protocol does what its    *)
(* comments claim, so that the four windows are the complete list of what  *)
(* has to be closed.                                                       *)
(***************************************************************************)
EXTENDS MountLifecycle

VARIABLE windows    \* the windows hit so far

\* decrementRefCount deletes a map entry that is in use: between its Add(-1)
\* and its Delete another goroutine has loaded or raised that counter.
CounterLost ==
    \E o \in Ops :
        /\ pc[o] = "delete" /\ pc'[o] = "schedule" /\ refCounts # None
        /\ count[refCounts] # 0 \/ \E p \in Ops : ctr[p] = refCounts

\* A reference is taken while a timer handler that has already found the
\* counter at zero is still on its way to the unmount.
UnmountOnItsWay ==
    \E o \in Ops, t \in Timers :
        /\ pc[o] = "add" /\ pc'[o] # "add"
        /\ timer[t] \in {"clear", "lock", "unmount"}

\* A later reference looks for the status before the first one publishes it.
StatusNotYetThere ==
    \E o, p \in Ops :
        pc[o] = "status" /\ pc'[o] = "body" /\ pc[p] = "announce"

\* ... or after a failed mount has withdrawn it: counted on the reference of
\* an operation that failed, or will, and has not given it back yet.
FailureForgotten ==
    \E o, p \in Ops :
        /\ pc'[o] = "status" /\ mountStatuses' = None
        /\ \/ pc'[p] \in {"decLoad", "decAdd"} /\ result'[p] = "err"
           \/ pc'[p] = "blocked" /\ status'[waiting'[p]] = "err"

Hit == (IF CounterLost THEN {"CounterLost"} ELSE {})
       \cup (IF UnmountOnItsWay THEN {"UnmountOnItsWay"} ELSE {})
       \cup (IF StatusNotYetThere THEN {"StatusNotYetThere"} ELSE {})
       \cup (IF FailureForgotten THEN {"FailureForgotten"} ELSE {})

WInit == Init /\ windows = {}
WNext == Next /\ windows' = windows \cup Hit
WSpec == WInit /\ [][WNext]_<<vars, windows>>

-----------------------------------------------------------------------------

\* A callback runs on the mounted image unless one of the four windows was
\* hit: no other interleaving of operations, idle timers and failing mounts
\* takes the image away from withMountedLoop's callback.
UnmountedOnlyThroughAWindow ==
    windows = {} => \A o \in Ops : pc[o] \in {"body", "open"} => isMounted

\* As long as no counter is lost, the counter in the map is exactly the number
\* of operations between incrementRefCount and decrementRefCount.
CountIsExact ==
    "CounterLost" \notin windows => getCurrentRefCount = Cardinality(Referencing)

\* As long as no counter is lost, whoever waits on a pending status has a
\* goroutine at work that will close that very status.
WaiterHasMounter ==
    "CounterLost" \notin windows =>
        \A o \in Ops : pc[o] = "blocked" /\ status[waiting[o]] = "open" =>
            /\ mountStatuses = waiting[o]
            /\ \E p \in Ops : pc[p] \in {"lock", "check", "mount", "signal"}
=============================================================================
