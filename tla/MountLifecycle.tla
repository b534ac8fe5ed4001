--------------------------- MODULE MountLifecycle ---------------------------
(***************************************************************************)
(* The mount of one loop image in pkg/store/loop: the reference counter,   *)
(* the mount status that late operations wait for, the idle timer and the  *)
(* per-mount-point lock.  Mount points share nothing but Go mutexes, so    *)
(* one mount point is the whole of it.                                     *)
(*                                                                         *)
(* An operation is a goroutine in withMountedLoop, withMountedLoopUnlocked *)
(* or DownloadStream .. streamingReader.Close: the three run the same      *)
(* steps from incrementRefCount to decrementRefCount.  A step is what runs *)
(* between two points where another goroutine can be observed: a sync.Map  *)
(* or atomic call, a mutex section, a command.  (The two loads of          *)
(* getCurrentRefCount are one step.)                                       *)
(***************************************************************************)
EXTENDS Integers, FiniteSets

CONSTANTS
    Ops,            \* goroutines that use the image; one may run many times
    Timers,         \* identities of the timers made by time.AfterFunc (bound)
    Addrs,          \* heap addresses of counters and of mount statuses
    MountMayFail,   \* whether mkdir, mount(8) and umount(8) can fail
    None            \* a nil pointer, an absent map entry, a free lock

Main == "main"      \* the goroutine that runs CASServer.Shutdown
Holders == Ops \cup Timers \cup {Main}

ASSUME DistinctNames ==
    /\ Ops \cap Timers = {}
    /\ Main \notin Ops \cup Timers
    /\ None \notin Holders
    /\ None \notin Addrs

\* One address per operation is enough: whoever allocates points at nothing.
ASSUME EnoughAddrs ==
    IsFiniteSet(Ops) /\ IsFiniteSet(Addrs) /\ Cardinality(Addrs) >= Cardinality(Ops)

ASSUME FailureIsBoolean == MountMayFail \in BOOLEAN

VARIABLES
    pc,             \* pc[o]: the next step of operation o
    ctr,            \* ctr[o]: the counter o has loaded and not yet added to
    result,         \* result[o]: the error value of the mount o relies on
    waiting,        \* waiting[o]: the status object o reads from
    file,           \* file[o]: where the file that o holds open lies
    refCounts,      \* Store.refCounts[mountPoint]: address of the counter
    count,          \* the counters' values
    mountStatuses,  \* Store.mountStatuses[mountPoint]: address of the status
    status,         \* the statuses: channel open, or closed with its error
    mountTimers,    \* Store.mountTimers[mountPoint]
    timer,          \* timer[t]: armed, or the next step of its handler
    mountLock,      \* holder of Store.mountLocks[mountPoint]
    mounts,         \* file systems mounted on the mount point
    shutdown        \* the next step of CASServer.Shutdown

refVars    == <<ctr, refCounts, count>>
statusVars == <<result, waiting, mountStatuses, status>>
timerVars  == <<mountTimers, timer>>
mountVars  == <<mountLock, mounts>>
vars == <<pc, file, refVars, statusVars, timerVars, mountVars, shutdown>>

OpSteps == {"idle", "stopTimer", "load", "add", "announce", "lock", "check",
            "mount", "signal", "status", "blocked", "body", "open",
            "decLoad", "decAdd", "delete", "schedule", "return"}
TimerSteps == {"unused", "armed", "checkCount", "clear", "lock", "unmount"}
ShutdownSteps == {"serving", "refs", "timers", "timersToo", "lock", "unmount", "exit"}

\* The mount lock is typed apart: a resize takes it too (ResizeBlock).
ObjectsOK ==
    /\ pc \in [Ops -> OpSteps]
    /\ ctr \in [Ops -> Addrs \cup {None}]
    /\ result \in [Ops -> {"ok", "err"}]
    /\ waiting \in [Ops -> Addrs \cup {None}]
    /\ file \in [Ops -> {"none", "image", "bare"}]
    /\ refCounts \in Addrs \cup {None}
    /\ count \in [Addrs -> Int]
    /\ mountStatuses \in Addrs \cup {None}
    /\ status \in [Addrs -> {"open", "ok", "err"}]
    /\ mountTimers \in Timers \cup {None}
    /\ timer \in [Timers -> TimerSteps]
    /\ mounts \in Nat
    /\ shutdown \in ShutdownSteps

TypeOK == ObjectsOK /\ mountLock \in Holders \cup {None}

Init ==
    /\ pc = [o \in Ops |-> "idle"]
    /\ ctr = [o \in Ops |-> None]
    /\ result = [o \in Ops |-> "ok"]
    /\ waiting = [o \in Ops |-> None]
    /\ file = [o \in Ops |-> "none"]
    /\ refCounts = None
    /\ count = [a \in Addrs |-> 0]
    /\ mountStatuses = None
    /\ status = [a \in Addrs |-> "open"]
    /\ mountTimers = None
    /\ timer = [t \in Timers |-> "unused"]
    /\ mountLock = None
    /\ mounts = 0
    /\ shutdown = "serving"

-----------------------------------------------------------------------------
(* Helpers.                                                                *)

Step(o, from, to) == pc[o] = from /\ pc' = [pc EXCEPT ![o] = to]

\* Objects nobody points to are garbage: their addresses are free.
FreshCounter == CHOOSE a \in Addrs : \A o \in Ops : ctr[o] # a
FreshStatus == CHOOSE a \in Addrs : \A o \in Ops : waiting[o] # a

\* The operations between incrementRefCount and decrementRefCount.
RefSteps == {"announce", "lock", "check", "mount", "signal", "status", "blocked",
             "body", "open", "decLoad", "decAdd"}
Referencing == {o \in Ops : pc[o] \in RefSteps}

getCurrentRefCount == IF refCounts = None THEN 0 ELSE count[refCounts]

\* Statfs of the mount point and its parent is taken to succeed.
isMounted == mounts > 0

\* umount(8) refuses while a file of the file system is open.
Busy == \E o \in Ops : file[o] = "image"

Acquire(p) == mountLock = None /\ mountLock' = p /\ UNCHANGED mounts
Release(p) == mountLock = p /\ mountLock' = None

\* timer.Stop() ends an armed timer and does nothing to one that has fired.
stopped(t) == IF t # None /\ timer[t] = "armed"
              THEN [timer EXCEPT ![t] = "unused"] ELSE timer

-----------------------------------------------------------------------------
(* incrementRefCount                                                       *)

Begin(o) ==
    /\ shutdown = "serving"
    /\ Step(o, "idle", "stopTimer")
    /\ UNCHANGED <<file, refVars, statusVars, timerVars, mountVars, shutdown>>

stopMountTimer(o) ==
    /\ Step(o, "stopTimer", "load")
    /\ timer' = stopped(mountTimers)
    /\ mountTimers' = None
    /\ UNCHANGED <<file, refVars, statusVars, mountVars, shutdown>>

getOrCreateRefCount(o) ==
    /\ Step(o, "load", "add")
    /\ \/ /\ refCounts # None
          /\ ctr' = [ctr EXCEPT ![o] = refCounts]
          /\ UNCHANGED <<refCounts, count>>
       \/ /\ refCounts = None
          /\ refCounts' = FreshCounter
          /\ ctr' = [ctr EXCEPT ![o] = FreshCounter]
          /\ count' = [count EXCEPT ![FreshCounter] = 0]
    /\ UNCHANGED <<file, statusVars, timerVars, mountVars, shutdown>>

AddRef(o) ==
    /\ Step(o, "add", IF count[ctr[o]] = 0 THEN "announce" ELSE "status")
    /\ count' = [count EXCEPT ![ctr[o]] = @ + 1]
    /\ ctr' = [ctr EXCEPT ![o] = None]
    /\ UNCHANGED <<file, refCounts, statusVars, timerVars, mountVars, shutdown>>

\* The first reference publishes a status, possibly over one still pending.
AnnounceMount(o) ==
    /\ Step(o, "announce", "lock")
    /\ mountStatuses' = FreshStatus
    /\ status' = [status EXCEPT ![FreshStatus] = "open"]
    /\ UNCHANGED <<file, refVars, result, waiting, timerVars, mountVars, shutdown>>

-----------------------------------------------------------------------------
(* mountLoopFile, run by the operation that took the first reference       *)

LockMount(o) ==
    /\ Step(o, "lock", "check")
    /\ Acquire(o)
    /\ UNCHANGED <<file, refVars, statusVars, timerVars, shutdown>>

\* Mutant: the early return misses the Unlock.
AlreadyMountedKeepsLock(o) ==
    /\ isMounted
    /\ Step(o, "check", "signal")
    /\ result' = [result EXCEPT ![o] = "ok"]
    /\ UNCHANGED <<file, refVars, waiting, mountStatuses, status, timerVars,
                   mountVars, shutdown>>

AlreadyMounted(o) ==
    /\ isMounted
    /\ Step(o, "check", "signal")
    /\ Release(o)
    /\ result' = [result EXCEPT ![o] = "ok"]
    /\ UNCHANGED <<file, refVars, waiting, mountStatuses, status, timerVars,
                   mounts, shutdown>>

\* Mutant: mounts without asking isMounted.
NotMountedUnchecked(o) ==
    /\ Step(o, "check", "mount")
    /\ UNCHANGED <<file, refVars, statusVars, timerVars, mountVars, shutdown>>

NotMounted(o) ==
    /\ ~isMounted
    /\ Step(o, "check", "mount")
    /\ UNCHANGED <<file, refVars, statusVars, timerVars, mountVars, shutdown>>

\* MkdirAll of the mount point comes before the check.
MkdirFails(o) ==
    /\ MountMayFail
    /\ Step(o, "check", "signal")
    /\ Release(o)
    /\ result' = [result EXCEPT ![o] = "err"]
    /\ UNCHANGED <<file, refVars, waiting, mountStatuses, status, timerVars,
                   mounts, shutdown>>

mountCommand(o) ==
    /\ Step(o, "mount", "signal")
    /\ Release(o)
    /\ \/ mounts' = mounts + 1 /\ result' = [result EXCEPT ![o] = "ok"]
       \/ /\ MountMayFail
          /\ mounts' = mounts /\ result' = [result EXCEPT ![o] = "err"]
    /\ UNCHANGED <<file, refVars, waiting, mountStatuses, status, timerVars, shutdown>>

\* Mutants: the entry stays in the map; a failed mount closes nothing; a failed
\* mount does not give its reference back.
SignalKeepsEntry(o) ==
    /\ Step(o, "signal", IF result[o] = "ok" THEN "body" ELSE "decLoad")
    /\ status' = IF mountStatuses = None THEN status
                 ELSE [status EXCEPT ![mountStatuses] = result[o]]
    /\ UNCHANGED <<file, refVars, result, waiting, mountStatuses, timerVars,
                   mountVars, shutdown>>
SignalOnlySuccess(o) ==
    /\ Step(o, "signal", IF result[o] = "ok" THEN "body" ELSE "decLoad")
    /\ status' = IF mountStatuses = None \/ result[o] = "err" THEN status
                 ELSE [status EXCEPT ![mountStatuses] = result[o]]
    /\ mountStatuses' = None
    /\ UNCHANGED <<file, refVars, result, waiting, timerVars, mountVars, shutdown>>
SignalKeepsReference(o) ==
    /\ Step(o, "signal", IF result[o] = "ok" THEN "body" ELSE "return")
    /\ status' = IF mountStatuses = None THEN status
                 ELSE [status EXCEPT ![mountStatuses] = result[o]]
    /\ mountStatuses' = None
    /\ UNCHANGED <<file, refVars, result, waiting, timerVars, mountVars, shutdown>>

signalMountReady(o) ==
    /\ Step(o, "signal", IF result[o] = "ok" THEN "body" ELSE "decLoad")
    /\ status' = IF mountStatuses = None THEN status
                 ELSE [status EXCEPT ![mountStatuses] = result[o]]
    /\ mountStatuses' = None
    /\ UNCHANGED <<file, refVars, result, waiting, timerVars, mountVars, shutdown>>

-----------------------------------------------------------------------------
(* waitForMountReady, run by the others                                    *)

NoStatus(o) ==
    /\ mountStatuses = None
    /\ Step(o, "status", "body")
    /\ UNCHANGED <<file, refVars, statusVars, timerVars, mountVars, shutdown>>

ReadStatus(o) ==
    /\ mountStatuses # None
    /\ Step(o, "status", "blocked")
    /\ waiting' = [waiting EXCEPT ![o] = mountStatuses]
    /\ UNCHANGED <<file, refVars, result, mountStatuses, status, timerVars,
                   mountVars, shutdown>>

StatusDone(o) ==
    /\ pc[o] = "blocked" /\ status[waiting[o]] # "open"
    /\ Step(o, "blocked", IF status[waiting[o]] = "ok" THEN "body" ELSE "decLoad")
    /\ result' = [result EXCEPT ![o] = status[waiting[o]]]
    /\ waiting' = [waiting EXCEPT ![o] = None]
    /\ UNCHANGED <<file, refVars, mountStatuses, status, timerVars, mountVars, shutdown>>

-----------------------------------------------------------------------------
(* The callback, or the life of a streamingReader: paths under the mount   *)
(* point lead to whatever is mounted there now, an open file stays where   *)
(* it was opened.                                                          *)

OpenFile(o) ==
    /\ Step(o, "body", "open")
    /\ file' = [file EXCEPT ![o] = IF isMounted THEN "image" ELSE "bare"]
    /\ UNCHANGED <<refVars, statusVars, timerVars, mountVars, shutdown>>

CloseFile(o) ==
    /\ Step(o, "open", "decLoad")
    /\ file' = [file EXCEPT ![o] = "none"]
    /\ UNCHANGED <<refVars, statusVars, timerVars, mountVars, shutdown>>

\* os.Stat, os.Remove, syscall.Statfs, or an error: nothing is held open.
UsePath(o) ==
    /\ Step(o, "body", "decLoad")
    /\ UNCHANGED <<file, refVars, statusVars, timerVars, mountVars, shutdown>>

-----------------------------------------------------------------------------
(* decrementRefCount.  mountTTL is never 0 (NewWithOptions), so the last   *)
(* reference always schedules and never unmounts by itself.                *)

LoadRef(o) ==
    /\ Step(o, "decLoad", IF refCounts = None THEN "return" ELSE "decAdd")
    /\ ctr' = [ctr EXCEPT ![o] = refCounts]
    /\ UNCHANGED <<file, refCounts, count, statusVars, timerVars, mountVars, shutdown>>

DropRef(o) ==
    /\ Step(o, "decAdd", IF count[ctr[o]] = 1 THEN "delete" ELSE "return")
    /\ count' = [count EXCEPT ![ctr[o]] = @ - 1]
    /\ ctr' = [ctr EXCEPT ![o] = None]
    /\ UNCHANGED <<file, refCounts, statusVars, timerVars, mountVars, shutdown>>

DeleteCounter(o) ==
    /\ Step(o, "delete", "schedule")
    /\ refCounts' = None
    /\ UNCHANGED <<file, ctr, count, statusVars, timerVars, mountVars, shutdown>>

scheduleUnmount(o) ==
    /\ Step(o, "schedule", "return")
    /\ \E t \in Timers :
         /\ stopped(mountTimers)[t] = "unused"
         /\ timer' = [stopped(mountTimers) EXCEPT ![t] = "armed"]
         /\ mountTimers' = t
    /\ UNCHANGED <<file, refVars, statusVars, mountVars, shutdown>>

Return(o) ==
    /\ Step(o, "return", "idle")
    /\ result' = [result EXCEPT ![o] = "ok"]
    /\ UNCHANGED <<file, refVars, waiting, mountStatuses, status, timerVars,
                   mountVars, shutdown>>

-----------------------------------------------------------------------------
(* handleMountTimeout, the goroutine of a timer that fired                 *)

TimerStep(t, from, to) == timer[t] = from /\ timer' = [timer EXCEPT ![t] = to]

Fire(t) ==
    /\ TimerStep(t, "armed", "checkCount")
    /\ UNCHANGED <<pc, file, refVars, statusVars, mountTimers, mountVars, shutdown>>

\* Mutant: the handler does not look at the counter.
checkNothing(t) ==
    /\ TimerStep(t, "checkCount", "clear")
    /\ UNCHANGED <<pc, file, refVars, statusVars, mountTimers, mountVars, shutdown>>

checkRefCount(t) ==
    /\ TimerStep(t, "checkCount", IF getCurrentRefCount > 0 THEN "unused" ELSE "clear")
    /\ UNCHANGED <<pc, file, refVars, statusVars, mountTimers, mountVars, shutdown>>

\* delete(s.mountTimers, mountPoint), whichever timer the entry now names
clearTimerEntry(t) ==
    /\ TimerStep(t, "clear", "lock")
    /\ mountTimers' = None
    /\ UNCHANGED <<pc, file, refVars, statusVars, mountVars, shutdown>>

timerLock(t) ==
    /\ TimerStep(t, "lock", "unmount")
    /\ Acquire(t)
    /\ UNCHANGED <<pc, file, refVars, statusVars, mountTimers, shutdown>>

\* Mutant: unmounts without asking isMounted.
umountUnchecked(p) ==
    /\ Release(p)
    /\ \/ ~Busy /\ mounts' = mounts - 1
       \/ (Busy \/ MountMayFail) /\ UNCHANGED mounts

\* What unmountMountPoint does once it holds the lock.
umount(p) ==
    /\ Release(p)
    /\ \/ isMounted /\ ~Busy /\ mounts' = mounts - 1
       \/ (~isMounted \/ Busy \/ MountMayFail) /\ UNCHANGED mounts

timerUnmount(t) ==
    /\ TimerStep(t, "unmount", "unused")
    /\ umount(t)
    /\ UNCHANGED <<pc, file, refVars, statusVars, mountTimers, shutdown>>

-----------------------------------------------------------------------------
(* CASServer.Shutdown: no request is accepted any more, echo has drained   *)
(* the running ones (a drain that times out skips the rest), then          *)
(* UnmountAll.                                                             *)

ShutdownStep(from, to) == shutdown = from /\ shutdown' = to

Drained ==
    /\ ShutdownStep("serving", "refs")
    /\ \A o \in Ops : pc[o] = "idle"
    /\ UNCHANGED <<pc, file, refVars, statusVars, timerVars, mountVars>>

collectRefs ==
    /\ ShutdownStep("refs", IF getCurrentRefCount > 0 THEN "timersToo" ELSE "timers")
    /\ refCounts' = None
    /\ UNCHANGED <<pc, file, ctr, count, statusVars, timerVars, mountVars>>

\* The mount point is unmounted if either map listed it.
collectTimers ==
    /\ shutdown \in {"timers", "timersToo"}
    /\ shutdown' = IF shutdown = "timersToo" \/ mountTimers # None
                   THEN "lock" ELSE "exit"
    /\ timer' = stopped(mountTimers)
    /\ mountTimers' = None
    /\ UNCHANGED <<pc, file, refVars, statusVars, mountVars>>

shutdownLock ==
    /\ ShutdownStep("lock", "unmount")
    /\ Acquire(Main)
    /\ UNCHANGED <<pc, file, refVars, statusVars, timerVars>>

shutdownUnmount ==
    /\ ShutdownStep("unmount", "exit")
    /\ umount(Main)
    /\ UNCHANGED <<pc, file, refVars, statusVars, timerVars>>

-----------------------------------------------------------------------------

Increment(o) == Begin(o) \/ stopMountTimer(o) \/ getOrCreateRefCount(o)
                \/ AddRef(o) \/ AnnounceMount(o)
mountLoopFile(o) == LockMount(o) \/ MkdirFails(o) \/ AlreadyMounted(o)
                    \/ NotMounted(o) \/ mountCommand(o) \/ signalMountReady(o)
waitForMountReady(o) == NoStatus(o) \/ ReadStatus(o) \/ StatusDone(o)
Callback(o) == OpenFile(o) \/ CloseFile(o) \/ UsePath(o)
Decrement(o) == LoadRef(o) \/ DropRef(o) \/ DeleteCounter(o)
                \/ scheduleUnmount(o) \/ Return(o)
Operation(o) == Increment(o) \/ mountLoopFile(o) \/ waitForMountReady(o)
                \/ Callback(o) \/ Decrement(o)
handleMountTimeout(t) == Fire(t) \/ checkRefCount(t) \/ clearTimerEntry(t)
                         \/ timerLock(t) \/ timerUnmount(t)
\* The process is gone.
Exited == shutdown = "exit" /\ UNCHANGED vars

UnmountAll == Drained \/ collectRefs \/ collectTimers \/ shutdownLock
              \/ shutdownUnmount

Next == \/ \E o \in Ops : Operation(o)
        \/ \E t \in Timers : handleMountTimeout(t)
        \/ UnmountAll
        \/ Exited

Spec == Init /\ [][Next]_vars

\* The Go scheduler runs every runnable goroutine, a started command ends, a
\* client ends its transfer and an armed timer that nobody stops fires.  A
\* sync.Mutex in starvation mode is handed to its waiter: strong fairness.
\* Nothing makes a request or the signal to shut down come.
FairSpec ==
    /\ Spec
    /\ \A o \in Ops : WF_vars(Operation(o) /\ ~Begin(o)) /\ SF_vars(LockMount(o))
    /\ \A t \in Timers : WF_vars(handleMountTimeout(t)) /\ SF_vars(timerLock(t))
    /\ WF_vars(UnmountAll /\ ~Drained) /\ SF_vars(shutdownLock)

-----------------------------------------------------------------------------
(* Properties                                                              *)

\* isMounted and the mount command run under the mount lock, so the image is
\* never mounted on top of itself ("ensure one mount per loop file",
\* loop.go:205): operations, timers and the shutdown exclude each other.
SingleMount == mounts <= 1

\* When the last operation has returned, no status is left behind that a later
\* operation would wait on for ever: every published status is closed or
\* overwritten, and the last announcer's signal clears the map.
IdleLeavesNoStatus == (\A o \in Ops : pc[o] = "idle") => mountStatuses = None

\* "Uses reference counting to prevent premature unmounting when multiple
\* operations are concurrent" (loop.go:671): a callback runs on the mounted
\* image.
NoPrematureUnmount == \A o \in Ops : pc[o] \in {"body", "open"} => isMounted

\* A fired idle timer always gets through the mount lock and ends: no order of
\* mounts, busy unmounts and shutdown leaves the lock taken.
HandlerFinishes ==
    \A t \in Timers : timer[t] = "checkCount" ~> timer[t] = "unused"

\* Once the requests are drained, UnmountAll returns, even against idle-timer
\* handlers that have fired and want the mount lock too.
ShutdownCompletes == shutdown = "refs" ~> shutdown = "exit"
=============================================================================
