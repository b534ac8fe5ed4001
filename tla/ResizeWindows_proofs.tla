-------------------------- MODULE ResizeWindows_proofs --------------------------
(***************************************************************************)
(* The three incidents of ResizeWindows are the complete list, for any     *)
(* number of operations, timers, locks and images, and with a crash at     *)
(* every step.  The proof goes in three layers, each on the one before:    *)
(* the mount protocol keeps its invariants with the resize as one more     *)
(* holder of the mount lock; until an incident whoever has a resize lock   *)
(* has the one in the map, so a resize runs alone; and a resize that runs  *)
(* alone has at every step a name under which all stored files are found.  *)
(***************************************************************************)
EXTENDS ResizeWindows, MountLifecycle_proofs

\* What MountLifecycle keeps, with the resize in the mount lock as well, in a
\* process that nobody shuts down.
ProtocolInv == TypeInv /\ SafeInv /\ CountBound /\ shutdown = "serving"

LocksOK ==
    /\ mountLock \in Holders \cup {Resizer, None}
    /\ resizeLock \in Locks \cup {None}
    /\ lockRef \in [Ops \cup {Resizer} -> Locks \cup {None}]
    /\ step \in ResizeSteps

DiskOK ==
    /\ {image, newImage, backup, source} \subseteq Images \cup {None}
    /\ newMounts \subseteq Images
    /\ files \in [Images \cup {Bare} -> SUBSET Ops]
    /\ stored \subseteq Ops

\* Nobody works without a resize lock, and the resize unmounts and mounts only
\* inside the mount lock.
HeldInv ==
    /\ \A o \in Ops : pc[o] # "idle" => lockRef[o] # None
    /\ lockRef[Resizer] = None <=> step \in {"idle", "lookup"}
    /\ step \in {"mountOld", "unmountOld", "unmountDefer"} => mountLock = Resizer

\* What is mounted has a source, and keeps it while a file is open on it.
SourceInv ==
    /\ isMounted => source # None
    /\ \A o \in Ops : file[o] = "image" => isMounted

\* What is, or is still, mounted on mountPoint.new has no name that a stored file
\* is looked for under: mkfs and RemoveAll meet neither the image nor its backup.
ScratchInv ==
    /\ newImage # None => newImage \notin {image, backup}
    /\ image \notin newMounts /\ backup \notin newMounts
    /\ step \in {"lockUnmount", "unmountOld", "backup", "replace"} =>
           newImage \notin newMounts

AnyTimeInv == ProtocolInv /\ LocksOK /\ HeldInv /\ DiskOK /\ SourceInv /\ ScratchInv

\* The way out, where the entry of the lock may be gone.
Tail == {"lockDefer", "unmountDefer", "removeNew", "unlock"}

\* Until an incident: one lock for all, so that a resize runs alone ...
SharedInv ==
    /\ \A o \in Ops : lockRef[o] # None => lockRef[o] = resizeLock
    /\ lockRef[Resizer] # None => lockRef[Resizer] = resizeLock \/ step \in Tail
    /\ Writing(resizeLock) => \A o \in Ops : pc[o] = "idle"
    /\ step \notin {"parking", "asleep"}

\* ... the mount shows the image, whose name is free only between the renames ...
MountedInv ==
    /\ isMounted => source = image
    /\ ImageIsGone <=> step = "replace"
    /\ step \in {"create", "rsync"} => isMounted
    /\ step \in {"backup", "replace"} => ~isMounted

\* ... and the copy is complete before the image loses its name.
CopyInv ==
    /\ step \in {"rsync", "unmountNew", "lockUnmount", "unmountOld", "backup", "replace"}
           => newImage # None
    /\ step \in {"unmountNew", "lockUnmount", "unmountOld", "backup", "replace"}
           => stored \subseteq files[newImage]
    /\ step = "replace" => backup # None /\ stored \subseteq files[backup]
    /\ ImageIsGone \/ stored \subseteq files[image]

SafeUntilIncident == incidents = {} => SharedInv /\ MountedInv /\ CopyInv

-----------------------------------------------------------------------------
(* What the steps are to the mount protocol.                               *)

\* An operation with the read lock held takes its steps.
Underway(o) == MountProtocol(o) \/ MountSource(o) \/ Write(o) \/ LastRefGone(o) \/ EndOp(o)

LEMMA UnderwayStep ==
    ASSUME TypeInv, NEW o \in Ops, Underway(o)
    PROVE  /\ Operation(o) /\ pc[o] # "idle"
           /\ UNCHANGED resizeLock
           /\ \/ lockRef' = lockRef /\ pc'[o] # "idle"
              \/ lockRef' = [lockRef EXCEPT ![o] = None] /\ pc'[o] = "idle"
           /\ \A p \in Ops \ {o} : pc'[p] = pc[p]
           /\ step # "asleep" => step' = step
           /\ step' \in {step, "quiesce"}
<1> USE DEF Step, TypeInv, ObjectsOK
<1>1. CASE MountProtocol(o)
  <2>1. Operation(o)
    BY <1>1 DEF MountProtocol, Operation, Increment, mountLoopFile, waitForMountReady,
       Callback, Decrement
  <2>2. pc[o] # "idle" /\ pc'[o] # "idle" /\ \A p \in Ops \ {o} : pc'[p] = pc[p]
    <3>1. CASE \/ stopMountTimer(o) \/ getOrCreateRefCount(o) \/ AddRef(o)
               \/ AnnounceMount(o) \/ LockMount(o) \/ MkdirFails(o) \/ AlreadyMounted(o)
      BY <3>1 DEF stopMountTimer, getOrCreateRefCount, AddRef, AnnounceMount, LockMount,
         MkdirFails, AlreadyMounted
    <3>2. CASE NotMounted(o) \/ signalMountReady(o) \/ waitForMountReady(o)
      BY <3>2 DEF NotMounted, signalMountReady, waitForMountReady, NoStatus, ReadStatus,
         StatusDone
    <3>3. CASE \/ OpenFile(o) \/ UsePath(o) \/ LoadRef(o) \/ DropRef(o)
               \/ scheduleUnmount(o)
      BY <3>3 DEF OpenFile, UsePath, LoadRef, DropRef, scheduleUnmount
    <3>4. QED
      BY <1>1, <3>1, <3>2, <3>3 DEF MountProtocol
  <2>3. UNCHANGED <<resizeLock, lockRef, step>>
    BY <1>1 DEF MountProtocol, resizeVars, lockVars
  <2>4. QED
    BY <2>1, <2>2, <2>3
<1>2. CASE MountSource(o)
  BY <1>2 DEF MountSource, mountCommand, Operation, mountLoopFile, lockVars
<1>3. CASE Write(o)
  BY <1>3 DEF Write, CloseFile, Operation, Callback, lockVars
<1>4. CASE LastRefGone(o)
  BY <1>4 DEF LastRefGone, DeleteCounter, Operation, Decrement, lockVars
<1>5. CASE EndOp(o)
  BY <1>5 DEF EndOp, Return, Operation, Decrement
<1>6. QED
  BY <1>1, <1>2, <1>3, <1>4, <1>5 DEF Underway

LEMMA StartStep ==
    ASSUME TypeInv, NEW o \in Ops, StartOp(o) \/ CreateImage(o)
    PROVE  /\ Operation(o) /\ MayRead(o)
           /\ pc'[o] # "idle" /\ \A p \in Ops \ {o} : pc'[p] = pc[p]
           /\ UNCHANGED <<lockVars, step, file, mountVars>>
BY DEF StartOp, CreateImage, Begin, Step, Operation, Increment, resizeVars, mountVars,
       TypeInv, ObjectsOK

LEMMA OpActions ==
    ASSUME NEW o \in Ops, OpAction(o)
    PROVE  LookUp(o) \/ StartOp(o) \/ CreateImage(o) \/ NotFound(o) \/ Underway(o)
BY DEF OpAction, Underway

\* The resize in the mount lock: the only steps of a resize that MountLifecycle
\* does not take itself.
AtMountLock == EnterMountLock \/ mountForResize \/ unmountForResize

Elsewhere ==
    \/ validateAndPrepareResize \/ LookUpForResize \/ WriteLock
    \/ waitForQuiescence \/ createNewLoopFile \/ syncDataBetweenLoops \/ unmountNew
    \/ renameToBackup \/ renameNew \/ removeBackup \/ unmountNewAgain
    \/ cleanupResizeLock \/ removeNew \/ Unlock

LEMMA ResizeActions == ResizeAction => AtMountLock \/ Elsewhere
BY DEF ResizeAction, AtMountLock, Elsewhere

LEMMA ElsewhereStep == Elsewhere => UNCHANGED vars
BY DEF Elsewhere, validateAndPrepareResize, LookUpForResize, WriteLock,
       waitForQuiescence, createNewLoopFile, syncDataBetweenLoops, unmountNew,
       renameToBackup, renameNew, removeBackup, unmountNewAgain, cleanupResizeLock,
       removeNew, Unlock

LEMMA AtMountLockStep ==
    ASSUME AtMountLock
    PROVE  /\ UNCHANGED <<pc, file, refVars, statusVars, timerVars, shutdown>>
           /\ UNCHANGED <<lockVars, image, newImage, backup, newMounts, files, stored>>
BY DEF AtMountLock, EnterMountLock, mountForResize, unmountForResize, diskVars

-----------------------------------------------------------------------------
(* The mount protocol.                                                     *)

LEMMA ProtocolFrame ==
    ASSUME ProtocolInv,
           \/ \E o \in Ops : Operation(o)
           \/ \E t \in Timers : handleMountTimeout(t)
           \/ UNCHANGED vars
    PROVE  ProtocolInv'
<1>1. TypeInv' /\ SafeInv'
  BY NextTypeInv, NextSafeInv DEF ProtocolInv, Next
<1>2. CountBound'
  BY BoundOperation, BoundOutside DEF ProtocolInv
<1>3. shutdown' = shutdown
  <2>1. ASSUME NEW t \in Timers, handleMountTimeout(t) PROVE shutdown' = shutdown
    BY <2>1 DEF handleMountTimeout, Fire, checkRefCount, clearTimerEntry, timerLock,
       timerUnmount
  <2>2. QED
    BY <2>1, OperationMoves DEF ProtocolInv, vars
<1>4. QED
  BY <1>1, <1>2, <1>3 DEF ProtocolInv

\* The resize takes the mount lock free and gives it back: it mounts only what
\* it has found unmounted, inside one section.
LEMMA ProtocolAtMountLock ==
    ASSUME ProtocolInv, HeldInv, AtMountLock
    PROVE  ProtocolInv'
<1>1. UNCHANGED <<pc, file, refVars, statusVars, timerVars, shutdown>>
  BY AtMountLockStep
<1>2. CountBound'
  <2>1. UNCHANGED refVars /\ Referencing' = Referencing
    BY <1>1 DEF Referencing
  <2>2. QED
    BY <1>1, <2>1, BoundFrame DEF ProtocolInv
<1>3. /\ mounts' \in Nat /\ mounts' <= 1
      /\ (\A o \in Ops : pc[o] # "mount") \/ mounts' = mounts
  <2> USE DEF ProtocolInv, TypeInv, ObjectsOK, SafeInv, MountInv
  <2>1. CASE EnterMountLock
    BY <2>1 DEF EnterMountLock, Acquire
  <2>2. CASE mountForResize
    BY <2>2, ResizeNames DEF mountForResize, Release, isMounted, LockInv, Holders
  <2>3. CASE unmountForResize
    BY <2>3, ResizeNames DEF unmountForResize, umount, Release, isMounted, LockInv, Holders
  <2>4. QED
    BY <2>1, <2>2, <2>3 DEF AtMountLock
<1>4. TypeInv'
  BY <1>1, <1>3 DEF ProtocolInv, TypeInv, ObjectsOK, PointerInv, refVars, statusVars, timerVars
<1>5. LockInv'
  <2>1. mountLock \in {Resizer, None}
    BY DEF AtMountLock, EnterMountLock, mountForResize, unmountForResize, umount,
       Acquire, Release
  <2>2. /\ \A o \in Ops : pc[o] \notin {"check", "mount"}
        /\ \A t \in Timers : timer[t] # "unmount"
        /\ shutdown # "unmount"
    BY <2>1, ResizeNames, DistinctNames DEF ProtocolInv, SafeInv, LockInv, Holders
  <2>3. QED
    BY <1>1, <2>2 DEF LockInv, timerVars
<1>6. MountInv'
  BY <1>1, <1>3 DEF ProtocolInv, SafeInv, MountInv
<1>7. QED
  BY <1>1, <1>2, <1>4, <1>5, <1>6 DEF ProtocolInv, SafeInv

\* Nothing of the process survives; the file system is mounted at most once.
LEMMA ProtocolRestart ==
    ASSUME ProtocolInv, Restart
    PROVE  ProtocolInv'
<1>1. TypeInv'
  BY DEF ProtocolInv, TypeInv, ObjectsOK, PointerInv, Restart, OpSteps, TimerSteps
<1>2. SafeInv'
  <2>1. UNCHANGED <<shutdown, mounts>>
    BY DEF Restart
  <2>2. QED
    BY <2>1 DEF ProtocolInv, SafeInv, LockInv, MountInv, Restart
<1>3. CountBound'
  <2>1. getCurrentRefCount' = 0
    BY DEF Restart, getCurrentRefCount
  <2>2. QED
    BY <2>1, CountedFinite DEF CountBound
<1>4. QED
  BY <1>1, <1>2, <1>3 DEF ProtocolInv, Restart

\* A step is one of the mount protocol, one of the resize in the mount lock, or
\* the crash.
LEMMA VarsSteps ==
    ASSUME TypeInv, RNext \/ UNCHANGED allVars
    PROVE  \/ AtMountLock
           \/ \E o \in Ops : Operation(o)
           \/ \E t \in Timers : handleMountTimeout(t)
           \/ UNCHANGED vars
<1>1. ASSUME NEW o \in Ops, OpAction(o) PROVE Operation(o) \/ UNCHANGED vars
  BY <1>1, OpActions, UnderwayStep, StartStep DEF LookUp, NotFound
<1>2. ASSUME NEW t \in Timers, IdleTimer(t) PROVE handleMountTimeout(t)
  BY <1>2 DEF IdleTimer
<1>3. QED
  BY <1>1, <1>2, ResizeActions, ElsewhereStep DEF RNext, allVars

LEMMA ProtocolStep ==
    ASSUME ProtocolInv, HeldInv, RNext \/ Restart \/ UNCHANGED allVars
    PROVE  ProtocolInv'
<1>1. TypeInv
  BY DEF ProtocolInv
<1>2. QED
  BY <1>1, VarsSteps, ProtocolFrame, ProtocolAtMountLock, ProtocolRestart

-----------------------------------------------------------------------------
(* The locks.                                                              *)

LEMMA FreshLockFree ==
    ASSUME LocksOK, NEW p \in Ops \cup {Resizer}, lockRef[p] = None
    PROVE  FreshLock \in Locks /\ \A q \in Ops \cup {Resizer} : lockRef[q] # FreshLock
<1> DEFINE Users == Ops \cup {Resizer}
<1>1. IsFiniteSet(Users) /\ Cardinality(Users) <= Cardinality(Locks)
  <2>1. Resizer \notin Ops
    BY ResizeNames DEF Holders
  <2>2. IsFiniteSet(Users) /\ Cardinality(Users) = Cardinality(Ops) + 1
    BY <2>1, EnoughAddrs, FS_AddElement
  <2>3. QED
    BY <2>2, EnoughLocks, EnoughAddrs, FS_CardinalityType
<1>2. DOMAIN lockRef = Users
  BY DEF LocksOK
<1>3. \E l \in Locks : \A q \in Users : lockRef[q] # l
  <2> HIDE DEF Users
  <2>1. p \in Users
    BY DEF Users
  <2>2. QED
    BY <1>1, <2>1, EnoughLocks, ResizeNames, FreeObject
<1>4. QED
  BY <1>2, <1>3 DEF FreshLock

\* Looking the lock up gives p the lock in the map, put there if there was none.
LEMMA LookedUp ==
    ASSUME LocksOK, NEW p \in Ops \cup {Resizer}, getResizeLock(p)
    PROVE  /\ resizeLock' \in Locks /\ lockRef[p] = None
           /\ lockRef' = [lockRef EXCEPT ![p] = resizeLock']
           /\ resizeLock # None => resizeLock' = resizeLock
           /\ resizeLock = None =>
                  \A q \in Ops \cup {Resizer} : lockRef[q] # resizeLock'
BY FreshLockFree DEF getResizeLock, LocksOK

\* The resize holds the mount lock inside its sections, whatever the others do.
LEMMA MountLockStep ==
    ASSUME ProtocolInv, LocksOK, HeldInv, RNext \/ Restart \/ UNCHANGED allVars
    PROVE  /\ mountLock' \in Holders \cup {Resizer, None}
           /\ ~AtMountLock /\ ~Restart /\ mountLock = Resizer => mountLock' = Resizer
<1>1. CASE AtMountLock
  BY <1>1 DEF AtMountLock, EnterMountLock, mountForResize, unmountForResize, umount,
     Acquire, Release
<1>2. CASE Restart
  BY <1>2 DEF Restart
<1>3. CASE (RNext \/ UNCHANGED allVars) /\ ~AtMountLock
  <2>1. [Next]_vars
    BY <1>3, VarsSteps DEF ProtocolInv, Next
  <2>2. QED
    BY <1>3, <2>1, LockMoves, ResizeNames DEF LockKept, LocksOK
<1>4. QED
  BY <1>1, <1>2, <1>3

LEMMA LocksStep ==
    ASSUME ProtocolInv, LocksOK, HeldInv, RNext \/ Restart \/ UNCHANGED allVars
    PROVE  LocksOK'
<1>1. UNCHANGED <<resizeLock, lockRef, step>> => LocksOK'
  BY MountLockStep DEF LocksOK
<1>2. ASSUME NEW o \in Ops, OpAction(o) PROVE LocksOK'
  <2>1. CASE LookUp(o)
    BY <2>1, LookedUp, MountLockStep DEF LookUp, LocksOK
  <2>2. CASE NotFound(o)
    BY <2>2, MountLockStep DEF NotFound, LocksOK
  <2>3. CASE StartOp(o) \/ CreateImage(o)
    BY <1>1, <2>3, StartStep DEF ProtocolInv, lockVars
  <2>4. CASE Underway(o)
    BY <2>4, UnderwayStep, MountLockStep DEF ProtocolInv, LocksOK, ResizeSteps
  <2>5. QED
    BY <1>2, <2>1, <2>2, <2>3, <2>4, OpActions
<1>3. CASE ResizeAction
  <2> USE MountLockStep DEF LocksOK, ResizeSteps, Goto, Fail, lockVars, diskVars
  <2>1. CASE LookUpForResize
    BY <2>1, LookedUp DEF LookUpForResize
  <2>2. CASE AtMountLock
    BY <2>2 DEF AtMountLock, EnterMountLock, mountForResize, unmountForResize
  <2>3. CASE \/ validateAndPrepareResize \/ WriteLock \/ waitForQuiescence
             \/ createNewLoopFile \/ syncDataBetweenLoops \/ unmountNew
    BY <2>3 DEF validateAndPrepareResize, WriteLock, waitForQuiescence, createNewLoopFile,
       syncDataBetweenLoops, unmountNew
  <2>4. CASE \/ renameToBackup \/ renameNew \/ removeBackup \/ unmountNewAgain
             \/ cleanupResizeLock \/ removeNew \/ Unlock
    BY <2>4 DEF renameToBackup, renameNew, removeBackup, unmountNewAgain,
       cleanupResizeLock, removeNew, Unlock
  <2>5. QED
    BY <1>3, <2>1, <2>2, <2>3, <2>4, ResizeActions DEF Elsewhere
<1>4. CASE Restart
  BY <1>4, MountLockStep DEF Restart, LocksOK, ResizeSteps
<1>5. ASSUME NEW t \in Timers, IdleTimer(t) PROVE LocksOK'
  BY <1>1, <1>5 DEF IdleTimer, lockVars
<1>6. QED
  BY <1>1, <1>2, <1>3, <1>4, <1>5 DEF RNext, allVars, resizeVars, lockVars

LEMMA HeldStep ==
    ASSUME ProtocolInv, LocksOK, HeldInv, RNext \/ Restart \/ UNCHANGED allVars
    PROVE  HeldInv'
<1>1. Resizer \notin Ops
  BY ResizeNames DEF Holders
<1>2. CASE Restart
  BY <1>2 DEF Restart, HeldInv
<1>3. CASE AtMountLock
  <2>1. UNCHANGED <<pc, lockRef>>
    BY <1>3, AtMountLockStep DEF lockVars
  <2>2. /\ step \notin {"idle", "lookup"} /\ step' \notin {"idle", "lookup"}
        /\ step' \in {"mountOld", "unmountOld", "unmountDefer"} => mountLock' = Resizer
    BY <1>3 DEF AtMountLock, EnterMountLock, mountForResize, unmountForResize, Goto, Acquire
  <2>3. QED
    BY <2>1, <2>2 DEF HeldInv
<1>4. CASE ~AtMountLock /\ ~Restart
  <2>1. mountLock = Resizer => mountLock' = Resizer
    BY <1>4, MountLockStep
  <2>2. UNCHANGED <<pc, lockRef, step>> => HeldInv'
    BY <2>1 DEF HeldInv
  <2>3. ASSUME NEW o \in Ops, OpAction(o) PROVE HeldInv'
    <3>1. CASE LookUp(o)
      BY <1>1, <2>1, <3>1, LookedUp, ResizeNames DEF LookUp, LocksOK, HeldInv, vars
    <3>2. CASE NotFound(o)
      BY <1>1, <2>1, <3>2 DEF NotFound, MayRead, LocksOK, HeldInv, vars
    <3>3. CASE StartOp(o) \/ CreateImage(o)
      BY <2>1, <3>3, StartStep DEF ProtocolInv, lockVars, MayRead, HeldInv
    <3>4. CASE Underway(o)
      BY <1>1, <2>1, <3>4, UnderwayStep DEF ProtocolInv, LocksOK, HeldInv
    <3>5. QED
      BY <2>3, <3>1, <3>2, <3>3, <3>4, OpActions
  <2>4. CASE Elsewhere
    <3> USE <2>1, ElsewhereStep DEF HeldInv, Goto, Fail, lockVars, diskVars, vars
    <3>1. CASE LookUpForResize
      BY <1>1, <3>1, LookedUp, ResizeNames DEF LookUpForResize, LocksOK
    <3>2. CASE \/ validateAndPrepareResize \/ WriteLock \/ waitForQuiescence
               \/ createNewLoopFile \/ syncDataBetweenLoops \/ unmountNew
      BY <2>4, <3>2 DEF validateAndPrepareResize, WriteLock, waitForQuiescence,
         createNewLoopFile, syncDataBetweenLoops, unmountNew
    <3>3. CASE \/ renameToBackup \/ renameNew \/ removeBackup \/ unmountNewAgain
               \/ cleanupResizeLock \/ removeNew
      BY <2>4, <3>3 DEF renameToBackup, renameNew, removeBackup, unmountNewAgain,
         cleanupResizeLock, removeNew
    <3>4. CASE Unlock
      BY <1>1, <2>4, <3>4 DEF Unlock, LocksOK
    <3>5. QED
      BY <2>4, <3>1, <3>2, <3>3, <3>4 DEF Elsewhere
  <2>5. ASSUME NEW t \in Timers, IdleTimer(t) PROVE HeldInv'
    <3>1. UNCHANGED pc
      BY <2>5 DEF IdleTimer, handleMountTimeout, Fire, checkRefCount, clearTimerEntry,
         timerLock, timerUnmount
    <3>2. QED
      BY <2>2, <2>5, <3>1 DEF IdleTimer, lockVars
  <2>6. QED
    BY <1>4, <2>2, <2>3, <2>4, <2>5, ResizeActions
    DEF RNext, allVars, vars, resizeVars, lockVars
<1>5. QED
  BY <1>2, <1>3, <1>4

-----------------------------------------------------------------------------
(* The images.                                                             *)

LEMMA FreshImageFree ==
    ASSUME Fresh # {}
    PROVE  /\ FreshImage \in Images /\ FreshImage \notin newMounts
           /\ FreshImage \notin {image, newImage, backup, source}
<1>1. FreshImage \in Fresh
  BY DEF FreshImage
<1>2. QED
  BY <1>1 DEF Fresh

\* What an operation does to the mount and the disk.
LEMMA UnderwayDisk ==
    ASSUME NEW o \in Ops, Underway(o)
    PROVE  /\ UNCHANGED <<image, newImage, backup, newMounts>>
           /\ \/ MountSource(o) \/ Write(o)
              \/ /\ UNCHANGED <<mounts, source, files, stored>>
                 /\ \/ UNCHANGED file
                    \/ file' = [file EXCEPT ![o] = IF isMounted THEN "image" ELSE "bare"]
<1> USE DEF mountVars, diskVars, resizeVars
<1>1. CASE MountProtocol(o)
  <2>1. UNCHANGED diskVars
    BY <1>1 DEF MountProtocol
  <2>2. UNCHANGED mounts
    BY <1>1 DEF MountProtocol, stopMountTimer, getOrCreateRefCount, AddRef, AnnounceMount,
       LockMount, MkdirFails, AlreadyMounted, NotMounted, signalMountReady,
       waitForMountReady, NoStatus, ReadStatus, StatusDone, OpenFile, UsePath, LoadRef,
       DropRef, scheduleUnmount, Acquire
  <2>3. \/ UNCHANGED file
        \/ file' = [file EXCEPT ![o] = IF isMounted THEN "image" ELSE "bare"]
    BY <1>1 DEF MountProtocol, stopMountTimer, getOrCreateRefCount, AddRef, AnnounceMount,
       LockMount, MkdirFails, AlreadyMounted, NotMounted, signalMountReady,
       waitForMountReady, NoStatus, ReadStatus, StatusDone, OpenFile, UsePath, LoadRef,
       DropRef, scheduleUnmount
  <2>4. QED
    BY <2>1, <2>2, <2>3
<1>2. CASE MountSource(o) \/ Write(o)
  BY <1>2 DEF MountSource, Write
<1>3. CASE LastRefGone(o) \/ EndOp(o)
  BY <1>3 DEF LastRefGone, DeleteCounter, EndOp, Return
<1>4. QED
  BY <1>1, <1>2, <1>3 DEF Underway

\* An idle timer takes the mount away only when no file is open on it.
LEMMA TimerDisk ==
    ASSUME NEW t \in Timers, IdleTimer(t)
    PROVE  /\ UNCHANGED <<pc, file, lockVars, step>>
           /\ UNCHANGED <<image, newImage, backup, newMounts, files, stored>>
           /\ Unmounted
           /\ \/ mounts' = mounts
              \/ timer[t] = "unmount" /\ isMounted /\ ~Busy /\ mounts' = mounts - 1
BY DEF IdleTimer, handleMountTimeout, Fire, checkRefCount, clearTimerEntry, timerLock,
       timerUnmount, TimerStep, umount, Acquire, mountVars

LEMMA DiskStep ==
    ASSUME DiskOK, SourceInv, RNext \/ Restart \/ UNCHANGED allVars
    PROVE  DiskOK'
<1> USE DEF DiskOK
<1>1. UNCHANGED diskVars => DiskOK'
  BY DEF diskVars
<1>2. ASSUME NEW o \in Ops, OpAction(o) PROVE DiskOK'
  <2>1. CASE CreateImage(o)
    BY <2>1, FreshImageFree DEF CreateImage
  <2>2. CASE LookUp(o) \/ StartOp(o) \/ NotFound(o)
    BY <1>1, <2>2 DEF LookUp, StartOp, NotFound, resizeVars
  <2>3. CASE Underway(o)
    <3>1. CASE MountSource(o)
      BY <3>1 DEF MountSource
    <3>2. CASE Write(o)
      BY <3>2 DEF Write
    <3>3. QED
      BY <2>3, <3>1, <3>2, UnderwayDisk
  <2>4. QED
    BY <1>2, <2>1, <2>2, <2>3, OpActions
<1>3. ASSUME NEW t \in Timers, IdleTimer(t) PROVE DiskOK'
  BY <1>3, TimerDisk DEF Unmounted
<1>4. CASE ResizeAction
  <2>1. CASE AtMountLock
    BY <2>1 DEF AtMountLock, EnterMountLock, mountForResize, unmountForResize, Unmounted,
       diskVars
  <2>2. CASE createNewLoopFile
    BY <2>2, FreshImageFree DEF createNewLoopFile
  <2>3. CASE syncDataBetweenLoops
    <3> DEFINE from == IF isMounted THEN source ELSE Bare
    <3>1. from \in Images \cup {Bare}
      BY DEF SourceInv
    <3>2. files[from] \subseteq Ops
      BY <3>1
    <3>3. QED
      BY <2>3, <3>2 DEF syncDataBetweenLoops
  <2>4. CASE renameToBackup \/ renameNew \/ removeBackup
    BY <2>4 DEF renameToBackup, renameNew, removeBackup
  <2>5. CASE unmountNew \/ unmountNewAgain \/ removeNew
    BY <2>5 DEF unmountNew, unmountNewAgain, removeNew
  <2>6. CASE \/ validateAndPrepareResize \/ LookUpForResize \/ WriteLock
             \/ waitForQuiescence \/ cleanupResizeLock \/ Unlock
    BY <1>1, <2>6 DEF validateAndPrepareResize, LookUpForResize, WriteLock,
       waitForQuiescence, cleanupResizeLock, Unlock
  <2>7. QED
    BY <1>4, <2>1, <2>2, <2>3, <2>4, <2>5, <2>6, ResizeActions DEF Elsewhere
<1>5. QED
  BY <1>1, <1>2, <1>3, <1>4 DEF RNext, Restart, allVars, resizeVars

\* A new image is one that is neither named nor mounted, and gets the name only
\* after its umount.
LEMMA ScratchStep ==
    ASSUME DiskOK, ScratchInv, RNext \/ Restart \/ UNCHANGED allVars
    PROVE  ScratchInv'
<1> USE DEF DiskOK, ScratchInv
<1>1. UNCHANGED <<step, image, newImage, backup, newMounts>> => ScratchInv'
  OBVIOUS
<1>2. UNCHANGED <<image, newImage, backup, newMounts>>
      /\ step' \notin {"lockUnmount", "unmountOld", "backup", "replace"} => ScratchInv'
  OBVIOUS
<1>3. ASSUME NEW o \in Ops, OpAction(o) PROVE ScratchInv'
  <2>1. CASE CreateImage(o)
    BY <2>1, FreshImageFree DEF CreateImage
  <2>2. CASE LookUp(o) \/ StartOp(o) \/ NotFound(o)
    BY <1>1, <2>2 DEF LookUp, StartOp, NotFound, resizeVars, diskVars
  <2>3. CASE Underway(o)
    <3>1. step' \in {step, "quiesce"}
      BY <2>3 DEF Underway, MountProtocol, MountSource, Write, LastRefGone, EndOp, resizeVars
    <3>2. QED
      BY <1>1, <1>2, <2>3, <3>1, UnderwayDisk
  <2>4. QED
    BY <1>3, <2>1, <2>2, <2>3, OpActions
<1>4. ASSUME NEW t \in Timers, IdleTimer(t) PROVE ScratchInv'
  BY <1>1, <1>4, TimerDisk
<1>5. CASE ResizeAction
  <2> USE DEF Goto, Fail
  <2>1. CASE AtMountLock
    <3>1. step' \in {"unmountOld", "backup"} => step \in {"lockUnmount", "unmountOld"}
      BY <2>1 DEF AtMountLock, EnterMountLock, mountForResize, unmountForResize
    <3>2. step' \notin {"lockUnmount", "replace"}
      BY <2>1 DEF AtMountLock, EnterMountLock, mountForResize, unmountForResize
    <3>3. QED
      BY <2>1, <3>1, <3>2, AtMountLockStep
  <2>2. CASE createNewLoopFile
    BY <2>2, FreshImageFree, ResizeNames DEF createNewLoopFile
  <2>3. CASE unmountNew
    BY <2>3 DEF unmountNew
  <2>4. CASE renameToBackup \/ renameNew \/ removeBackup
    BY <2>4, ResizeNames DEF renameToBackup, renameNew, removeBackup
  <2>5. CASE unmountNewAgain \/ removeNew
    BY <2>5 DEF unmountNewAgain, removeNew
  <2>6. CASE \/ validateAndPrepareResize \/ LookUpForResize \/ WriteLock
             \/ waitForQuiescence \/ syncDataBetweenLoops \/ cleanupResizeLock \/ Unlock
    BY <1>2, <2>6 DEF validateAndPrepareResize, LookUpForResize, WriteLock,
       waitForQuiescence, syncDataBetweenLoops, cleanupResizeLock, Unlock, diskVars
  <2>7. QED
    BY <1>5, <2>1, <2>2, <2>3, <2>4, <2>5, <2>6, ResizeActions DEF Elsewhere
<1>6. CASE Restart
  BY <1>2, <1>6 DEF Restart, diskVars
<1>7. QED
  BY <1>1, <1>3, <1>4, <1>5, <1>6 DEF RNext, allVars, resizeVars, diskVars

LEMMA SourceStep ==
    ASSUME TypeInv, DiskOK, SourceInv, RNext \/ Restart \/ UNCHANGED allVars
    PROVE  SourceInv'
<1> USE DEF SourceInv, TypeInv, ObjectsOK, isMounted
<1>1. UNCHANGED <<file, mounts, source>> => SourceInv'
  OBVIOUS
<1>2. ASSUME NEW o \in Ops, OpAction(o) PROVE SourceInv'
  <2>1. CASE LookUp(o) \/ StartOp(o) \/ CreateImage(o) \/ NotFound(o)
    BY <1>1, <2>1 DEF LookUp, StartOp, CreateImage, NotFound, Begin, vars, mountVars,
       resizeVars, diskVars
  <2>2. CASE Underway(o)
    <3>1. CASE MountSource(o)
      BY <3>1 DEF MountSource, mountCommand, ImageIsGone
    <3>2. CASE Write(o)
      BY <3>2 DEF Write, CloseFile, mountVars
    <3>3. QED
      BY <2>2, <3>1, <3>2, UnderwayDisk
  <2>3. QED
    BY <1>2, <2>1, <2>2, OpActions
<1>3. ASSUME NEW t \in Timers, IdleTimer(t) PROVE SourceInv'
  BY <1>3, TimerDisk DEF Unmounted, Busy
<1>4. CASE AtMountLock
  <2>1. UNCHANGED file
    BY <1>4, AtMountLockStep
  <2>2. CASE EnterMountLock
    BY <1>1, <2>1, <2>2 DEF EnterMountLock, Acquire, diskVars
  <2>3. CASE mountForResize
    BY <2>1, <2>3 DEF mountForResize, ImageIsGone
  <2>4. CASE unmountForResize
    BY <2>1, <2>4 DEF unmountForResize, umount, Unmounted, Busy
  <2>5. QED
    BY <1>4, <2>2, <2>3, <2>4 DEF AtMountLock
<1>5. CASE Elsewhere
  <2>1. UNCHANGED source
    BY <1>5 DEF Elsewhere, validateAndPrepareResize, LookUpForResize, WriteLock,
       waitForQuiescence, createNewLoopFile, syncDataBetweenLoops, unmountNew,
       renameToBackup, renameNew, removeBackup, unmountNewAgain, cleanupResizeLock,
       removeNew, Unlock, diskVars
  <2>2. QED
    BY <1>1, <1>5, <2>1, ElsewhereStep DEF vars, mountVars
<1>6. CASE Restart
  BY <1>6 DEF Restart, diskVars
<1>7. QED
  BY <1>1, <1>2, <1>3, <1>4, <1>5, <1>6, ResizeActions
  DEF RNext, allVars, vars, mountVars, resizeVars, diskVars

LEMMA AnyTimeStep == AnyTimeInv /\ [WNext]_<<allVars, incidents>> => AnyTimeInv'
<1>1. [WNext]_<<allVars, incidents>> => RNext \/ Restart \/ UNCHANGED allVars
  BY DEF WNext
<1>2. AnyTimeInv => TypeInv
  BY DEF AnyTimeInv, ProtocolInv
<1>3. QED
  BY <1>1, <1>2, ProtocolStep, LocksStep, HeldStep, DiskStep, SourceStep, ScratchStep
  DEF AnyTimeInv

LEMMA AnyTimeInit == WInit => AnyTimeInv
<1> SUFFICES ASSUME RInit PROVE AnyTimeInv
  BY DEF WInit
<1>1. ProtocolInv
  BY InitTypeInv, InitSafeInv, NoCountBound DEF RInit, ProtocolInv, Init, getCurrentRefCount
<1>2. image \in Images
  BY SomeImage DEF RInit
<1>3. LocksOK /\ DiskOK
  BY <1>2 DEF RInit, Init, LocksOK, DiskOK, ResizeSteps
<1>4. HeldInv /\ SourceInv /\ ScratchInv
  BY DEF RInit, Init, HeldInv, SourceInv, ScratchInv, isMounted
<1>5. QED
  BY <1>1, <1>3, <1>4 DEF AnyTimeInv

\* Every variable keeps its type, through every resize, failed step and crash:
\* the lock that getResizeLock needs is always found, and neither a mount point
\* nor a map entry names what does not exist.
THEOREM ResizeTypeCorrect == WSpec => []ResizeTypeOK
<1>1. AnyTimeInv => ResizeTypeOK
  BY DEF AnyTimeInv, ProtocolInv, TypeInv, LocksOK, DiskOK, ResizeTypeOK
<1>2. QED
  BY <1>1, AnyTimeInit, AnyTimeStep, PTL DEF WSpec

\* A resize mounts without a reference, yet never a second file system on top of
\* the first, against any operations and idle timers and after any crash.
THEOREM ResizeMountsOnce == WSpec => []SingleMount
<1>1. AnyTimeInv => SingleMount
  BY DEF AnyTimeInv, ProtocolInv, SafeInv, MountInv, SingleMount
<1>2. QED
  BY <1>1, AnyTimeInit, AnyTimeStep, PTL DEF WSpec

-----------------------------------------------------------------------------
(* Until an incident: the resize is alone.                                 *)

LEMMA Undisturbed ==
    ASSUME [WNext]_<<allVars, incidents>>, incidents' = {}
    PROVE  /\ incidents = {}
           /\ UNCHANGED allVars \/ ~(LockDropped \/ SourceUnmounted \/ NameLost)
BY DEF WNext, Seen

\* From the Lock to the deletion of the entry every operation has returned.
LEMMA Alone ==
    ASSUME HeldInv, SharedInv, step \in Exclusive \ Tail
    PROVE  Writing(resizeLock) /\ \A o \in Ops : pc[o] = "idle"
BY DEF HeldInv, SharedInv, Writing, Exclusive

\* With nobody at work there is no reference to wait for.
LEMMA NoReference ==
    ASSUME CountBound, \A o \in Ops : pc[o] = "idle"
    PROVE  getCurrentRefCount <= 0
<1>1. Counted = {}
  BY DEF Counted, Referencing, RefSteps
<1>2. QED
  BY <1>1, FS_EmptySet DEF CountBound

LEMMA SharedOperation ==
    ASSUME AnyTimeInv, SharedInv, NEW o \in Ops, OpAction(o)
    PROVE  SharedInv'
<1> USE DEF AnyTimeInv, LocksOK, SharedInv, Writing
<1>1. o # Resizer /\ Resizer \notin Ops
  BY ResizeNames DEF Holders
<1>2. TypeInv
  BY DEF ProtocolInv
<1>3. CASE LookUp(o)
  <2>1. UNCHANGED <<pc, step>> /\ getResizeLock(o)
    BY <1>3 DEF LookUp, vars
  <2>2. lockRef' = [lockRef EXCEPT ![o] = resizeLock'] /\ lockRef'[Resizer] = lockRef[Resizer]
    BY <1>1, <2>1, LookedUp
  <2>3. CASE resizeLock # None
    BY <2>1, <2>2, <2>3, LookedUp
  <2>4. CASE resizeLock = None
    <3>1. \A p \in Ops : lockRef[p] = None
      BY <2>4
    <3>2. lockRef[Resizer] # resizeLock'
      BY <2>1, <2>4, LookedUp
    <3>3. QED
      BY <2>1, <2>2, <2>4, <3>1, <3>2
  <2>5. QED
    BY <2>3, <2>4
<1>4. CASE NotFound(o)
  BY <1>1, <1>4 DEF NotFound, vars
<1>5. CASE StartOp(o) \/ CreateImage(o)
  <2>1. MayRead(o) /\ UNCHANGED <<lockVars, step>>
    BY <1>2, <1>5, StartStep
  <2>2. ~Writing(resizeLock)
    BY <2>1 DEF MayRead
  <2>3. QED
    BY <2>1, <2>2 DEF lockVars
<1>6. CASE Underway(o)
  <2>1. pc[o] # "idle" /\ UNCHANGED <<resizeLock, step>>
    BY <1>2, <1>6, UnderwayStep
  <2>2. ~Writing(resizeLock)
    BY <2>1
  <2>3. lockRef'[Resizer] = lockRef[Resizer]
        /\ \A p \in Ops : lockRef'[p] \in {lockRef[p], None}
    BY <1>1, <1>2, <1>6, UnderwayStep
  <2>4. QED
    BY <2>1, <2>2, <2>3
<1>7. QED
  BY <1>3, <1>4, <1>5, <1>6, OpActions

LEMMA SharedResize ==
    ASSUME AnyTimeInv, SharedInv, ResizeAction, ~LockDropped
    PROVE  SharedInv'
<1> USE DEF AnyTimeInv, LocksOK, SharedInv, Writing, Exclusive, Tail, ResizeSteps, Goto,
            Fail, lockVars
<1>1. Resizer \notin Ops
  BY ResizeNames DEF Holders
<1>2. UNCHANGED pc
  BY ResizeActions, ElsewhereStep, AtMountLockStep DEF vars
<1>3. CASE LookUpForResize
  <2>1. step' = "writeLock" /\ getResizeLock(Resizer)
    BY <1>3 DEF LookUpForResize
  <2>2. /\ \A p \in Ops : lockRef'[p] = lockRef[p]
        /\ lockRef'[Resizer] = resizeLock'
    BY <1>1, <2>1, LookedUp
  <2>3. \A p \in Ops : lockRef[p] # None => resizeLock' = resizeLock
    BY <2>1, LookedUp
  <2>4. QED
    BY <2>1, <2>2, <2>3
<1>4. CASE WriteLock
  <2>1. /\ step = "writeLock" /\ step' = "quiesce" /\ UNCHANGED lockVars
        /\ \A o \in Ops : ~Reading(o, lockRef[Resizer])
    BY <1>4 DEF WriteLock
  <2>2. lockRef[Resizer] = resizeLock
    BY <2>1 DEF HeldInv
  <2>3. \A o \in Ops : pc[o] = "idle"
    BY <2>1, <2>2 DEF Reading, HeldInv
  <2>4. QED
    BY <1>2, <2>1, <2>2, <2>3
<1>5. CASE waitForQuiescence
  <2>1. step = "quiesce" /\ UNCHANGED lockVars
    BY <1>5 DEF waitForQuiescence
  <2>2. \A o \in Ops : pc[o] = "idle"
    BY <2>1, Alone
  <2>3. getCurrentRefCount <= 0 /\ getCurrentRefCount \in Int
    BY <2>2, NoReference DEF ProtocolInv, TypeInv, ObjectsOK, getCurrentRefCount
  <2>4. step' = "lockOld"
    BY <1>5, <2>1, <2>3 DEF waitForQuiescence
  <2>5. QED
    BY <1>2, <2>1, <2>2, <2>4
<1>6. CASE cleanupResizeLock
  <2>1. step = "dropLock" /\ step' = "lockDefer" /\ resizeLock' = None /\ UNCHANGED lockRef
    BY <1>6 DEF cleanupResizeLock
  <2>2. lockRef[Resizer] = resizeLock /\ resizeLock # None
    BY <2>1 DEF HeldInv
  <2>3. \A o \in Ops : lockRef[o] = None
    BY <2>1, <2>2 DEF LockDropped
  <2>4. QED
    BY <2>1, <2>2, <2>3
<1>7. CASE Unlock
  BY <1>1, <1>2, <1>7 DEF Unlock
<1>8. CASE validateAndPrepareResize
  BY <1>2, <1>8 DEF validateAndPrepareResize
<1>9. CASE \/ AtMountLock \/ createNewLoopFile \/ syncDataBetweenLoops \/ unmountNew
           \/ renameToBackup \/ renameNew \/ removeBackup \/ unmountNewAgain \/ removeNew
  <2>1. UNCHANGED lockVars /\ step' \in Exclusive \ {"parking", "asleep"}
    BY <1>9 DEF AtMountLock, EnterMountLock, mountForResize, unmountForResize,
       createNewLoopFile, syncDataBetweenLoops, unmountNew, renameToBackup, renameNew,
       removeBackup, unmountNewAgain, removeNew
  <2>2. step \in Exclusive /\ (step \in Tail => step' \in Tail)
    BY <1>9 DEF AtMountLock, EnterMountLock, mountForResize, unmountForResize,
       createNewLoopFile, syncDataBetweenLoops, unmountNew, renameToBackup, renameNew,
       removeBackup, unmountNewAgain, removeNew
  <2>3. QED
    BY <1>2, <2>1, <2>2
<1>10. QED
  BY <1>3, <1>4, <1>5, <1>6, <1>7, <1>8, <1>9, ResizeActions DEF Elsewhere

LEMMA SharedStep ==
    ASSUME AnyTimeInv, SharedInv, RNext \/ Restart \/ UNCHANGED allVars,
           ~LockDropped \/ UNCHANGED allVars
    PROVE  SharedInv'
<1>1. UNCHANGED <<pc, lockVars, step>> => SharedInv'
  BY DEF SharedInv, Writing, lockVars
<1>2. CASE Restart
  BY <1>2 DEF Restart, SharedInv, Writing, Exclusive
<1>3. QED
  BY <1>1, <1>2, TimerDisk, SharedOperation, SharedResize
  DEF RNext, allVars, vars, resizeVars

-----------------------------------------------------------------------------
(* Until an incident: the mount shows the image.                           *)

\* Where an operation can be, the image has its name and no copy is made.
LEMMA AtWork ==
    ASSUME LocksOK, HeldInv, SharedInv, NEW o \in Ops, pc[o] # "idle" \/ MayRead(o)
    PROVE  step \in {"idle", "lookup", "writeLock"} \cup Tail
BY Alone DEF LocksOK, MayRead, SharedInv, Exclusive

LEMMA MountedOperation ==
    ASSUME AnyTimeInv, SharedInv, MountedInv, NEW o \in Ops, OpAction(o)
    PROVE  MountedInv'
<1> USE DEF AnyTimeInv, LocksOK, MountedInv, ImageIsGone, isMounted
<1>1. TypeInv
  BY DEF ProtocolInv
<1>2. CASE LookUp(o)
  BY <1>2 DEF LookUp, vars, mountVars, diskVars
<1>3. CASE MayRead(o)
  <2>1. ~ImageIsGone
    BY <1>3, AtWork DEF Tail
  <2>2. StartOp(o)
    <3>1. pc[o] = "idle"
      BY <1>3 DEF MayRead
    <3>2. ~LookUp(o)
      BY <1>3, <1>2 DEF LookUp, getResizeLock, MayRead
    <3>3. ~Underway(o)
      BY <1>1, <3>1, UnderwayStep
    <3>4. QED
      BY <2>1, <3>2, <3>3, OpActions DEF CreateImage, NotFound
  <2>3. UNCHANGED <<mounts, source, image, step>>
    BY <2>2 DEF StartOp, Begin, mountVars, resizeVars, diskVars
  <2>4. QED
    BY <2>3
<1>4. CASE Underway(o)
  <2>1. step \in {"idle", "lookup", "writeLock"} \cup Tail /\ step' = step
    BY <1>1, <1>4, UnderwayStep, AtWork DEF Tail
  <2>2. image' = image /\ image # None
    BY <1>4, <2>1, UnderwayDisk DEF Tail
  <2>3. isMounted' => source' = image'
    <3>1. CASE MountSource(o)
      BY <2>2, <3>1 DEF MountSource, mountCommand, ProtocolInv, TypeInv, ObjectsOK
    <3>2. CASE Write(o)
      BY <2>2, <3>2 DEF Write, CloseFile, mountVars
    <3>3. QED
      BY <1>4, <2>2, <3>1, <3>2, UnderwayDisk
  <2>4. QED
    BY <2>1, <2>2, <2>3 DEF Tail
<1>5. QED
  BY <1>2, <1>3, <1>4, OpActions DEF StartOp, CreateImage, NotFound

LEMMA MountedResize ==
    ASSUME AnyTimeInv, MountedInv, CopyInv, ResizeAction
    PROVE  MountedInv'
<1> USE DEF AnyTimeInv, DiskOK, MountedInv, ImageIsGone, isMounted, Goto, Fail
<1>1. mounts \in Nat /\ mounts <= 1
  BY DEF ProtocolInv, TypeInv, ObjectsOK, SafeInv, MountInv
<1>2. CASE EnterMountLock
  BY <1>2 DEF EnterMountLock, Acquire, diskVars
<1>3. CASE mountForResize
  BY <1>1, <1>3 DEF mountForResize
<1>4. CASE unmountForResize
  BY <1>1, <1>4 DEF unmountForResize, umount, Unmounted
<1>5. CASE \/ validateAndPrepareResize \/ LookUpForResize \/ WriteLock
           \/ waitForQuiescence \/ cleanupResizeLock \/ Unlock
  BY <1>5 DEF validateAndPrepareResize, LookUpForResize, WriteLock, waitForQuiescence,
     cleanupResizeLock, Unlock, vars, mountVars, diskVars
<1>6. CASE \/ createNewLoopFile \/ syncDataBetweenLoops \/ unmountNew \/ removeBackup
           \/ unmountNewAgain \/ removeNew
  BY <1>6 DEF createNewLoopFile, syncDataBetweenLoops, unmountNew, removeBackup,
     unmountNewAgain, removeNew, vars, mountVars
<1>7. CASE renameToBackup
  BY <1>7 DEF renameToBackup, vars, mountVars
<1>8. CASE renameNew
  <2>1. ~isMounted /\ UNCHANGED <<mounts, source>>
    BY <1>8 DEF renameNew, vars, mountVars
  <2>2. newImage # None /\ backup # None
    BY <1>8 DEF renameNew, CopyInv
  <2>3. step' \in {"removeBackup", "deferNew"} /\ image' # None
    BY <1>8, <2>2 DEF renameNew
  <2>4. QED
    BY <2>1, <2>3
<1>9. QED
  BY <1>2, <1>3, <1>4, <1>5, <1>6, <1>7, <1>8, ResizeActions DEF AtMountLock, Elsewhere

LEMMA MountedStep ==
    ASSUME AnyTimeInv, SharedInv, MountedInv, CopyInv, RNext \/ Restart \/ UNCHANGED allVars,
           UNCHANGED allVars \/ ~(SourceUnmounted \/ NameLost)
    PROVE  MountedInv'
<1> USE DEF MountedInv, ImageIsGone, isMounted
<1>1. UNCHANGED <<mounts, step, image, source>> => MountedInv'
  OBVIOUS
<1>2. CASE UNCHANGED allVars
  BY <1>1, <1>2 DEF allVars, vars, mountVars, resizeVars, diskVars
<1>3. CASE Restart /\ ~NameLost
  BY <1>3 DEF Restart, NameLost, diskVars
<1>4. ASSUME NEW t \in Timers, IdleTimer(t), ~SourceUnmounted
      PROVE  MountedInv'
  <2>1. mounts \in Nat
    BY DEF AnyTimeInv, ProtocolInv, TypeInv, ObjectsOK
  <2>2. UNCHANGED <<step, image>> /\ (isMounted' => isMounted /\ source' = source)
    BY <1>4, <2>1, TimerDisk DEF Unmounted
  <2>3. step \in {"create", "rsync"} => mounts' = mounts
    BY <1>4, <2>1, TimerDisk DEF SourceUnmounted
  <2>4. QED
    BY <2>2, <2>3
<1>5. QED
  BY <1>2, <1>3, <1>4, MountedOperation, MountedResize DEF RNext

-----------------------------------------------------------------------------
(* Until an incident: one name is always complete.                         *)

LEMMA CopyOperation ==
    ASSUME AnyTimeInv, SharedInv, MountedInv, CopyInv, NEW o \in Ops, OpAction(o)
    PROVE  CopyInv'
<1> USE DEF AnyTimeInv, DiskOK, CopyInv, ImageIsGone
<1>1. TypeInv
  BY DEF ProtocolInv
<1>2. CASE LookUp(o) \/ StartOp(o)
  BY <1>2 DEF LookUp, StartOp, resizeVars, diskVars
<1>3. ~CreateImage(o) /\ ~NotFound(o)
  BY AtWork DEF CreateImage, NotFound, MountedInv, Tail
<1>4. CASE Underway(o)
  <2>1. step \in {"idle", "lookup", "writeLock"} \cup Tail /\ step' = step
    BY <1>1, <1>4, UnderwayStep, AtWork DEF SharedInv
  <2>2. image' = image /\ image \in Images /\ image # Bare
    BY <1>4, <2>1, UnderwayDisk, ResizeNames DEF MountedInv, Tail
  <2>3. stored' \subseteq files'[image]
    <3>1. stored \subseteq files[image]
      BY <2>2, ResizeNames
    <3>2. CASE MountSource(o)
      BY <3>1, <3>2 DEF MountSource
    <3>3. CASE Write(o)
      <4>1. file[o] = "image" => source = image
        BY DEF SourceInv, MountedInv
      <4>2. QED
        BY <2>2, <3>1, <3>3, <4>1 DEF Write
    <3>4. QED
      BY <1>4, <3>1, <3>2, <3>3, UnderwayDisk
  <2>4. QED
    BY <2>1, <2>2, <2>3 DEF Tail
<1>5. QED
  BY <1>2, <1>3, <1>4, OpActions

LEMMA CopyResize ==
    ASSUME AnyTimeInv, MountedInv, CopyInv, ResizeAction
    PROVE  CopyInv'
<1> USE DEF AnyTimeInv, DiskOK, MountedInv, CopyInv, ImageIsGone, Goto, Fail
<1>1. CASE AtMountLock
  <2>1. UNCHANGED <<image, newImage, backup, files, stored>>
    BY <1>1, AtMountLockStep
  <2>2. \/ step' \in {"mountOld", "unmountDefer", "create", "removeNew", "deferNew"}
        \/ step = "lockUnmount" /\ step' = "unmountOld"
        \/ step = "unmountOld" /\ step' = "backup"
    BY <1>1 DEF AtMountLock, EnterMountLock, mountForResize, unmountForResize
  <2>3. step # "replace"
    BY <1>1 DEF AtMountLock, EnterMountLock, mountForResize, unmountForResize
  <2>4. QED
    BY <2>1, <2>2, <2>3
<1>2. CASE \/ validateAndPrepareResize \/ LookUpForResize \/ WriteLock
           \/ waitForQuiescence \/ unmountNew \/ unmountNewAgain \/ cleanupResizeLock
           \/ Unlock
  BY <1>2 DEF validateAndPrepareResize, LookUpForResize, WriteLock, waitForQuiescence,
     unmountNew, unmountNewAgain, cleanupResizeLock, Unlock, diskVars
<1>3. CASE createNewLoopFile
  <2>1. /\ newImage' \in Images /\ newImage' # None /\ newImage' # image
        /\ files' = [files EXCEPT ![newImage'] = {}]
        /\ UNCHANGED <<image, stored>>
        /\ step' \in {"rsync", "lockDefer"} /\ image # None
    BY <1>3, FreshImageFree, ResizeNames DEF createNewLoopFile, ScratchInv
  <2>2. files'[image] = files[image]
    BY <2>1
  <2>3. QED
    BY <2>1, <2>2
<1>4. CASE syncDataBetweenLoops
  <2>1. /\ step = "rsync" /\ newImage \in Images /\ image \in Images
        /\ isMounted /\ source = image /\ stored \subseteq files[image]
        /\ UNCHANGED <<image, newImage, stored>>
    BY <1>4 DEF syncDataBetweenLoops
  <2>2. \/ /\ step' = "unmountNew"
           /\ files' = [files EXCEPT ![newImage] = @ \cup files[image]]
        \/ step' = "deferNew" /\ UNCHANGED files
    BY <1>4, <2>1 DEF syncDataBetweenLoops
  <2>3. stored \subseteq files'[image]
        /\ (step' = "unmountNew" => stored \subseteq files'[newImage])
    BY <2>1, <2>2
  <2>4. QED
    BY <2>1, <2>2, <2>3, ResizeNames
<1>5. CASE renameToBackup
  BY <1>5 DEF renameToBackup
<1>6. CASE renameNew
  BY <1>6 DEF renameNew
<1>7. CASE removeBackup
  BY <1>7 DEF removeBackup
<1>8. CASE removeNew
  <2>1. step = "removeNew" /\ step' = "unlock" /\ UNCHANGED <<image, backup, stored>>
    BY <1>8 DEF removeNew
  <2>2. files'[image] = files[image]
    BY <1>8 DEF removeNew, OnTop, ScratchInv
  <2>3. QED
    BY <2>1, <2>2
<1>9. QED
  BY <1>1, <1>2, <1>3, <1>4, <1>5, <1>6, <1>7, <1>8, ResizeActions DEF Elsewhere

LEMMA CopyStep ==
    ASSUME AnyTimeInv, SharedInv, MountedInv, CopyInv, RNext \/ Restart \/ UNCHANGED allVars,
           UNCHANGED allVars \/ ~NameLost
    PROVE  CopyInv'
<1>1. UNCHANGED <<step, image, newImage, backup, files, stored>> => CopyInv'
  BY DEF CopyInv, ImageIsGone
<1>2. CASE Restart /\ ~NameLost
  BY <1>2 DEF Restart, NameLost, diskVars, CopyInv, ImageIsGone
<1>3. QED
  BY <1>1, <1>2, TimerDisk, CopyOperation, CopyResize
  DEF RNext, allVars, resizeVars, diskVars

-----------------------------------------------------------------------------

WindowInv == AnyTimeInv /\ SafeUntilIncident

LEMMA WindowStep == WindowInv /\ [WNext]_<<allVars, incidents>> => WindowInv'
<1> SUFFICES ASSUME WindowInv, [WNext]_<<allVars, incidents>>
             PROVE  WindowInv'
  OBVIOUS
<1>1. AnyTimeInv /\ AnyTimeInv'
  BY AnyTimeStep DEF WindowInv
<1>2. RNext \/ Restart \/ UNCHANGED allVars
  BY DEF WNext
<1>3. ASSUME incidents' = {}
      PROVE  SharedInv' /\ MountedInv' /\ CopyInv'
  <2>1. SharedInv /\ MountedInv /\ CopyInv
    BY <1>3, Undisturbed DEF WindowInv, SafeUntilIncident
  <2>2. UNCHANGED allVars \/ ~(LockDropped \/ SourceUnmounted \/ NameLost)
    BY <1>3, Undisturbed
  <2>3. QED
    BY <1>1, <1>2, <2>1, <2>2, SharedStep, MountedStep, CopyStep
<1>4. QED
  BY <1>1, <1>3 DEF WindowInv, SafeUntilIncident

LEMMA WindowInit == WInit => WindowInv
<1> SUFFICES ASSUME WInit PROVE SafeUntilIncident
  BY AnyTimeInit DEF WindowInv
<1> USE DEF WInit, RInit, Init
<1>1. SharedInv
  BY ResizeNames DEF SharedInv, Writing, Exclusive
<1>2. image \in Images
  BY SomeImage
<1>3. MountedInv /\ CopyInv
  BY <1>2, ResizeNames DEF MountedInv, CopyInv, ImageIsGone, isMounted
<1>4. QED
  BY <1>1, <1>3 DEF SafeUntilIncident

LEMMA WindowAlways == WSpec => []WindowInv
BY WindowInit, WindowStep, PTL DEF WSpec

\* Until an incident a resize runs alone from its Lock to the deletion of the map
\* entry, against any number of operations: whoever works has the lock that the
\* map names, and the lock that a resize holds is that one.
THEOREM ResizeExclusive == WSpec => []ExclusiveWhileLockShared
<1>1. WindowInv => ExclusiveWhileLockShared
  BY DEF WindowInv, SafeUntilIncident, SharedInv, ExclusiveWhileLockShared
<1>2. QED
  BY <1>1, WindowAlways, PTL

\* Until an incident no stored file is ever without a name on the disk, wherever
\* the copy, a rename or the process fails: one of image and backup has them all.
THEOREM NoFileLost == WSpec => []FilesAlwaysOnDisk
<1>1. WindowInv => FilesAlwaysOnDisk
  BY DEF WindowInv, SafeUntilIncident, MountedInv, CopyInv, FilesAlwaysOnDisk, ImageIsGone
<1>2. QED
  BY <1>1, WindowAlways, PTL

\* Until an incident operations read and write the image that has the name, never
\* the one that a resize has replaced.
THEOREM MountIsImage == WSpec => []MountShowsImage
<1>1. WindowInv => MountShowsImage
  BY DEF WindowInv, SafeUntilIncident, MountedInv, MountShowsImage
<1>2. QED
  BY <1>1, WindowAlways, PTL

\* Until an incident waitForQuiescence never waits, so the broadcast it can miss
\* is never needed: with every operation returned no reference is counted.
THEOREM NeverParks == WSpec => []NothingToWaitFor
<1>1. WindowInv => NothingToWaitFor
  BY DEF WindowInv, SafeUntilIncident, SharedInv, NothingToWaitFor
<1>2. QED
  BY <1>1, WindowAlways, PTL
=============================================================================
