------------------------ MODULE MountLifecycle_proofs ------------------------
(***************************************************************************)
(* What MountLifecycle guarantees for any number of operations and timers. *)
(* The inductive invariant has three parts: the types, who holds the mount *)
(* lock while a mount or an unmount is under way, and who will close the   *)
(* status that is published.                                               *)
(***************************************************************************)
EXTENDS MountLifecycle, FiniteSetTheorems, TLAPS

\* An operation points at an object only while it is about to use it: one that
\* is about to allocate points at none.
PointerInv == \A o \in Ops :
    /\ ctr[o] # None <=> pc[o] \in {"add", "decAdd"}
    /\ waiting[o] # None <=> pc[o] = "blocked"

\* Whoever is inside mountLoopFile or unmountMountPoint holds the lock ...
LockInv ==
    /\ \A o \in Ops : pc[o] \in {"check", "mount"} => mountLock = o
    /\ \A t \in Timers : timer[t] = "unmount" => mountLock = t
    /\ shutdown = "unmount" => mountLock = Main

\* ... so what isMounted saw still holds when the mount command runs.
MountInv ==
    /\ mounts <= 1
    /\ \A o \in Ops : pc[o] = "mount" => mounts = 0

\* A published status has its announcer still on the way to the signal.
StatusInv ==
    mountStatuses # None =>
        \E o \in Ops : pc[o] \in {"lock", "check", "mount", "signal"}

-----------------------------------------------------------------------------

\* Allocation never fails: with an object per user, one that points at none
\* finds an object nobody points at.
LEMMA FreeObject ==
    ASSUME NEW Users, NEW Objects, IsFiniteSet(Users), IsFiniteSet(Objects),
           Cardinality(Objects) >= Cardinality(Users), None \notin Objects,
           NEW ptr, NEW o \in Users, ptr[o] = None
    PROVE  \E a \in Objects : \A p \in Users : ptr[p] # a
<1> DEFINE Others == Users \ {o}
           user == [a \in Objects |-> CHOOSE p \in Others : ptr[p] = a]
<1>1. SUFFICES ASSUME \A a \in Objects : \E p \in Users : ptr[p] = a
               PROVE  FALSE
  OBVIOUS
<1>2. \A a \in Objects : \E p \in Others : ptr[p] = a
  BY <1>1
<1>3. user \in [Objects -> Others] /\ \A a \in Objects : ptr[user[a]] = a
  BY <1>2
<1>4. IsFiniteSet(Others) /\ Cardinality(Others) < Cardinality(Objects)
  <2>1. Cardinality(Users) \in Nat /\ Cardinality(Objects) \in Nat
    BY FS_CardinalityType
  <2>2. IsFiniteSet(Others) /\ Cardinality(Others) = Cardinality(Users) - 1
    BY FS_RemoveElement
  <2>3. QED
    BY <2>1, <2>2
<1>5. \E a, b \in Objects : a # b /\ user[a] = user[b]
  <2> HIDE DEF user, Others
  <2>1. QED
    BY <1>3, <1>4, FS_PigeonHole
<1>6. QED
  BY <1>3, <1>5

LEMMA FreeAddr ==
    ASSUME NEW ptr, NEW o \in Ops, ptr[o] = None
    PROVE  \E a \in Addrs : \A p \in Ops : ptr[p] # a
  BY FreeObject, EnoughAddrs, DistinctNames

LEMMA FreshCounterType ==
    ASSUME NEW o \in Ops, ctr[o] = None
    PROVE  FreshCounter \in Addrs
  BY FreeAddr DEF FreshCounter

LEMMA FreshStatusType ==
    ASSUME NEW o \in Ops, waiting[o] = None
    PROVE  FreshStatus \in Addrs
  BY FreeAddr DEF FreshStatus

LEMMA StoppedType ==
    ASSUME ObjectsOK, NEW t
    PROVE  /\ stopped(t) \in [Timers -> TimerSteps]
           /\ \A u \in Timers : stopped(t)[u] # timer[u] =>
                  stopped(t)[u] = "unused"
  BY DEF ObjectsOK, stopped, TimerSteps

-----------------------------------------------------------------------------

TypeInv == ObjectsOK /\ PointerInv

LEMMA InitTypeInv == Init => TypeInv
  BY DEF Init, TypeInv, ObjectsOK, PointerInv, OpSteps, TimerSteps,
         ShutdownSteps, Holders

LEMMA IncrementTypeInv ==
    ASSUME TypeInv, NEW o \in Ops, Increment(o)
    PROVE  TypeInv'
<1> USE DEF TypeInv, ObjectsOK, PointerInv, refVars, statusVars, timerVars, mountVars
<1>1. CASE Begin(o)
  BY <1>1 DEF Begin, Step, OpSteps
<1>2. CASE stopMountTimer(o)
  BY <1>2, StoppedType DEF stopMountTimer, Step, OpSteps
<1>3. CASE getOrCreateRefCount(o)
  <2>1. ctr[o] = None /\ FreshCounter \in Addrs
    BY <1>3, FreshCounterType DEF getOrCreateRefCount, Step
  <2>2. QED
    BY <1>3, <2>1, DistinctNames DEF getOrCreateRefCount, Step, OpSteps
<1>4. CASE AddRef(o)
  BY <1>4, DistinctNames DEF AddRef, Step, OpSteps
<1>5. CASE AnnounceMount(o)
  <2>1. waiting[o] = None /\ FreshStatus \in Addrs
    BY <1>5, FreshStatusType DEF AnnounceMount, Step
  <2>2. QED
    BY <1>5, <2>1 DEF AnnounceMount, Step, OpSteps
<1>6. QED
  BY <1>1, <1>2, <1>3, <1>4, <1>5 DEF Increment

LEMMA MountTypeInv ==
    ASSUME TypeInv, NEW o \in Ops, mountLoopFile(o)
    PROVE  TypeInv'
<1> USE DEF TypeInv, ObjectsOK, PointerInv, refVars, statusVars, timerVars,
            mountVars, Step, OpSteps, Acquire, Release, Holders
<1>1. CASE LockMount(o)
  BY <1>1 DEF LockMount
<1>2. CASE AlreadyMounted(o) \/ MkdirFails(o)
  BY <1>2 DEF MkdirFails, AlreadyMounted
<1>3. CASE NotMounted(o)
  BY <1>3 DEF NotMounted
<1>4. CASE mountCommand(o)
  BY <1>4 DEF mountCommand
<1>5. CASE signalMountReady(o)
  BY <1>5 DEF signalMountReady
<1>6. QED
  BY <1>1, <1>2, <1>3, <1>4, <1>5 DEF mountLoopFile

LEMMA WaitTypeInv ==
    ASSUME TypeInv, NEW o \in Ops, waitForMountReady(o) \/ Callback(o)
    PROVE  TypeInv'
<1> USE DEF TypeInv, ObjectsOK, PointerInv, refVars, statusVars, timerVars,
            mountVars, Step, OpSteps
<1>1. CASE NoStatus(o)
  BY <1>1 DEF NoStatus
<1>2. CASE ReadStatus(o)
  BY <1>2 DEF ReadStatus
<1>3. CASE StatusDone(o)
  <2>1. status[waiting[o]] # "open" /\ pc[o] = "blocked"
    BY <1>3 DEF StatusDone
  <2>2. result' \in [Ops -> {"ok", "err"}]
    BY <1>3, <2>1 DEF StatusDone
  <2>3. QED
    BY <1>3, <2>2 DEF StatusDone
<1>4. CASE OpenFile(o) \/ CloseFile(o) \/ UsePath(o)
  BY <1>4 DEF OpenFile, CloseFile, UsePath
<1>5. QED
  BY <1>1, <1>2, <1>3, <1>4 DEF waitForMountReady, Callback

LEMMA DecrementTypeInv ==
    ASSUME TypeInv, NEW o \in Ops, Decrement(o)
    PROVE  TypeInv'
<1> USE DEF TypeInv, ObjectsOK, PointerInv, refVars, statusVars, timerVars,
            mountVars, Step, OpSteps
<1>1. CASE LoadRef(o)
  BY <1>1 DEF LoadRef
<1>2. CASE DropRef(o)
  BY <1>2, DistinctNames DEF DropRef
<1>3. CASE DeleteCounter(o)
  BY <1>3 DEF DeleteCounter
<1>4. CASE scheduleUnmount(o)
  BY <1>4, StoppedType DEF scheduleUnmount, TimerSteps
<1>5. CASE Return(o)
  BY <1>5 DEF Return
<1>6. QED
  BY <1>1, <1>2, <1>3, <1>4, <1>5 DEF Decrement

LEMMA TimerTypeInv ==
    ASSUME TypeInv, NEW t \in Timers, handleMountTimeout(t)
    PROVE  TypeInv'
<1> USE DEF TypeInv, ObjectsOK, PointerInv, refVars, statusVars, timerVars,
            mountVars, TimerStep, TimerSteps, Acquire, Release, Holders
<1>1. CASE Fire(t)
  BY <1>1 DEF Fire
<1>2. CASE checkRefCount(t)
  BY <1>2 DEF checkRefCount
<1>3. CASE clearTimerEntry(t)
  BY <1>3 DEF clearTimerEntry
<1>4. CASE timerLock(t)
  BY <1>4 DEF timerLock
<1>5. CASE timerUnmount(t)
  BY <1>5 DEF timerUnmount, umount, isMounted
<1>6. QED
  BY <1>1, <1>2, <1>3, <1>4, <1>5 DEF handleMountTimeout

LEMMA ShutdownTypeInv ==
    ASSUME TypeInv, UnmountAll
    PROVE  TypeInv'
<1> USE DEF TypeInv, ObjectsOK, PointerInv, refVars, statusVars, timerVars,
            mountVars, ShutdownStep, ShutdownSteps, Acquire, Release, Holders
<1>1. CASE Drained
  BY <1>1 DEF Drained
<1>2. CASE collectRefs
  BY <1>2 DEF collectRefs
<1>3. CASE collectTimers
  BY <1>3, StoppedType DEF collectTimers
<1>4. CASE shutdownLock
  BY <1>4 DEF shutdownLock
<1>5. CASE shutdownUnmount
  BY <1>5 DEF shutdownUnmount, umount, isMounted
<1>6. QED
  BY <1>1, <1>2, <1>3, <1>4, <1>5 DEF UnmountAll

LEMMA NextTypeInv == TypeInv /\ [Next]_vars => TypeInv'
<1> SUFFICES ASSUME TypeInv, [Next]_vars
             PROVE  TypeInv'
  OBVIOUS
<1>1. CASE UNCHANGED vars
  BY <1>1 DEF TypeInv, ObjectsOK, PointerInv, vars, refVars, statusVars,
              timerVars, mountVars
<1>2. ASSUME NEW o \in Ops, Operation(o)
      PROVE  TypeInv'
  BY <1>2, IncrementTypeInv, MountTypeInv, WaitTypeInv, DecrementTypeInv
  DEF Operation
<1>3. QED
  BY <1>1, <1>2, TimerTypeInv, ShutdownTypeInv DEF Next, Exited

\* The mount lock is kept, or taken free, or given back by its holder.
LockKept(p) ==
    \/ mountLock' = mountLock
    \/ mountLock = None /\ mountLock' = p
    \/ mountLock = p /\ mountLock' = None

LEMMA LockMoves == [Next]_vars => \E p \in Holders : LockKept(p)
<1> SUFFICES ASSUME [Next]_vars
             PROVE  \E p \in Holders : LockKept(p)
  OBVIOUS
<1> USE DEF LockKept, Holders, mountVars, Acquire, Release
<1>1. ASSUME NEW o \in Ops, Operation(o)
      PROVE  LockKept(o)
  <2>1. CASE Increment(o) \/ waitForMountReady(o) \/ Callback(o) \/ Decrement(o)
    BY <2>1 DEF Increment, Begin, stopMountTimer, getOrCreateRefCount, AddRef,
       AnnounceMount, waitForMountReady, NoStatus, ReadStatus, StatusDone, Callback,
       OpenFile, CloseFile, UsePath, Decrement, LoadRef, DropRef, DeleteCounter,
       scheduleUnmount, Return
  <2>2. CASE mountLoopFile(o)
    BY <2>2 DEF mountLoopFile, LockMount, MkdirFails, AlreadyMounted, NotMounted,
       mountCommand,
       signalMountReady
  <2>3. QED
    BY <1>1, <2>1, <2>2 DEF Operation
<1>2. ASSUME NEW t \in Timers, handleMountTimeout(t)
      PROVE  LockKept(t)
  BY <1>2 DEF handleMountTimeout, Fire, checkRefCount, clearTimerEntry, timerLock,
     timerUnmount, umount
<1>3. ASSUME UnmountAll \/ UNCHANGED vars
      PROVE  LockKept(Main)
  BY <1>3 DEF UnmountAll, Drained, collectRefs, collectTimers, shutdownLock,
     shutdownUnmount, umount, vars
<1>4. QED
  BY <1>1, <1>2, <1>3 DEF Next, Exited

\* Every variable keeps its type, for any number of goroutines: in particular
\* the file systems stacked on the mount point never go below zero, and an
\* object is only ever looked up under an address that exists.
THEOREM TypeCorrect == Spec => []TypeOK
<1> DEFINE LockTyped == mountLock \in Holders \cup {None}
<1>1. Init => LockTyped
  BY DEF Init
<1>2. LockTyped /\ [Next]_vars => LockTyped'
  BY LockMoves DEF LockKept
<1>3. TypeInv /\ LockTyped => TypeOK
  BY DEF TypeInv, TypeOK
<1> HIDE DEF LockTyped
<1>4. QED
  BY <1>1, <1>2, <1>3, InitTypeInv, NextTypeInv, PTL DEF Spec

-----------------------------------------------------------------------------
(* The references.                                                         *)

LEMMA ReferencingFinite ==
    /\ IsFiniteSet(Referencing) /\ Cardinality(Referencing) \in Nat
    /\ Cardinality(Referencing) = 0 <=> Referencing = {}
BY EnoughAddrs, FS_Subset, FS_CardinalityType, FS_EmptySet DEF Referencing

LEMMA OperationMoves ==
    ASSUME TypeInv, NEW o \in Ops, Operation(o)
    PROVE  /\ \E s \in OpSteps : pc' = [pc EXCEPT ![o] = s]
           /\ UNCHANGED shutdown
           /\ pc[o] = "idle" => shutdown = "serving"
<1> USE DEF Step, OpSteps, mountVars
<1>1. CASE Increment(o)
  BY <1>1 DEF Increment, Begin, stopMountTimer, getOrCreateRefCount, AddRef, AnnounceMount
<1>2. CASE mountLoopFile(o)
  BY <1>2 DEF mountLoopFile, LockMount, MkdirFails, AlreadyMounted, NotMounted,
     mountCommand,
     signalMountReady
<1>3. CASE waitForMountReady(o) \/ Callback(o)
  BY <1>3 DEF waitForMountReady, NoStatus, ReadStatus, StatusDone, Callback, OpenFile,
     CloseFile, UsePath
<1>4. CASE Decrement(o)
  BY <1>4 DEF Decrement, LoadRef, DropRef, DeleteCounter, scheduleUnmount, Return
<1>5. QED
  BY <1>1, <1>2, <1>3, <1>4 DEF Operation

\* The steps that neither touch the counter nor take or return a reference.
Plain(o) == \/ Begin(o) \/ stopMountTimer(o) \/ AnnounceMount(o) \/ mountLoopFile(o)
            \/ waitForMountReady(o) \/ Callback(o) \/ scheduleUnmount(o) \/ Return(o)

LEMMA PlainOrCounting ==
    ASSUME NEW o \in Ops, Operation(o)
    PROVE  \/ Plain(o) \/ getOrCreateRefCount(o) \/ AddRef(o) \/ LoadRef(o)
           \/ DropRef(o) \/ DeleteCounter(o)
BY DEF Operation, Increment, Decrement, Plain

LEMMA PlainStep ==
    ASSUME TypeInv, NEW o \in Ops, Plain(o)
    PROVE  /\ UNCHANGED refVars /\ Referencing' = Referencing
           /\ \A p \in Ops : pc'[p] = "decAdd" <=> pc[p] = "decAdd"
<1> USE DEF Step, RefSteps, refVars, OpSteps
<1>1. /\ UNCHANGED refVars
      /\ \E s \in OpSteps \ {"decAdd"} : /\ pc' = [pc EXCEPT ![o] = s]
                                         /\ s \in RefSteps <=> pc[o] \in RefSteps
      /\ pc[o] # "decAdd"
  <2>1. CASE Begin(o) \/ stopMountTimer(o) \/ AnnounceMount(o)
    BY <2>1 DEF Begin, stopMountTimer, AnnounceMount
  <2>2. CASE mountLoopFile(o)
    BY <2>2 DEF mountLoopFile, LockMount, MkdirFails, AlreadyMounted, NotMounted,
       mountCommand,
       signalMountReady
  <2>3. CASE waitForMountReady(o) \/ Callback(o)
    BY <2>3 DEF waitForMountReady, NoStatus, ReadStatus, StatusDone, Callback,
       OpenFile, CloseFile, UsePath
  <2>4. CASE scheduleUnmount(o) \/ Return(o)
    BY <2>4 DEF scheduleUnmount, Return
  <2>5. QED
    BY <2>1, <2>2, <2>3, <2>4 DEF Plain
<1>2. QED
  BY <1>1 DEF Referencing, TypeInv, ObjectsOK

-----------------------------------------------------------------------------

SafeInv == LockInv /\ MountInv

LEMMA InitSafeInv == Init => SafeInv
  BY DEF Init, SafeInv, LockInv, MountInv

\* Steps that touch neither the lock nor the mount, and that do not bring a
\* goroutine into the section the lock protects.
LEMMA QuietOperation ==
    ASSUME TypeInv, SafeInv, NEW o \in Ops,
           Increment(o) \/ waitForMountReady(o) \/ Callback(o) \/ Decrement(o)
               \/ signalMountReady(o)
    PROVE  SafeInv'
<1> DEFINE Quiet == /\ UNCHANGED <<mountLock, mounts, shutdown>>
                    /\ \E s \in OpSteps \ {"check", "mount"} :
                           pc' = [pc EXCEPT ![o] = s]
                    /\ \A t \in Timers : timer'[t] = "unmount" => timer[t] = "unmount"
<1> USE DEF mountVars, timerVars, Step, OpSteps
<1>1. CASE Increment(o)
  <2>1. CASE stopMountTimer(o)
    <3>1. timer' = stopped(mountTimers) /\ UNCHANGED <<mountLock, mounts, shutdown>>
      BY <2>1 DEF stopMountTimer
    <3>2. pc' = [pc EXCEPT ![o] = "load"]
      BY <2>1 DEF stopMountTimer
    <3>3. \A t \in Timers : timer'[t] = "unmount" => timer[t] = "unmount"
      BY <3>1, StoppedType DEF TypeInv
    <3>4. Quiet
      BY <3>1, <3>2, <3>3
    <3>5. QED
      BY <3>4 DEF SafeInv, LockInv, MountInv, TypeInv, ObjectsOK
  <2>2. CASE Begin(o) \/ getOrCreateRefCount(o) \/ AddRef(o) \/ AnnounceMount(o)
    <3>1. Quiet
      BY <2>2 DEF Begin, getOrCreateRefCount, AddRef, AnnounceMount
    <3>2. QED
      BY <3>1 DEF SafeInv, LockInv, MountInv, TypeInv, ObjectsOK
  <2>3. QED
    BY <1>1, <2>1, <2>2 DEF Increment
<1>2. CASE waitForMountReady(o) \/ Callback(o) \/ signalMountReady(o)
  <2>1. Quiet
    BY <1>2 DEF waitForMountReady, NoStatus, ReadStatus, StatusDone, Callback,
                OpenFile, CloseFile, UsePath, signalMountReady
  <2>2. QED
    BY <2>1 DEF SafeInv, LockInv, MountInv, TypeInv, ObjectsOK
<1>3. CASE Decrement(o)
  <2>1. CASE scheduleUnmount(o)
    <3>1. PICK u \in Timers : timer' = [stopped(mountTimers) EXCEPT ![u] = "armed"]
      BY <2>1 DEF scheduleUnmount
    <3>2. \A t \in Timers : timer'[t] = "unmount" => timer[t] = "unmount"
      BY <3>1, StoppedType DEF TypeInv
    <3>3. Quiet
      BY <2>1, <3>2 DEF scheduleUnmount
    <3>4. QED
      BY <3>3 DEF SafeInv, LockInv, MountInv, TypeInv, ObjectsOK
  <2>2. CASE LoadRef(o) \/ DropRef(o) \/ DeleteCounter(o) \/ Return(o)
    <3>1. Quiet
      BY <2>2 DEF LoadRef, DropRef, DeleteCounter, Return
    <3>2. QED
      BY <3>1 DEF SafeInv, LockInv, MountInv, TypeInv, ObjectsOK
  <2>3. QED
    BY <1>3, <2>1, <2>2 DEF Decrement
<1>4. QED
  BY <1>1, <1>2, <1>3

\* Entering the section needs the lock free, so nobody else is inside;
\* leaving it gives the lock back.
LEMMA MountOperation ==
    ASSUME TypeInv, SafeInv, NEW o \in Ops,
           LockMount(o) \/ AlreadyMounted(o) \/ MkdirFails(o) \/ NotMounted(o)
           \/ mountCommand(o)
    PROVE  SafeInv'
<1> USE DistinctNames DEF SafeInv, LockInv, MountInv, TypeInv, ObjectsOK, Holders,
            mountVars, timerVars, Step, OpSteps, Acquire, Release, isMounted
<1>1. CASE LockMount(o)
  BY <1>1 DEF LockMount
<1>2. CASE AlreadyMounted(o) \/ MkdirFails(o)
  BY <1>2 DEF MkdirFails, AlreadyMounted
<1>3. CASE NotMounted(o)
  BY <1>3 DEF NotMounted
<1>4. CASE mountCommand(o)
  BY <1>4 DEF mountCommand
<1>5. QED
  BY <1>1, <1>2, <1>3, <1>4

LEMMA TimerSafe ==
    ASSUME TypeInv, SafeInv, NEW t \in Timers, handleMountTimeout(t)
    PROVE  SafeInv'
<1> USE DistinctNames DEF SafeInv, LockInv, MountInv, TypeInv, ObjectsOK, Holders,
            mountVars, TimerStep, TimerSteps, Acquire, Release, isMounted
<1>1. CASE Fire(t) \/ checkRefCount(t) \/ clearTimerEntry(t)
  BY <1>1 DEF Fire, checkRefCount, clearTimerEntry
<1>2. CASE timerLock(t)
  BY <1>2 DEF timerLock
<1>3. CASE timerUnmount(t)
  BY <1>3 DEF timerUnmount, umount
<1>4. QED
  BY <1>1, <1>2, <1>3 DEF handleMountTimeout

LEMMA ShutdownSafe ==
    ASSUME TypeInv, SafeInv, UnmountAll
    PROVE  SafeInv'
<1> USE DistinctNames DEF SafeInv, LockInv, MountInv, TypeInv, ObjectsOK, Holders,
            mountVars, timerVars, ShutdownStep, ShutdownSteps, Acquire,
            Release, isMounted
<1>1. CASE Drained \/ collectRefs
  BY <1>1 DEF Drained, collectRefs
<1>2. CASE collectTimers
  BY <1>2, StoppedType DEF collectTimers
<1>3. CASE shutdownLock
  BY <1>3 DEF shutdownLock
<1>4. CASE shutdownUnmount
  BY <1>4 DEF shutdownUnmount, umount
<1>5. QED
  BY <1>1, <1>2, <1>3, <1>4 DEF UnmountAll

LEMMA NextSafeInv == TypeInv /\ SafeInv /\ [Next]_vars => SafeInv'
<1> SUFFICES ASSUME TypeInv, SafeInv, [Next]_vars
             PROVE  SafeInv'
  OBVIOUS
<1>1. CASE UNCHANGED vars
  BY <1>1 DEF SafeInv, LockInv, MountInv, vars, mountVars, timerVars
<1>2. ASSUME NEW o \in Ops, Operation(o)
      PROVE  SafeInv'
  BY <1>2, QuietOperation, MountOperation DEF Operation, mountLoopFile
<1>3. QED
  BY <1>1, <1>2, TimerSafe, ShutdownSafe DEF Next, Exited

\* The image is never mounted on top of itself: for any number of operations,
\* idle timers and a shutdown, the check of isMounted and the mount command
\* are one critical section of the mount lock.
THEOREM MountedOnce == Spec => []SingleMount
<1>1. Spec => [](TypeInv /\ SafeInv)
  BY InitTypeInv, NextTypeInv, InitSafeInv, NextSafeInv, PTL DEF Spec
<1>2. TypeInv /\ SafeInv => SingleMount
  BY DEF SafeInv, MountInv, SingleMount
<1>3. QED
  BY <1>1, <1>2, PTL

\* Who holds the lock is between its Lock and its Unlock.
HeldInside ==
    /\ mountLock \in Holders \cup {None}
    /\ \A o \in Ops : mountLock = o => pc[o] \in {"check", "mount"}
    /\ \A t \in Timers : mountLock = t => timer[t] = "unmount"
    /\ mountLock = Main => shutdown = "unmount"

\* The steps of an operation outside mountLoopFile's section.
LEMMA OutsideSection ==
    ASSUME TypeInv, NEW o \in Ops, Operation(o),
           ~(LockMount(o) \/ AlreadyMounted(o) \/ MkdirFails(o) \/ NotMounted(o)
           \/ mountCommand(o))
    PROVE  /\ UNCHANGED <<mountLock, shutdown>> /\ pc[o] \notin {"check", "mount"}
           /\ \A p \in Ops \ {o} : pc'[p] = pc[p]
           /\ \A t \in Timers : timer[t] = "unmount" => timer'[t] = "unmount"
<1> USE DEF Step, mountVars, timerVars
<1>1. CASE stopMountTimer(o)
  BY <1>1 DEF stopMountTimer, stopped, TypeInv, ObjectsOK
<1>2. CASE scheduleUnmount(o)
  <2>1. PICK u \in Timers : /\ stopped(mountTimers)[u] = "unused"
                            /\ timer' = [stopped(mountTimers) EXCEPT ![u] = "armed"]
    BY <1>2 DEF scheduleUnmount
  <2>2. \A t \in Timers : timer[t] = "unmount" => stopped(mountTimers)[t] = "unmount"
    BY DEF stopped, TypeInv, ObjectsOK
  <2>3. stopped(mountTimers) \in [Timers -> TimerSteps]
    BY StoppedType DEF TypeInv
  <2>4. \A t \in Timers : timer[t] = "unmount" => timer'[t] = "unmount"
    BY <2>1, <2>2, <2>3
  <2>5. QED
    BY <1>2, <2>4 DEF scheduleUnmount, TypeInv, ObjectsOK
<1>3. CASE ~(stopMountTimer(o) \/ scheduleUnmount(o))
  BY <1>3 DEF Operation, Increment, Begin, getOrCreateRefCount, AddRef, AnnounceMount,
     mountLoopFile, signalMountReady, waitForMountReady, NoStatus, ReadStatus, StatusDone,
     Callback, OpenFile, CloseFile, UsePath, Decrement, LoadRef, DropRef, DeleteCounter,
     Return, TypeInv, ObjectsOK
<1>4. QED
  BY <1>1, <1>2, <1>3

LEMMA NextHeldInside == TypeInv /\ SafeInv /\ HeldInside /\ [Next]_vars => HeldInside'
<1> SUFFICES ASSUME TypeInv, SafeInv, HeldInside, [Next]_vars
             PROVE  HeldInside'
  OBVIOUS
<1> USE DistinctNames DEF HeldInside, Holders, TypeInv, ObjectsOK, mountVars, timerVars,
            Acquire, Release
<1>1. ASSUME NEW o \in Ops, Operation(o) PROVE HeldInside'
  <2>1. CASE LockMount(o)
    BY <2>1 DEF LockMount, Step
  <2>2. CASE AlreadyMounted(o) \/ MkdirFails(o)
    BY <2>2 DEF MkdirFails, AlreadyMounted, Step
  <2>3. CASE NotMounted(o)
    BY <2>3 DEF NotMounted, Step
  <2>4. CASE mountCommand(o)
    BY <2>4 DEF mountCommand, Step
  <2>5. CASE ~(LockMount(o) \/ AlreadyMounted(o) \/ MkdirFails(o) \/ NotMounted(o)
             \/ mountCommand(o))
    <3>1. /\ UNCHANGED <<mountLock, shutdown>> /\ pc[o] \notin {"check", "mount"}
          /\ \A p \in Ops \ {o} : pc'[p] = pc[p]
          /\ \A t \in Timers : timer[t] = "unmount" => timer'[t] = "unmount"
      BY <1>1, <2>5, OutsideSection
    <3>2. QED
      BY <3>1
  <2>6. QED
    BY <2>1, <2>2, <2>3, <2>4, <2>5
<1>2. ASSUME NEW t \in Timers, handleMountTimeout(t) PROVE HeldInside'
  <2> USE DEF TimerStep
  <2>1. CASE Fire(t) \/ checkRefCount(t) \/ clearTimerEntry(t)
    BY <2>1 DEF Fire, checkRefCount, clearTimerEntry
  <2>2. CASE timerLock(t)
    BY <2>2 DEF timerLock
  <2>3. CASE timerUnmount(t)
    BY <2>3 DEF timerUnmount, umount
  <2>4. QED
    BY <1>2, <2>1, <2>2, <2>3 DEF handleMountTimeout
<1>3. CASE UnmountAll
  <2> USE DEF ShutdownStep
  <2>1. CASE Drained \/ collectRefs
    BY <2>1 DEF Drained, collectRefs
  <2>2. CASE collectTimers
    <3>1. \A t \in Timers : timer[t] = "unmount" => timer'[t] = "unmount"
      BY <2>2 DEF collectTimers, stopped
    <3>2. QED
      BY <2>2, <3>1 DEF collectTimers
  <2>3. CASE shutdownLock
    BY <2>3 DEF shutdownLock
  <2>4. CASE shutdownUnmount
    BY <2>4 DEF shutdownUnmount, umount
  <2>5. QED
    BY <1>3, <2>1, <2>2, <2>3, <2>4 DEF UnmountAll
<1>4. CASE UNCHANGED vars
  BY <1>4 DEF vars
<1>5. QED
  BY <1>1, <1>2, <1>3, <1>4 DEF Next, Exited

\* No path through mountLoopFile, an idle timer or UnmountAll leaves the mount
\* lock taken, early returns and failed commands included: whoever holds it is
\* inside the section that gives it back.
THEOREM LockIsGivenBack == Spec => []HeldInside
<1>1. Init => HeldInside
  BY DistinctNames DEF Init, HeldInside, Holders
<1>2. QED
  BY <1>1, InitTypeInv, NextTypeInv, InitSafeInv, NextSafeInv, NextHeldInside, PTL DEF Spec

-----------------------------------------------------------------------------

\* An announcer stays on its way until its own signal empties the map.
LEMMA NextStatusInv == TypeInv /\ StatusInv /\ [Next]_vars => StatusInv'
<1> SUFFICES ASSUME TypeInv, StatusInv, [Next]_vars, mountStatuses' # None
             PROVE  \E p \in Ops : pc'[p] \in {"lock", "check", "mount", "signal"}
  BY DEF StatusInv
<1> USE DEF statusVars, Step, TypeInv, ObjectsOK
<1>1. CASE UNCHANGED <<pc, mountStatuses>>
  BY <1>1 DEF StatusInv
<1>2. ASSUME NEW o \in Ops, Operation(o)
      PROVE  \E p \in Ops : pc'[p] \in {"lock", "check", "mount", "signal"}
  <2>1. CASE AnnounceMount(o)
    BY <2>1 DEF AnnounceMount
  <2>2. CASE LockMount(o) \/ AlreadyMounted(o) \/ MkdirFails(o) \/ NotMounted(o)
             \/ mountCommand(o)
    BY <2>2 DEF LockMount, MkdirFails, AlreadyMounted, NotMounted, mountCommand
  <2>3. CASE signalMountReady(o)
    BY <2>3 DEF signalMountReady
  <2>4. ASSUME /\ mountStatuses' = mountStatuses
               /\ pc[o] \notin {"lock", "check", "mount", "signal"}
               /\ \E s \in OpSteps : pc' = [pc EXCEPT ![o] = s]
        PROVE  \E p \in Ops : pc'[p] \in {"lock", "check", "mount", "signal"}
    BY <2>4 DEF StatusInv
  <2>5. CASE Begin(o) \/ stopMountTimer(o) \/ getOrCreateRefCount(o) \/ AddRef(o)
    BY <2>4, <2>5 DEF Begin, stopMountTimer, getOrCreateRefCount, AddRef, OpSteps
  <2>6. CASE waitForMountReady(o) \/ Callback(o)
    BY <2>4, <2>6 DEF waitForMountReady, NoStatus, ReadStatus, StatusDone,
       Callback, OpenFile, CloseFile, UsePath, OpSteps
  <2>7. CASE Decrement(o)
    BY <2>4, <2>7 DEF Decrement, LoadRef, DropRef, DeleteCounter,
       scheduleUnmount, Return, OpSteps
  <2>8. QED
    BY <1>2, <2>1, <2>2, <2>3, <2>5, <2>6, <2>7
    DEF Operation, Increment, mountLoopFile
<1>3. ASSUME NEW t \in Timers, handleMountTimeout(t)
      PROVE  UNCHANGED <<pc, mountStatuses>>
  BY <1>3 DEF handleMountTimeout, Fire, checkRefCount, clearTimerEntry,
     timerLock, timerUnmount
<1>4. ASSUME UnmountAll
      PROVE  UNCHANGED <<pc, mountStatuses>>
  BY <1>4 DEF UnmountAll, Drained, collectRefs, collectTimers, shutdownLock,
     shutdownUnmount
<1>5. CASE UNCHANGED vars
  BY <1>1, <1>5 DEF vars
<1>6. QED
  BY <1>1, <1>2, <1>3, <1>4, <1>5 DEF Next, Exited

\* No status outlives the operations: whatever mix of first references,
\* overwritten statuses and failed mounts occurred, the map is empty when the
\* last operation has returned, so a later one never waits for nobody.
THEOREM NoStatusLeftBehind == Spec => []IdleLeavesNoStatus
<1>1. Init => StatusInv
  BY DEF Init, StatusInv
<1>2. Spec => [](TypeInv /\ StatusInv)
  BY <1>1, InitTypeInv, NextTypeInv, NextStatusInv, PTL DEF Spec
<1>3. StatusInv => IdleLeavesNoStatus
  BY DEF StatusInv, IdleLeavesNoStatus
<1>4. QED
  BY <1>2, <1>3, PTL

-----------------------------------------------------------------------------
(* What the counter says at least: it can lose references, but not invent  *)
(* one that nobody returns.                                                *)

\* An operation that returns its reference to a counter no longer in the map
\* does not count.
Counted == {o \in Referencing : pc[o] = "decAdd" => ctr[o] = refCounts}

CountBound == getCurrentRefCount <= Cardinality(Counted)

LEMMA CountedFinite ==
    /\ IsFiniteSet(Counted) /\ Cardinality(Counted) \in Nat
    /\ Cardinality(Counted') \in Nat
<1>1. Counted \subseteq Ops /\ Counted' \subseteq Ops
  BY DEF Counted, Referencing
<1>2. QED
  BY <1>1, EnoughAddrs, FS_Subset, FS_CardinalityType

\* A counter that is not in the map, or not there at all, bounds nothing.
LEMMA NoCountBound == getCurrentRefCount = 0 => CountBound
BY CountedFinite DEF CountBound

LEMMA BoundFrame ==
    ASSUME CountBound, UNCHANGED refVars, Referencing' = Referencing,
           \A o \in Ops : pc'[o] = "decAdd" <=> pc[o] = "decAdd"
    PROVE  CountBound'
<1>1. Counted' = Counted
  BY DEF Counted, Referencing, refVars
<1>2. QED
  BY <1>1 DEF CountBound, getCurrentRefCount, refVars

LEMMA BoundLoad ==
    ASSUME TypeInv, CountBound, NEW o \in Ops, getOrCreateRefCount(o)
    PROVE  CountBound'
<1>1. /\ ctr[o] = None
      /\ Referencing' = Referencing /\ \A p \in Ops : pc'[p] = "decAdd" <=> pc[p] = "decAdd"
      /\ pc'[o] # "decAdd"
  BY DEF getOrCreateRefCount, Step, Referencing, RefSteps, TypeInv, ObjectsOK, PointerInv
<1>2. CASE refCounts # None
  <2>1. UNCHANGED <<refCounts, count>> /\ \A p \in Ops \ {o} : ctr'[p] = ctr[p]
    BY <1>2 DEF getOrCreateRefCount, TypeInv, ObjectsOK
  <2>2. Referencing \subseteq Ops
    BY DEF Referencing
  <2>3. Counted' = Counted
    BY <1>1, <2>1, <2>2 DEF Counted
  <2>4. QED
    BY <2>1, <2>3 DEF CountBound, getCurrentRefCount
<1>3. CASE refCounts = None
  <2>1. FreshCounter \in Addrs
    BY <1>1, FreshCounterType
  <2>2. refCounts' = FreshCounter /\ count'[FreshCounter] = 0
    BY <1>3, <2>1 DEF getOrCreateRefCount, TypeInv, ObjectsOK
  <2>3. getCurrentRefCount' = 0
    BY <2>2 DEF getCurrentRefCount
  <2>4. QED
    BY <2>3, CountedFinite DEF CountBound
<1>4. QED
  BY <1>2, <1>3

LEMMA BoundAdd ==
    ASSUME TypeInv, CountBound, NEW o \in Ops, AddRef(o)
    PROVE  CountBound'
<1>1. /\ pc[o] = "add" /\ ctr[o] \in Addrs
      /\ \E s \in {"announce", "status"} : pc' = [pc EXCEPT ![o] = s]
      /\ count' = [count EXCEPT ![ctr[o]] = @ + 1]
      /\ ctr' = [ctr EXCEPT ![o] = None]
      /\ UNCHANGED refCounts
  BY DEF AddRef, Step, TypeInv, ObjectsOK, PointerInv
<1>2. Counted' = Counted \cup {o} /\ o \notin Counted
  BY <1>1 DEF Counted, Referencing, RefSteps, TypeInv, ObjectsOK
<1>3. Cardinality(Counted') = Cardinality(Counted) + 1
  BY <1>2, CountedFinite, FS_AddElement
<1>4. getCurrentRefCount' \in {getCurrentRefCount, getCurrentRefCount + 1}
      /\ getCurrentRefCount \in Int
  BY <1>1 DEF getCurrentRefCount, TypeInv, ObjectsOK
<1>5. QED
  BY <1>3, <1>4, CountedFinite DEF CountBound

LEMMA BoundRelease ==
    ASSUME TypeInv, CountBound, NEW o \in Ops, LoadRef(o) \/ DropRef(o) \/ DeleteCounter(o)
    PROVE  CountBound'
<1> USE DEF Step, TypeInv, ObjectsOK
<1>1. Cardinality(Counted') \in Nat
  BY CountedFinite
<1>2. CASE LoadRef(o)
  <2>1. CASE refCounts = None
    <3>1. getCurrentRefCount' = 0
      BY <1>2, <2>1 DEF LoadRef, getCurrentRefCount
    <3>2. QED
      BY <1>1, <3>1 DEF CountBound
  <2>2. CASE refCounts # None
    <3>1. /\ UNCHANGED <<refCounts, count>>
          /\ pc[o] = "decLoad" /\ pc' = [pc EXCEPT ![o] = "decAdd"]
          /\ ctr' = [ctr EXCEPT ![o] = refCounts]
      BY <1>2, <2>2 DEF LoadRef
    <3>2. Counted' = Counted
      BY <3>1 DEF Counted, Referencing, RefSteps
    <3>3. QED
      BY <3>1, <3>2 DEF CountBound, getCurrentRefCount
  <2>3. QED
    BY <2>1, <2>2
<1>3. CASE DropRef(o)
  <2>1. /\ pc[o] = "decAdd" /\ ctr[o] \in Addrs
        /\ \E s \in {"delete", "return"} : pc' = [pc EXCEPT ![o] = s]
        /\ count' = [count EXCEPT ![ctr[o]] = @ - 1]
        /\ ctr' = [ctr EXCEPT ![o] = None]
        /\ UNCHANGED refCounts
    BY <1>3 DEF DropRef, PointerInv
  <2>2. Counted' = Counted \ {o} /\ (o \in Counted <=> ctr[o] = refCounts)
    BY <2>1 DEF Counted, Referencing, RefSteps
  <2>3. CASE ctr[o] = refCounts
    <3>1. Cardinality(Counted') = Cardinality(Counted) - 1
      BY <2>2, <2>3, CountedFinite, FS_RemoveElement
    <3>2. getCurrentRefCount' = getCurrentRefCount - 1 /\ getCurrentRefCount \in Int
      BY <2>1, <2>3, DistinctNames DEF getCurrentRefCount
    <3>3. QED
      BY <3>1, <3>2, CountedFinite DEF CountBound
  <2>4. CASE ctr[o] # refCounts
    <3>1. Counted' = Counted
      BY <2>2, <2>4
    <3>2. getCurrentRefCount' = getCurrentRefCount
      BY <2>1, <2>4 DEF getCurrentRefCount
    <3>3. QED
      BY <3>1, <3>2 DEF CountBound
  <2>5. QED
    BY <2>3, <2>4
<1>4. CASE DeleteCounter(o)
  <2>1. getCurrentRefCount' = 0
    BY <1>4 DEF DeleteCounter, getCurrentRefCount
  <2>2. QED
    BY <1>1, <2>1 DEF CountBound
<1>5. QED
  BY <1>2, <1>3, <1>4

LEMMA BoundOperation ==
    ASSUME TypeInv, CountBound, NEW o \in Ops, Operation(o)
    PROVE  CountBound'
BY PlainOrCounting, PlainStep, BoundFrame, BoundLoad, BoundAdd, BoundRelease

LEMMA BoundOutside ==
    ASSUME CountBound,
           (\E t \in Timers : handleMountTimeout(t)) \/ UnmountAll \/ UNCHANGED vars
    PROVE  CountBound'
<1>1. CASE collectRefs
  <2>1. UNCHANGED <<pc, ctr>> /\ refCounts' = None
    BY <1>1 DEF collectRefs
  <2>2. getCurrentRefCount' = 0
    BY <2>1 DEF getCurrentRefCount
  <2>3. QED
    BY <2>2, CountedFinite DEF CountBound
<1>2. CASE ~collectRefs
  <2>1. UNCHANGED <<pc, refVars>>
    BY <1>2 DEF handleMountTimeout, Fire, checkRefCount, clearTimerEntry, timerLock,
       timerUnmount, UnmountAll, Drained, collectTimers, shutdownLock, shutdownUnmount, vars
  <2>2. QED
    BY <2>1, BoundFrame DEF Referencing
<1>3. QED
  BY <1>1, <1>2

\* However adds, creations and deletions of counters overlap, lost counters
\* included: when every operation has returned, the counter in the map is not
\* positive, so it never keeps an idle timer from its unmount, nor a resize
\* waiting, for an operation that is gone.
THEOREM NoCountLeftBehind ==
    Spec => []((\A o \in Ops : pc[o] = "idle") => getCurrentRefCount <= 0)
<1>1. Init => CountBound
  BY NoCountBound DEF Init, getCurrentRefCount
<1>2. TypeInv /\ CountBound /\ [Next]_vars => CountBound'
  BY BoundOperation, BoundOutside DEF Next, Exited
<1>3. CountBound => ((\A o \in Ops : pc[o] = "idle") => getCurrentRefCount <= 0)
  <2> SUFFICES ASSUME CountBound, \A o \in Ops : pc[o] = "idle"
               PROVE  getCurrentRefCount <= 0
    OBVIOUS
  <2>1. Counted = {}
    BY DEF Counted, Referencing, RefSteps
  <2>2. QED
    BY <2>1, FS_EmptySet DEF CountBound
<1>4. QED
  BY <1>1, <1>2, <1>3, InitTypeInv, NextTypeInv, PTL DEF Spec
=============================================================================
