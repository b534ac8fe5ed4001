-------------------------- MODULE MountWindows_proofs --------------------------
(***************************************************************************)
(* The four windows of MountWindows are the complete list, for any number  *)
(* of operations and timers.  The proof goes in three layers, each on the  *)
(* one before: as long as no counter is lost the counter is exact; an      *)
(* exact counter lets one goroutine at a time mount and publish; and with  *)
(* one mounter and no window hit, whoever relies on the mount has it.      *)
(***************************************************************************)
EXTENDS MountWindows, MountLifecycle_proofs

AtMount == {"lock", "check", "mount", "signal"}

\* The shutdown begins when the last operation has returned.
QuietShutdown == shutdown # "serving" => \A o \in Ops : pc[o] = "idle"

\* A loaded counter is the one in the map, and that one counts the references.
Exact ==
    /\ \A o \in Ops : ctr[o] # None => ctr[o] = refCounts
    /\ getCurrentRefCount = Cardinality(Referencing)

CountInv == QuietShutdown /\ ("CounterLost" \notin windows => Exact)

-----------------------------------------------------------------------------
(* The shutdown.                                                           *)

LEMMA QuietStep == TypeInv /\ QuietShutdown /\ [Next]_vars => QuietShutdown'
<1> SUFFICES ASSUME TypeInv, QuietShutdown, [Next]_vars PROVE QuietShutdown'
  OBVIOUS
<1>1. ASSUME NEW o \in Ops, Operation(o) PROVE QuietShutdown'
  BY <1>1, OperationMoves DEF QuietShutdown
<1>2. ASSUME NEW t \in Timers, handleMountTimeout(t) PROVE UNCHANGED <<pc, shutdown>>
  BY <1>2 DEF handleMountTimeout, Fire, checkRefCount, clearTimerEntry, timerLock,
     timerUnmount
<1>3. CASE UnmountAll
  <2>1. UNCHANGED pc /\ (shutdown # "serving" \/ \A o \in Ops : pc[o] = "idle")
    BY <1>3 DEF UnmountAll, Drained, collectRefs, collectTimers, shutdownLock,
       shutdownUnmount, ShutdownStep
  <2>2. QED
    BY <2>1 DEF QuietShutdown
<1>4. CASE UNCHANGED vars
  BY <1>4 DEF QuietShutdown, vars
<1>5. QED
  BY <1>1, <1>2, <1>3, <1>4 DEF Next, Exited, QuietShutdown

-----------------------------------------------------------------------------
(* The counter.                                                            *)

LEMMA ExactFrame ==
    ASSUME Exact, UNCHANGED refVars, Referencing' = Referencing
    PROVE  Exact'
BY DEF Exact, refVars, getCurrentRefCount

LEMMA ExactElsewhere ==
    ASSUME TypeInv, Exact, NEW o \in Ops, Plain(o)
    PROVE  Exact'
BY PlainStep, ExactFrame

LEMMA ExactLoad ==
    ASSUME TypeInv, Exact, NEW o \in Ops, getOrCreateRefCount(o)
    PROVE  Exact'
<1>1. Referencing' = Referencing /\ ctr[o] = None
  BY DEF getOrCreateRefCount, Step, Referencing, RefSteps, TypeInv, ObjectsOK, PointerInv
<1>2. CASE refCounts # None
  BY <1>1, <1>2 DEF getOrCreateRefCount, Exact, getCurrentRefCount, TypeInv, ObjectsOK
<1>3. CASE refCounts = None
  <2>1. FreshCounter \in Addrs /\ FreshCounter # None
    BY <1>1, FreshCounterType, DistinctNames
  <2>2. /\ refCounts' = FreshCounter /\ count'[FreshCounter] = 0
        /\ ctr'[o] = FreshCounter
        /\ \A p \in Ops \ {o} : ctr'[p] = ctr[p]
    BY <1>3, <2>1 DEF getOrCreateRefCount, TypeInv, ObjectsOK
  <2>3. \A p \in Ops : ctr[p] = None
    BY <1>3 DEF Exact
  <2>4. getCurrentRefCount = 0 /\ getCurrentRefCount' = 0
    BY <1>3, <2>1, <2>2 DEF getCurrentRefCount
  <2>5. QED
    BY <1>1, <2>2, <2>3, <2>4 DEF Exact
<1>4. QED
  BY <1>2, <1>3

LEMMA ExactAdd ==
    ASSUME TypeInv, Exact, NEW o \in Ops, AddRef(o)
    PROVE  /\ Exact'
           /\ pc'[o] = IF Referencing = {} THEN "announce" ELSE "status"
           /\ \A p \in Ops \ {o} : pc'[p] = pc[p]
<1>1. /\ ctr[o] = refCounts /\ refCounts \in Addrs /\ refCounts # None
      /\ pc[o] = "add"
  BY DistinctNames DEF AddRef, Step, TypeInv, ObjectsOK, PointerInv, Exact
<1>2. /\ count'[refCounts] = count[refCounts] + 1
      /\ UNCHANGED refCounts
      /\ ctr' = [ctr EXCEPT ![o] = None]
      /\ pc' = [pc EXCEPT ![o] = IF count[refCounts] = 0 THEN "announce" ELSE "status"]
  BY <1>1 DEF AddRef, Step, TypeInv, ObjectsOK
<1>3. count[refCounts] = Cardinality(Referencing)
  BY <1>1 DEF Exact, getCurrentRefCount
<1>4. Referencing' = Referencing \cup {o} /\ o \notin Referencing
  BY <1>1, <1>2 DEF Referencing, RefSteps, TypeInv, ObjectsOK
<1>5. Cardinality(Referencing') = Cardinality(Referencing) + 1
  BY <1>4, ReferencingFinite, FS_AddElement
<1>6. getCurrentRefCount' = Cardinality(Referencing')
  BY <1>1, <1>2, <1>3, <1>5 DEF getCurrentRefCount
<1>7. \A p \in Ops : ctr'[p] # None => ctr'[p] = refCounts'
  BY <1>2 DEF Exact, TypeInv, ObjectsOK
<1>8. /\ pc'[o] = IF Referencing = {} THEN "announce" ELSE "status"
      /\ \A p \in Ops \ {o} : pc'[p] = pc[p]
  BY <1>2, <1>3, ReferencingFinite DEF TypeInv, ObjectsOK
<1>9. QED
  BY <1>6, <1>7, <1>8 DEF Exact

LEMMA ExactRelease ==
    ASSUME TypeInv, Exact, NEW o \in Ops, LoadRef(o) \/ DropRef(o)
    PROVE  Exact'
<1>1. CASE LoadRef(o)
  <2>1. o \in Referencing
    BY <1>1 DEF LoadRef, Step, Referencing, RefSteps
  <2>2. refCounts # None
    BY <2>1, ReferencingFinite DEF Exact, getCurrentRefCount
  <2>3. Referencing' = Referencing
    BY <1>1, <2>2 DEF LoadRef, Step, Referencing, RefSteps, TypeInv, ObjectsOK
  <2>4. QED
    BY <1>1, <2>3 DEF LoadRef, Exact, getCurrentRefCount, TypeInv, ObjectsOK
<1>2. CASE DropRef(o)
  <2>1. /\ ctr[o] = refCounts /\ refCounts \in Addrs /\ refCounts # None
        /\ pc[o] = "decAdd"
    BY <1>2, DistinctNames DEF DropRef, Step, TypeInv, ObjectsOK, PointerInv, Exact
  <2>2. /\ count'[refCounts] = count[refCounts] - 1
        /\ UNCHANGED refCounts
        /\ ctr' = [ctr EXCEPT ![o] = None]
        /\ \E s \in {"delete", "return"} : pc' = [pc EXCEPT ![o] = s]
    BY <1>2, <2>1 DEF DropRef, Step, TypeInv, ObjectsOK
  <2>3. Referencing' = Referencing \ {o} /\ o \in Referencing
    BY <2>1, <2>2 DEF Referencing, RefSteps, TypeInv, ObjectsOK
  <2>4. Cardinality(Referencing') = Cardinality(Referencing) - 1
    BY <2>3, ReferencingFinite, FS_RemoveElement
  <2>5. getCurrentRefCount' = Cardinality(Referencing')
    BY <2>1, <2>2, <2>4 DEF Exact, getCurrentRefCount
  <2>6. QED
    BY <2>2, <2>5 DEF Exact, TypeInv, ObjectsOK
<1>3. QED
  BY <1>1, <1>2

\* The deletion is harmless when the counter it drops is zero and unloaded.
LEMMA ExactDelete ==
    ASSUME TypeInv, Exact, NEW o \in Ops, DeleteCounter(o), ~CounterLost
    PROVE  Exact'
<1>1. /\ pc[o] = "delete" /\ pc'[o] = "schedule"
      /\ UNCHANGED <<ctr, count>> /\ refCounts' = None
      /\ Referencing' = Referencing
  BY DEF DeleteCounter, Step, Referencing, RefSteps, TypeInv, ObjectsOK
<1>2. refCounts # None => count[refCounts] = 0 /\ \A p \in Ops : ctr[p] # refCounts
  BY <1>1 DEF CounterLost
<1>3. getCurrentRefCount = 0 /\ getCurrentRefCount' = 0
  BY <1>1, <1>2 DEF getCurrentRefCount
<1>4. \A p \in Ops : ctr[p] = None
  BY <1>2 DEF Exact
<1>5. QED
  BY <1>1, <1>3, <1>4 DEF Exact

LEMMA ExactTimers ==
    ASSUME Exact, NEW t \in Timers, handleMountTimeout(t)
    PROVE  Exact'
<1>1. UNCHANGED <<pc, refVars>>
  BY DEF handleMountTimeout, Fire, checkRefCount, clearTimerEntry, timerLock,
     timerUnmount
<1>2. QED
  BY <1>1, ExactFrame DEF Referencing

LEMMA ExactShutdown ==
    ASSUME TypeInv, QuietShutdown, Exact, UnmountAll
    PROVE  Exact'
<1>1. CASE collectRefs
  <2>1. /\ UNCHANGED <<pc, ctr>> /\ refCounts' = None
        /\ \A o \in Ops : pc[o] = "idle"
    BY <1>1 DEF collectRefs, ShutdownStep, QuietShutdown
  <2>2. Referencing' = {} /\ \A o \in Ops : ctr[o] = None
    BY <2>1 DEF Referencing, RefSteps, TypeInv, PointerInv
  <2>3. getCurrentRefCount' = 0
    BY <2>1 DEF getCurrentRefCount
  <2>4. QED
    BY <2>1, <2>2, <2>3, FS_EmptySet DEF Exact
<1>2. CASE ~collectRefs
  <2>1. UNCHANGED <<pc, refVars>>
    BY <1>2 DEF UnmountAll, Drained, collectTimers, shutdownLock, shutdownUnmount
  <2>2. QED
    BY <2>1, ExactFrame DEF Referencing
<1>3. QED
  BY <1>1, <1>2

LEMMA ExactStep ==
    ASSUME TypeInv, QuietShutdown, Exact, [Next]_vars, ~CounterLost
    PROVE  Exact'
<1>1. ASSUME NEW o \in Ops, Operation(o) PROVE Exact'
  BY <1>1, PlainOrCounting, ExactElsewhere, ExactLoad, ExactAdd, ExactRelease, ExactDelete
<1>2. CASE UNCHANGED vars
  <2>1. UNCHANGED <<pc, refVars>>
    BY <1>2 DEF vars
  <2>2. QED
    BY <2>1, ExactFrame DEF Referencing
<1>3. QED
  BY <1>1, <1>2, ExactTimers, ExactShutdown DEF Next, Exited

LEMMA WindowsGrow ==
    ASSUME [WNext]_<<vars, windows>>
    PROVE  /\ [Next]_vars
           /\ windows \subseteq windows'
           /\ ~UNCHANGED vars => Hit \subseteq windows'
BY DEF WNext

LEMMA CountInit == WInit => TypeInv /\ CountInv
<1> SUFFICES ASSUME WInit PROVE TypeInv /\ CountInv
  OBVIOUS
<1>1. TypeInv
  BY InitTypeInv DEF WInit
<1>2. /\ \A o \in Ops : pc[o] = "idle" /\ ctr[o] = None
      /\ shutdown = "serving" /\ refCounts = None
  BY DEF WInit, Init
<1>3. Referencing = {} /\ getCurrentRefCount = 0
  BY <1>2 DEF Referencing, RefSteps, getCurrentRefCount
<1>4. QED
  BY <1>1, <1>2, <1>3, FS_EmptySet DEF CountInv, QuietShutdown, Exact

LEMMA CountNext ==
    TypeInv /\ CountInv /\ [WNext]_<<vars, windows>> => TypeInv' /\ CountInv'
<1> SUFFICES ASSUME TypeInv, CountInv, [WNext]_<<vars, windows>>
             PROVE  TypeInv' /\ CountInv'
  OBVIOUS
<1>1. [Next]_vars
  BY WindowsGrow
<1>2. TypeInv' /\ QuietShutdown'
  BY <1>1, NextTypeInv, QuietStep DEF CountInv
<1>3. ASSUME "CounterLost" \notin windows' PROVE Exact'
  <2>1. Exact
    BY <1>3, WindowsGrow DEF CountInv
  <2>2. CASE UNCHANGED vars
    <3>1. UNCHANGED <<pc, refVars>>
      BY <2>2 DEF vars
    <3>2. QED
      BY <2>1, <3>1, ExactFrame DEF Referencing
  <2>3. CASE ~UNCHANGED vars
    <3>1. ~CounterLost
      BY <1>3, <2>3, WindowsGrow DEF Hit
    <3>2. QED
      BY <1>1, <2>1, <3>1, ExactStep DEF CountInv
  <2>4. QED
    BY <2>2, <2>3
<1>4. QED
  BY <1>2, <1>3 DEF CountInv

\* For any number of operations: until decrementRefCount deletes a counter that
\* is in use, the counter in the map is exactly the number of operations
\* between incrementRefCount and decrementRefCount, whatever adds, creations
\* and deletions overlapped.
THEOREM CountExact == WSpec => []CountIsExact
<1>1. CountInv => CountIsExact
  BY DEF CountInv, Exact, CountIsExact
<1>2. QED
  BY <1>1, CountInit, CountNext, PTL DEF WSpec

-----------------------------------------------------------------------------
(* One mounter at a time.                                                  *)

Mounter(o) == pc[o] \in AtMount \cup {"announce"}

\* The signal that closes a status takes it out of the map.
Published == mountStatuses # None => status[mountStatuses] = "open"

\* The mounter's status stays in the map until its own signal, and who waits
\* on an open status waits on that one.
Orderly ==
    /\ \A p, q \in Ops : Mounter(p) /\ Mounter(q) => p = q
    /\ \A o \in Ops : pc[o] \in AtMount => mountStatuses # None
    /\ \A o \in Ops : pc[o] = "blocked" /\ status[waiting[o]] = "open" =>
           mountStatuses = waiting[o]

MounterInv ==
    /\ Published /\ StatusInv
    /\ "CounterLost" \notin windows => Orderly

LEMMA PublishedStep == TypeInv /\ Published /\ [Next]_vars => Published'
<1> SUFFICES ASSUME TypeInv, Published, [Next]_vars PROVE Published'
  OBVIOUS
<1>1. CASE UNCHANGED <<mountStatuses, status>>
  BY <1>1 DEF Published
<1>2. ASSUME NEW o \in Ops, Operation(o) PROVE Published'
  <2> USE DEF statusVars
  <2>1. CASE AnnounceMount(o)
    <3>1. FreshStatus \in Addrs
      BY <2>1, FreshStatusType DEF AnnounceMount, Step, TypeInv, PointerInv
    <3>2. QED
      BY <2>1, <3>1 DEF AnnounceMount, Published, TypeInv, ObjectsOK
  <2>2. CASE signalMountReady(o)
    BY <2>2 DEF signalMountReady, Published
  <2>3. CASE \/ Begin(o) \/ stopMountTimer(o) \/ getOrCreateRefCount(o) \/ AddRef(o)
             \/ LockMount(o) \/ AlreadyMounted(o) \/ MkdirFails(o) \/ NotMounted(o)
             \/ mountCommand(o)
    BY <1>1, <2>3 DEF Begin, stopMountTimer, getOrCreateRefCount, AddRef, LockMount,
       MkdirFails, AlreadyMounted, NotMounted, mountCommand
  <2>4. CASE waitForMountReady(o) \/ Callback(o) \/ Decrement(o)
    BY <1>1, <2>4 DEF waitForMountReady, NoStatus, ReadStatus, StatusDone, Callback,
       OpenFile, CloseFile, UsePath, Decrement, LoadRef, DropRef, DeleteCounter,
       scheduleUnmount, Return
  <2>5. QED
    BY <1>2, <2>1, <2>2, <2>3, <2>4 DEF Operation, Increment, mountLoopFile
<1>3. ASSUME NEW t \in Timers, handleMountTimeout(t) PROVE UNCHANGED statusVars
  BY <1>3 DEF handleMountTimeout, Fire, checkRefCount, clearTimerEntry, timerLock,
     timerUnmount
<1>4. ASSUME UnmountAll PROVE UNCHANGED statusVars
  BY <1>4 DEF UnmountAll, Drained, collectRefs, collectTimers, shutdownLock,
     shutdownUnmount
<1>5. QED
  BY <1>1, <1>2, <1>3, <1>4 DEF Next, Exited, vars, statusVars

\* Steps that publish nothing, wait for nothing and make no mounter.
LEMMA OrderlyFrame ==
    ASSUME TypeInv, Orderly, UNCHANGED <<mountStatuses, status, waiting>>,
           \A o \in Ops :
              \/ pc'[o] = pc[o]
              \/ pc'[o] \notin AtMount \cup {"announce", "blocked"}
              \/ pc[o] \in AtMount /\ pc'[o] \in AtMount
    PROVE  Orderly'
<1>1. \A o \in Ops : /\ Mounter(o)' => Mounter(o)
                     /\ pc'[o] \in AtMount => pc[o] \in AtMount
                     /\ pc'[o] = "blocked" => pc[o] = "blocked"
  BY DEF Mounter, AtMount
<1>2. QED
  BY <1>1 DEF Orderly

LEMMA OrderlyElsewhere ==
    ASSUME TypeInv, Orderly, NEW o \in Ops,
           \/ Begin(o) \/ stopMountTimer(o) \/ getOrCreateRefCount(o)
           \/ LockMount(o) \/ AlreadyMounted(o) \/ MkdirFails(o) \/ NotMounted(o)
           \/ mountCommand(o)
           \/ NoStatus(o) \/ Callback(o) \/ Decrement(o)
    PROVE  Orderly'
<1> USE DEF Step, statusVars, AtMount
<1>1. UNCHANGED <<mountStatuses, status, waiting>>
  BY DEF Begin, stopMountTimer, getOrCreateRefCount, LockMount, MkdirFails, AlreadyMounted,
     NotMounted, mountCommand, NoStatus, Callback, OpenFile, CloseFile, UsePath,
     Decrement, LoadRef, DropRef, DeleteCounter, scheduleUnmount, Return
<1>2. \A p \in Ops \ {o} : pc'[p] = pc[p]
  BY OperationMoves DEF Operation, Increment, mountLoopFile, waitForMountReady,
     TypeInv, ObjectsOK
<1>3. \/ pc'[o] \notin AtMount \cup {"announce", "blocked"}
      \/ pc[o] \in AtMount /\ pc'[o] \in AtMount
  <2>1. CASE LockMount(o) \/ AlreadyMounted(o) \/ MkdirFails(o) \/ NotMounted(o)
             \/ mountCommand(o)
    BY <2>1 DEF LockMount, MkdirFails, AlreadyMounted, NotMounted, mountCommand,
       TypeInv, ObjectsOK
  <2>2. CASE Begin(o) \/ stopMountTimer(o) \/ getOrCreateRefCount(o) \/ NoStatus(o)
    BY <2>2 DEF Begin, stopMountTimer, getOrCreateRefCount, NoStatus, TypeInv, ObjectsOK
  <2>3. CASE Callback(o) \/ Decrement(o)
    BY <2>3 DEF Callback, OpenFile, CloseFile, UsePath, Decrement, LoadRef, DropRef,
       DeleteCounter, scheduleUnmount, Return, TypeInv, ObjectsOK
  <2>4. QED
    BY <2>1, <2>2, <2>3
<1>4. QED
  BY <1>1, <1>2, <1>3, OrderlyFrame

\* Only a reference taken when there was none makes a mounter.
LEMMA OrderlyAdd ==
    ASSUME TypeInv, Exact, Orderly, NEW o \in Ops, AddRef(o)
    PROVE  Orderly'
<1>1. /\ UNCHANGED <<mountStatuses, status, waiting>>
      /\ pc'[o] = IF Referencing = {} THEN "announce" ELSE "status"
      /\ \A p \in Ops \ {o} : pc'[p] = pc[p]
  BY ExactAdd DEF AddRef, statusVars
<1>2. Referencing = {} => \A p \in Ops : ~Mounter(p)
  BY DEF Referencing, RefSteps, Mounter, AtMount
<1>3. QED
  BY <1>1, <1>2 DEF Orderly, Mounter, AtMount

\* Nobody waits on an open status while the mounter has not published its own.
LEMMA OrderlyAnnounce ==
    ASSUME TypeInv, StatusInv, Published, Orderly, NEW o \in Ops, AnnounceMount(o)
    PROVE  Orderly'
<1>1. /\ pc[o] = "announce" /\ pc' = [pc EXCEPT ![o] = "lock"]
      /\ UNCHANGED waiting
  BY DEF AnnounceMount, Step
<1>2. waiting[o] = None
  BY <1>1 DEF TypeInv, PointerInv
<1>3. FreshStatus \in Addrs /\ FreshStatus # None
  BY <1>2, FreshStatusType, DistinctNames
<1>4. \A p \in Ops : waiting[p] # FreshStatus
  BY <1>2, FreeAddr DEF FreshStatus
<1>5. mountStatuses' = FreshStatus /\ status' = [status EXCEPT ![FreshStatus] = "open"]
  BY DEF AnnounceMount
<1>6. \A p \in Ops : pc[p] \notin AtMount
  BY <1>1 DEF Orderly, Mounter, AtMount
<1>7. \A p \in Ops : pc[p] = "blocked" => status[waiting[p]] # "open"
  <2>1. mountStatuses = None
    BY <1>6 DEF StatusInv, AtMount
  <2>2. QED
    BY <2>1 DEF Orderly, TypeInv, PointerInv
<1>8. \A p \in Ops : pc'[p] = "blocked" => status'[waiting'[p]] # "open"
  BY <1>1, <1>4, <1>5, <1>7 DEF TypeInv, ObjectsOK, PointerInv
<1>9. \A p \in Ops : Mounter(p)' => Mounter(p)
  BY <1>1 DEF Mounter, AtMount, TypeInv, ObjectsOK
<1>10. QED
  BY <1>3, <1>5, <1>8, <1>9 DEF Orderly

\* The signal reaches everyone who waits.
LEMMA OrderlySignal ==
    ASSUME TypeInv, Orderly, NEW o \in Ops, signalMountReady(o)
    PROVE  Orderly'
<1>1. /\ pc[o] = "signal" /\ mountStatuses' = None
      /\ \E s \in {"body", "decLoad"} : pc' = [pc EXCEPT ![o] = s]
      /\ UNCHANGED <<waiting, result>>
      /\ mountStatuses # None => status' = [status EXCEPT ![mountStatuses] = result[o]]
  BY DEF signalMountReady, Step
<1>2. mountStatuses # None
  BY <1>1 DEF Orderly, AtMount
<1>3. result[o] # "open"
  BY DEF TypeInv, ObjectsOK
<1>4. \A p \in Ops : pc'[p] = "blocked" => status'[waiting'[p]] # "open"
  BY <1>1, <1>2, <1>3 DEF Orderly, TypeInv, ObjectsOK, PointerInv
<1>5. \A p \in Ops : pc'[p] \notin AtMount
  BY <1>1 DEF Orderly, Mounter, AtMount, TypeInv, ObjectsOK
<1>6. \A p \in Ops : Mounter(p)' => Mounter(p)
  BY <1>1 DEF Mounter, AtMount, TypeInv, ObjectsOK
<1>7. QED
  BY <1>4, <1>5, <1>6 DEF Orderly

LEMMA OrderlyWait ==
    ASSUME TypeInv, Orderly, NEW o \in Ops, ReadStatus(o) \/ StatusDone(o)
    PROVE  Orderly'
<1>1. UNCHANGED <<mountStatuses, status>> /\ \A p \in Ops \ {o} : waiting'[p] = waiting[p]
  BY DEF ReadStatus, StatusDone, TypeInv, ObjectsOK
<1>2. \E s \in {"blocked", "body", "decLoad"} : pc' = [pc EXCEPT ![o] = s]
  BY DEF ReadStatus, StatusDone, Step
<1>3. pc'[o] = "blocked" => waiting'[o] = mountStatuses
  BY DEF ReadStatus, StatusDone, Step, TypeInv, ObjectsOK
<1>4. \A p \in Ops : /\ Mounter(p)' => Mounter(p)
                     /\ pc'[p] \in AtMount => pc[p] \in AtMount
  BY <1>2 DEF Mounter, AtMount, TypeInv, ObjectsOK
<1>5. \A p \in Ops \ {o} : pc'[p] = pc[p]
  BY <1>2 DEF TypeInv, ObjectsOK
<1>6. QED
  BY <1>1, <1>3, <1>4, <1>5 DEF Orderly

LEMMA OrderlyStep ==
    ASSUME TypeInv, StatusInv, Published, Exact, Orderly, [Next]_vars
    PROVE  Orderly'
<1>1. ASSUME NEW o \in Ops, Operation(o) PROVE Orderly'
  BY <1>1, OrderlyElsewhere, OrderlyAdd, OrderlyAnnounce, OrderlySignal, OrderlyWait
  DEF Operation, Increment, mountLoopFile, waitForMountReady
<1>2. ASSUME UNCHANGED <<pc, statusVars>> PROVE Orderly'
  BY <1>2, OrderlyFrame DEF statusVars
<1>3. ASSUME NEW t \in Timers, handleMountTimeout(t) PROVE UNCHANGED <<pc, statusVars>>
  BY <1>3 DEF handleMountTimeout, Fire, checkRefCount, clearTimerEntry, timerLock,
     timerUnmount
<1>4. ASSUME UnmountAll PROVE UNCHANGED <<pc, statusVars>>
  BY <1>4 DEF UnmountAll, Drained, collectRefs, collectTimers, shutdownLock,
     shutdownUnmount
<1>5. ASSUME UNCHANGED vars PROVE UNCHANGED <<pc, statusVars>>
  BY <1>5 DEF vars
<1>6. QED
  BY <1>1, <1>2, <1>3, <1>4, <1>5 DEF Next, Exited

LEMMA MounterInit == WInit => MounterInv
BY DEF WInit, Init, MounterInv, Published, StatusInv, Orderly, Mounter, AtMount

LEMMA MounterNext ==
    TypeInv /\ CountInv /\ MounterInv /\ [WNext]_<<vars, windows>> => MounterInv'
<1> SUFFICES ASSUME TypeInv, CountInv, MounterInv, [WNext]_<<vars, windows>>
             PROVE  MounterInv'
  OBVIOUS
<1>1. [Next]_vars
  BY WindowsGrow
<1>2. Published' /\ StatusInv'
  BY <1>1, PublishedStep, NextStatusInv DEF MounterInv
<1>3. ASSUME "CounterLost" \notin windows' PROVE Orderly'
  <2>1. "CounterLost" \notin windows
    BY <1>3, WindowsGrow
  <2>2. QED
    BY <1>1, <2>1, OrderlyStep DEF CountInv, MounterInv
<1>4. QED
  BY <1>2, <1>3 DEF MounterInv

LEMMA InvWaiter == TypeInv /\ MounterInv => WaiterHasMounter
<1> SUFFICES ASSUME TypeInv, MounterInv, "CounterLost" \notin windows, NEW o \in Ops,
                    pc[o] = "blocked", status[waiting[o]] = "open"
             PROVE  /\ mountStatuses = waiting[o]
                    /\ \E p \in Ops : pc[p] \in {"lock", "check", "mount", "signal"}
  BY DEF WaiterHasMounter
<1>1. mountStatuses = waiting[o] /\ mountStatuses # None
  BY DEF MounterInv, Orderly, TypeInv, PointerInv
<1>2. QED
  BY <1>1 DEF MounterInv, StatusInv

\* Nobody waits for nobody: until a counter is lost, the status that a waiter
\* reads from is the one in the map, and a goroutine that will close it is
\* between the announcement and the signal, for any number of waiters.
THEOREM WaiterServed == WSpec => []WaiterHasMounter
BY CountInit, CountNext, MounterInit, MounterNext, InvWaiter, PTL DEF WSpec

-----------------------------------------------------------------------------
(* Who relies on the mount has it.                                         *)

\* The handler of this timer has found the counter at zero.
OnItsWay(t) == timer[t] \in {"clear", "lock", "unmount"}

\* No unmount is on its way while a reference is out ...
NoneOnItsWay == \A t \in Timers : OnItsWay(t) => Referencing = {}

\* ... and an operation that runs, or will run, its callback without looking
\* again relies on a mount that is there.
Relies(o) ==
    \/ pc[o] \in {"body", "open"}
    \/ pc[o] \in {"signal", "decLoad", "decAdd"} /\ result[o] = "ok"
    \/ pc[o] = "blocked" /\ status[waiting[o]] = "ok"
    \/ pc[o] = "status" /\ mountStatuses = None /\ \A p \in Ops : pc[p] # "announce"

Covered == \A o \in Ops : Relies(o) => isMounted

WindowInv == windows = {} => NoneOnItsWay /\ Covered

LEMMA OnlyAddJoins ==
    ASSUME TypeInv, NEW o \in Ops, Operation(o), pc[o] # "add"
    PROVE  /\ Referencing' \subseteq Referencing \cup {o}
           /\ pc'[o] \in RefSteps => pc[o] \in RefSteps
<1> USE DEF Step, RefSteps, TypeInv, ObjectsOK
<1>1. Referencing' \subseteq Referencing \cup {o}
  BY OperationMoves DEF Referencing, RefSteps
<1>2. pc'[o] \in RefSteps => pc[o] \in RefSteps
  <2>1. CASE Increment(o)
    BY <2>1 DEF Increment, Begin, stopMountTimer, getOrCreateRefCount, AddRef, AnnounceMount
  <2>2. CASE mountLoopFile(o)
    BY <2>2 DEF mountLoopFile, LockMount, MkdirFails, AlreadyMounted, NotMounted,
       mountCommand,
       signalMountReady
  <2>3. CASE waitForMountReady(o) \/ Callback(o)
    BY <2>3 DEF waitForMountReady, NoStatus, ReadStatus, StatusDone, Callback, OpenFile,
       CloseFile, UsePath
  <2>4. CASE Decrement(o)
    BY <2>4 DEF Decrement, LoadRef, DropRef, DeleteCounter, scheduleUnmount, Return
  <2>5. QED
    BY <2>1, <2>2, <2>3, <2>4 DEF Operation
<1>3. QED
  BY <1>1, <1>2

\* An operation sends no handler on its way: it stops timers and arms them.
LEMMA OperationArms ==
    ASSUME TypeInv, NEW o \in Ops, Operation(o)
    PROVE  \A t \in Timers : OnItsWay(t)' => OnItsWay(t)
<1>1. CASE stopMountTimer(o)
  BY <1>1, StoppedType DEF stopMountTimer, OnItsWay, TypeInv
<1>2. CASE scheduleUnmount(o)
  <2>1. PICK u \in Timers : timer' = [stopped(mountTimers) EXCEPT ![u] = "armed"]
    BY <1>2 DEF scheduleUnmount
  <2>2. QED
    BY <2>1, StoppedType DEF OnItsWay, TypeInv
<1>3. CASE Begin(o) \/ getOrCreateRefCount(o) \/ AddRef(o) \/ AnnounceMount(o)
  BY <1>3 DEF Begin, getOrCreateRefCount, AddRef, AnnounceMount, OnItsWay, timerVars
<1>4. CASE mountLoopFile(o) \/ waitForMountReady(o)
  BY <1>4 DEF mountLoopFile, LockMount, MkdirFails, AlreadyMounted, NotMounted,
     mountCommand,
     signalMountReady, waitForMountReady, NoStatus, ReadStatus, StatusDone, OnItsWay,
     timerVars
<1>5. CASE Callback(o) \/ LoadRef(o) \/ DropRef(o) \/ DeleteCounter(o) \/ Return(o)
  BY <1>5 DEF Callback, OpenFile, CloseFile, UsePath, LoadRef, DropRef, DeleteCounter,
     Return, OnItsWay, timerVars
<1>6. QED
  BY <1>1, <1>2, <1>3, <1>4, <1>5 DEF Operation, Increment, Decrement

LEMMA WayStep ==
    ASSUME TypeInv, Exact, NoneOnItsWay, [Next]_vars, ~UnmountOnItsWay
    PROVE  NoneOnItsWay'
<1>1. ASSUME NEW o \in Ops, Operation(o) PROVE NoneOnItsWay'
  <2>1. SUFFICES ASSUME NEW t \in Timers, OnItsWay(t) PROVE Referencing' = {}
    BY <1>1, OperationArms DEF NoneOnItsWay
  <2>2. Referencing = {}
    BY <2>1 DEF NoneOnItsWay
  <2>3. pc[o] # "add"
    <3>1. ASSUME pc[o] = "add" PROVE FALSE
      <4>1. AddRef(o)
        BY <1>1, <3>1 DEF Operation, Increment, Begin, stopMountTimer,
           getOrCreateRefCount, AnnounceMount, mountLoopFile, LockMount, MkdirFails,
           AlreadyMounted,
           NotMounted, mountCommand, signalMountReady, waitForMountReady, NoStatus,
           ReadStatus, StatusDone, Callback, OpenFile, CloseFile, UsePath, Decrement,
           LoadRef, DropRef, DeleteCounter, scheduleUnmount, Return, Step
      <4>2. pc'[o] # "add"
        BY <4>1 DEF AddRef, Step, TypeInv, ObjectsOK
      <4>3. QED
        BY <2>1, <3>1, <4>2 DEF UnmountOnItsWay, OnItsWay
    <3>2. QED
      BY <3>1
  <2>4. pc[o] \notin RefSteps
    BY <2>2 DEF Referencing, RefSteps
  <2>5. QED
    BY <1>1, <2>2, <2>3, <2>4, OnlyAddJoins DEF Referencing, RefSteps
<1>2. ASSUME NEW t \in Timers, handleMountTimeout(t) PROVE NoneOnItsWay'
  <2>1. UNCHANGED pc /\ \A u \in Timers \ {t} : timer'[u] = timer[u]
    BY <1>2 DEF handleMountTimeout, Fire, checkRefCount, clearTimerEntry, timerLock,
       timerUnmount, TimerStep, TypeInv, ObjectsOK
  <2>2. OnItsWay(t)' => Referencing = {}
    <3>1. CASE checkRefCount(t)
      <4>1. timer'[t] = IF getCurrentRefCount > 0 THEN "unused" ELSE "clear"
        BY <3>1 DEF checkRefCount, TimerStep, TypeInv, ObjectsOK
      <4>2. getCurrentRefCount <= 0 => Referencing = {}
        BY ReferencingFinite DEF Exact
      <4>3. getCurrentRefCount \in Nat
        BY ReferencingFinite DEF Exact
      <4>4. QED
        BY <4>1, <4>2, <4>3 DEF OnItsWay
    <3>2. CASE ~checkRefCount(t)
      <4>1. OnItsWay(t)' => OnItsWay(t)
        BY <1>2, <3>2 DEF handleMountTimeout, Fire, clearTimerEntry, timerLock,
           timerUnmount, TimerStep, OnItsWay, TypeInv, ObjectsOK
      <4>2. QED
        BY <4>1 DEF NoneOnItsWay
    <3>3. QED
      BY <3>1, <3>2
  <2>3. QED
    BY <2>1, <2>2 DEF NoneOnItsWay, OnItsWay, Referencing
<1>3. CASE UnmountAll \/ UNCHANGED vars
  <2>1. UNCHANGED pc
    BY <1>3 DEF UnmountAll, Drained, collectRefs, collectTimers, shutdownLock,
       shutdownUnmount, vars
  <2>2. \A t \in Timers : OnItsWay(t)' => OnItsWay(t)
    <3>1. CASE collectTimers
      BY <3>1, StoppedType DEF collectTimers, OnItsWay, TypeInv
    <3>2. CASE ~collectTimers
      BY <1>3, <3>2 DEF UnmountAll, Drained, collectRefs, shutdownLock, shutdownUnmount,
         vars, timerVars, OnItsWay
    <3>3. QED
      BY <3>1, <3>2
  <2>3. QED
    BY <2>1, <2>2 DEF NoneOnItsWay, Referencing
<1>4. QED
  BY <1>1, <1>2, <1>3 DEF Next, Exited

\* A step of one operation leaves the others as they are, and the mount.
LEMMA OthersUntouched ==
    ASSUME TypeInv, NEW o \in Ops, Operation(o)
    PROVE  /\ \A p \in Ops \ {o} : /\ pc'[p] = pc[p]
                                   /\ result'[p] = result[p]
                                   /\ waiting'[p] = waiting[p]
           /\ isMounted => isMounted'
<1> USE DEF statusVars, mountVars, Acquire, isMounted, TypeInv, ObjectsOK
<1>1. \A p \in Ops \ {o} : pc'[p] = pc[p]
  BY OperationMoves
<1>2. CASE Increment(o)
  BY <1>1, <1>2 DEF Increment, Begin, stopMountTimer, getOrCreateRefCount, AddRef,
     AnnounceMount
<1>3. CASE LockMount(o) \/ AlreadyMounted(o) \/ MkdirFails(o) \/ NotMounted(o)
           \/ signalMountReady(o)
  BY <1>1, <1>3 DEF LockMount, MkdirFails, AlreadyMounted, NotMounted, signalMountReady
<1>4. CASE mountCommand(o)
  BY <1>1, <1>4 DEF mountCommand
<1>5. CASE waitForMountReady(o) \/ Callback(o)
  BY <1>1, <1>5 DEF waitForMountReady, NoStatus, ReadStatus, StatusDone, Callback,
     OpenFile, CloseFile, UsePath
<1>6. CASE Decrement(o)
  BY <1>1, <1>6 DEF Decrement, LoadRef, DropRef, DeleteCounter, scheduleUnmount, Return
<1>7. QED
  BY <1>2, <1>3, <1>4, <1>5, <1>6 DEF Operation, mountLoopFile

\* So the others rely on the mount only if they did, as long as the published
\* status stays.
LEMMA OthersCovered ==
    ASSUME TypeInv, Covered, NEW o \in Ops, Operation(o),
           UNCHANGED <<mountStatuses, status>>,
           pc[o] # "announce" \/ pc'[o] = "announce",
           Relies(o)' => isMounted'
    PROVE  Covered'
<1>1. ASSUME NEW p \in Ops \ {o}, Relies(p)' PROVE Relies(p)
  BY <1>1, OthersUntouched DEF Relies
<1>2. QED
  BY <1>1, OthersUntouched DEF Covered

LEMMA CoveredBefore ==
    ASSUME TypeInv, Covered, NEW o \in Ops,
           Begin(o) \/ stopMountTimer(o) \/ getOrCreateRefCount(o) \/ LockMount(o)
               \/ AlreadyMounted(o) \/ MkdirFails(o) \/ NotMounted(o) \/ mountCommand(o)
    PROVE  Covered'
<1> USE DEF Step, TypeInv, ObjectsOK, statusVars, mountVars
<1>1. Operation(o)
  BY DEF Operation, Increment, mountLoopFile
<1>2. /\ UNCHANGED <<mountStatuses, status>>
      /\ pc[o] # "announce"
  BY DEF Begin, stopMountTimer, getOrCreateRefCount, LockMount, MkdirFails,
     AlreadyMounted, NotMounted, mountCommand
<1>3. Relies(o)' => isMounted'
  <2>1. CASE AlreadyMounted(o)
    BY <2>1 DEF AlreadyMounted, isMounted
  <2>2. CASE MkdirFails(o)
    <3>1. pc'[o] = "signal" /\ result'[o] = "err"
      BY <2>2 DEF MkdirFails
    <3>2. QED
      BY <3>1 DEF Relies
  <2>3. CASE mountCommand(o)
    <3>1. pc'[o] = "signal" /\ (result'[o] = "err" \/ mounts' = mounts + 1)
      BY <2>3 DEF mountCommand
    <3>2. QED
      BY <3>1 DEF Relies, isMounted
  <2>4. CASE Begin(o) \/ stopMountTimer(o) \/ getOrCreateRefCount(o) \/ LockMount(o)
             \/ NotMounted(o)
    <3>1. pc'[o] \in {"stopTimer", "load", "add", "check", "mount"}
      BY <2>4 DEF Begin, stopMountTimer, getOrCreateRefCount, LockMount, NotMounted
    <3>2. QED
      BY <3>1 DEF Relies
  <2>5. QED
    BY <2>1, <2>2, <2>3, <2>4
<1>4. QED
  BY <1>1, <1>2, <1>3, OthersCovered

\* A later reference finds no status: then one that was out before it relies on
\* the mount, or has failed and hit the window.
LEMMA CoveredAdd ==
    ASSUME TypeInv, Exact, Orderly, Covered, NEW o \in Ops, AddRef(o), ~FailureForgotten
    PROVE  Covered'
<1>1. /\ Operation(o) /\ pc[o] = "add"
      /\ UNCHANGED <<mountStatuses, status, result, waiting, mounts>>
  BY DEF Operation, Increment, AddRef, Step, statusVars, mountVars
<1>2. /\ pc'[o] = IF Referencing = {} THEN "announce" ELSE "status"
      /\ \A p \in Ops \ {o} : pc'[p] = pc[p]
  BY ExactAdd
<1>3. SUFFICES ASSUME Relies(o)' PROVE isMounted
  BY <1>1, OthersCovered DEF isMounted
<1>4. /\ Referencing # {} /\ mountStatuses = None /\ pc'[o] = "status"
      /\ \A p \in Ops : pc'[p] # "announce"
  BY <1>1, <1>2, <1>3 DEF Relies
<1>5. PICK p \in Referencing : p \in Ops /\ p # o
  BY <1>1, <1>4 DEF Referencing, RefSteps
<1>6. pc'[p] = pc[p] /\ result'[p] = result[p] /\ status'[waiting'[p]] = status[waiting[p]]
  BY <1>1, <1>2, <1>5
<1>7. pc[p] \in {"status", "blocked", "body", "open", "decLoad", "decAdd"}
  BY <1>4, <1>5, <1>6 DEF Referencing, RefSteps, Orderly, AtMount
<1>8. Relies(p)
  <2>1. CASE pc[p] \in {"body", "open"}
    BY <2>1 DEF Relies
  <2>2. CASE pc[p] = "status"
    <3>1. \A q \in Ops : pc[q] # "announce"
      BY <1>1, <1>2, <1>4
    <3>2. QED
      BY <1>4, <2>2, <3>1 DEF Relies
  <2>3. CASE pc[p] \in {"decLoad", "decAdd"}
    <3>1. result[p] # "err"
      BY <1>1, <1>4, <1>5, <1>6, <2>3 DEF FailureForgotten
    <3>2. QED
      BY <1>5, <2>3, <3>1 DEF Relies, TypeInv, ObjectsOK
  <2>4. CASE pc[p] = "blocked"
    <3>1. status[waiting[p]] # "err"
      BY <1>1, <1>4, <1>5, <1>6, <2>4 DEF FailureForgotten
    <3>2. waiting[p] \in Addrs /\ waiting[p] # None
      BY <1>5, <2>4 DEF TypeInv, ObjectsOK, PointerInv
    <3>3. status[waiting[p]] # "open"
      BY <1>4, <1>5, <2>4, <3>2 DEF Orderly
    <3>4. QED
      BY <2>4, <3>1, <3>2, <3>3 DEF Relies, TypeInv, ObjectsOK
  <2>5. QED
    BY <1>7, <2>1, <2>2, <2>3, <2>4
<1>9. QED
  BY <1>5, <1>8 DEF Covered

LEMMA CoveredAnnounce ==
    ASSUME TypeInv, Covered, NEW o \in Ops, AnnounceMount(o)
    PROVE  Covered'
<1>1. Operation(o) /\ pc[o] = "announce" /\ pc'[o] = "lock"
  BY DEF Operation, Increment, AnnounceMount, Step, TypeInv, ObjectsOK
<1>2. waiting[o] = None
  BY <1>1 DEF TypeInv, PointerInv
<1>3. FreshStatus # None
  BY <1>2, FreshStatusType, DistinctNames
<1>4. \A p \in Ops : waiting[p] # FreshStatus
  BY <1>2, FreeAddr DEF FreshStatus
<1>5. mountStatuses' = FreshStatus /\ status' = [status EXCEPT ![FreshStatus] = "open"]
  BY DEF AnnounceMount
<1>6. ASSUME NEW p \in Ops, Relies(p)' PROVE Relies(p)
  <2>1. p # o
    BY <1>1, <1>6 DEF Relies
  <2>2. /\ pc'[p] = pc[p] /\ result'[p] = result[p] /\ waiting'[p] = waiting[p]
        /\ pc'[p] # "status" \/ mountStatuses' # None
    BY <1>1, <1>3, <1>5, <2>1, OthersUntouched
  <2>3. pc[p] = "blocked" => status'[waiting[p]] = status[waiting[p]]
    BY <1>4, <1>5 DEF TypeInv, ObjectsOK, PointerInv
  <2>4. QED
    BY <1>3, <1>5, <1>6, <2>2, <2>3 DEF Relies
<1>7. QED
  BY <1>1, <1>6, OthersUntouched DEF Covered

\* The signal of a success is that of a mount; that of a failure leaves nobody
\* who would go on without looking, or hits the window.
LEMMA CoveredSignal ==
    ASSUME TypeInv, Orderly, Covered, NEW o \in Ops, signalMountReady(o),
           ~FailureForgotten
    PROVE  Covered'
<1>1. /\ Operation(o) /\ pc[o] = "signal" /\ mountStatuses' = None
      /\ pc'[o] = IF result[o] = "ok" THEN "body" ELSE "decLoad"
      /\ UNCHANGED <<result, waiting>>
      /\ mountStatuses # None => status' = [status EXCEPT ![mountStatuses] = result[o]]
  BY DEF Operation, mountLoopFile, signalMountReady, Step, TypeInv, ObjectsOK
<1>2. mountStatuses # None
  BY <1>1 DEF Orderly, AtMount
<1>3. isMounted => isMounted' /\ Covered'
  BY <1>1, OthersUntouched DEF Covered
<1>4. CASE result[o] = "ok"
  <2>1. Relies(o)
    BY <1>1, <1>4 DEF Relies
  <2>2. QED
    BY <1>3, <2>1 DEF Covered
<1>5. CASE result[o] # "ok"
  <2>1. result[o] = "err"
    BY <1>5 DEF TypeInv, ObjectsOK
  <2>2. ASSUME NEW p \in Ops, Relies(p)' PROVE Relies(p)
    <3>1. p # o
      BY <1>1, <2>1, <2>2 DEF Relies
    <3>2. pc'[p] = pc[p] /\ result'[p] = result[p] /\ waiting'[p] = waiting[p]
      BY <1>1, <3>1, OthersUntouched
    <3>3. pc'[p] # "status"
      BY <1>1, <2>1 DEF FailureForgotten
    <3>4. pc[p] = "blocked" /\ status'[waiting[p]] = "ok" => status[waiting[p]] = "ok"
      BY <1>1, <1>2, <2>1 DEF TypeInv, ObjectsOK, PointerInv
    <3>5. QED
      BY <2>2, <3>2, <3>3, <3>4 DEF Relies
  <2>3. QED
    BY <1>1, <2>2, OthersUntouched DEF Covered
<1>6. QED
  BY <1>4, <1>5

LEMMA CoveredWait ==
    ASSUME TypeInv, Published, Covered, NEW o \in Ops, waitForMountReady(o),
           ~StatusNotYetThere
    PROVE  Covered'
<1> USE DEF Step, TypeInv, ObjectsOK, statusVars
<1>1. /\ Operation(o) /\ pc[o] # "announce"
      /\ UNCHANGED <<mountStatuses, status>>
  BY DEF Operation, waitForMountReady, NoStatus, ReadStatus, StatusDone
<1>2. isMounted => isMounted'
  BY <1>1, OthersUntouched
<1>3. Relies(o)' => isMounted'
  <2>1. CASE NoStatus(o)
    <3>1. pc[o] = "status" /\ pc'[o] = "body" /\ mountStatuses = None
      BY <2>1 DEF NoStatus
    <3>2. \A p \in Ops : pc[p] # "announce"
      BY <3>1 DEF StatusNotYetThere
    <3>3. Relies(o)
      BY <3>1, <3>2 DEF Relies
    <3>4. QED
      BY <1>2, <3>3 DEF Covered
  <2>2. CASE ReadStatus(o)
    <3>1. /\ pc'[o] = "blocked" /\ waiting'[o] = mountStatuses
          /\ status'[mountStatuses] = "open"
      BY <1>1, <2>2 DEF ReadStatus, Published
    <3>2. QED
      BY <3>1 DEF Relies
  <2>3. CASE StatusDone(o)
    <3>1. /\ pc[o] = "blocked"
          /\ pc'[o] = IF status[waiting[o]] = "ok" THEN "body" ELSE "decLoad"
          /\ result'[o] = status[waiting[o]]
      BY <2>3 DEF StatusDone
    <3>2. Relies(o)' => Relies(o)
      BY <3>1 DEF Relies
    <3>3. QED
      BY <1>2, <3>2 DEF Covered
  <2>4. QED
    BY <2>1, <2>2, <2>3 DEF waitForMountReady
<1>4. QED
  BY <1>1, <1>3, OthersCovered

LEMMA CoveredAfter ==
    ASSUME TypeInv, Covered, NEW o \in Ops, Callback(o) \/ Decrement(o)
    PROVE  Covered'
<1> USE DEF Step, TypeInv, ObjectsOK, statusVars
<1>1. /\ Operation(o) /\ pc[o] # "announce"
      /\ UNCHANGED <<mountStatuses, status>>
  BY DEF Operation, Callback, OpenFile, CloseFile, UsePath, Decrement, LoadRef, DropRef,
     DeleteCounter, scheduleUnmount, Return
<1>2. Relies(o)' => Relies(o)
  <2>1. CASE Callback(o)
    <3>1. pc[o] \in {"body", "open"}
      BY <2>1 DEF Callback, OpenFile, CloseFile, UsePath
    <3>2. QED
      BY <3>1 DEF Relies
  <2>2. CASE LoadRef(o)
    <3>1. pc[o] = "decLoad" /\ pc'[o] \in {"decAdd", "return"} /\ result'[o] = result[o]
      BY <2>2 DEF LoadRef
    <3>2. QED
      BY <3>1 DEF Relies
  <2>3. CASE DropRef(o) \/ DeleteCounter(o) \/ scheduleUnmount(o) \/ Return(o)
    <3>1. pc'[o] \in {"delete", "schedule", "return", "idle"}
      BY <2>3 DEF DropRef, DeleteCounter, scheduleUnmount, Return
    <3>2. QED
      BY <3>1 DEF Relies
  <2>4. QED
    BY <2>1, <2>2, <2>3 DEF Decrement
<1>3. Relies(o)' => isMounted'
  BY <1>1, <1>2, OthersUntouched DEF Covered
<1>4. QED
  BY <1>1, <1>3, OthersCovered

\* Only an unmount takes the mount away, and none comes while somebody relies
\* on it: who relies holds a reference.
LEMMA ReliesReferencing == ASSUME NEW o \in Ops, Relies(o) PROVE o \in Referencing
BY DEF Relies, Referencing, RefSteps

LEMMA CoveredOutside ==
    ASSUME TypeInv, QuietShutdown, NoneOnItsWay, Covered,
           (\E t \in Timers : handleMountTimeout(t)) \/ UnmountAll \/ UNCHANGED vars
    PROVE  Covered'
<1>1. UNCHANGED <<pc, statusVars>>
  BY DEF handleMountTimeout, Fire, checkRefCount, clearTimerEntry, timerLock, timerUnmount,
     UnmountAll, Drained, collectRefs, collectTimers, shutdownLock, shutdownUnmount, vars
<1>2. \A o \in Ops : Relies(o)' => Relies(o)
  BY <1>1 DEF Relies, statusVars
<1>3. UNCHANGED mounts \/ Referencing = {}
  <2>1. ASSUME NEW t \in Timers, timerUnmount(t) PROVE Referencing = {}
    BY <2>1 DEF timerUnmount, TimerStep, NoneOnItsWay, OnItsWay
  <2>2. ASSUME shutdownUnmount PROVE Referencing = {}
    BY <2>2 DEF shutdownUnmount, ShutdownStep, QuietShutdown, Referencing, RefSteps
  <2>3. QED
    BY <2>1, <2>2 DEF handleMountTimeout, Fire, checkRefCount, clearTimerEntry, timerLock,
       UnmountAll, Drained, collectRefs, collectTimers, shutdownLock, vars, mountVars,
       Acquire
<1>4. QED
  BY <1>2, <1>3, ReliesReferencing DEF Covered, isMounted

LEMMA CoveredStep ==
    ASSUME TypeInv, QuietShutdown, Exact, Published, Orderly, NoneOnItsWay, Covered,
           [Next]_vars, ~StatusNotYetThere, ~FailureForgotten
    PROVE  Covered'
<1>1. ASSUME NEW o \in Ops, Operation(o) PROVE Covered'
  BY <1>1, CoveredBefore, CoveredAdd, CoveredAnnounce, CoveredSignal, CoveredWait,
     CoveredAfter
  DEF Operation, Increment, mountLoopFile
<1>2. QED
  BY <1>1, CoveredOutside DEF Next, Exited

LEMMA WindowInit == WInit => WindowInv
<1> SUFFICES ASSUME WInit PROVE NoneOnItsWay /\ Covered
  BY DEF WindowInv
<1>1. /\ \A o \in Ops : pc[o] = "idle"
      /\ \A t \in Timers : timer[t] = "unused"
  BY DEF WInit, Init
<1>2. QED
  BY <1>1 DEF NoneOnItsWay, OnItsWay, Covered, Relies

LEMMA WindowNext ==
    TypeInv /\ CountInv /\ MounterInv /\ WindowInv /\ [WNext]_<<vars, windows>>
    => WindowInv'
<1> SUFFICES ASSUME TypeInv, CountInv, MounterInv, WindowInv,
                    [WNext]_<<vars, windows>>, windows' = {}
             PROVE  NoneOnItsWay' /\ Covered'
  BY DEF WindowInv
<1>1. [Next]_vars /\ windows = {}
  BY WindowsGrow
<1>2. Exact /\ Orderly /\ NoneOnItsWay /\ Covered
  BY <1>1 DEF CountInv, MounterInv, WindowInv
<1>3. CASE UNCHANGED vars
  <2>1. Covered'
    BY <1>2, <1>3, CoveredOutside DEF CountInv
  <2>2. UNCHANGED <<pc, timer>>
    BY <1>3 DEF vars, timerVars
  <2>3. NoneOnItsWay'
    BY <1>2, <2>2 DEF NoneOnItsWay, OnItsWay, Referencing
  <2>4. QED
    BY <2>1, <2>3
<1>4. CASE ~UNCHANGED vars
  <2>1. Hit = {}
    BY <1>4, WindowsGrow
  <2>2. ~UnmountOnItsWay /\ ~StatusNotYetThere /\ ~FailureForgotten
    BY <2>1 DEF Hit
  <2>3. QED
    BY <1>1, <1>2, <2>2, WayStep, CoveredStep DEF CountInv, MounterInv
<1>5. QED
  BY <1>3, <1>4

LEMMA InvWindows == WindowInv => UnmountedOnlyThroughAWindow
BY DEF WindowInv, Covered, Relies, UnmountedOnlyThroughAWindow

\* The list of windows is complete: for any number of operations and timers and
\* with mounts that fail, a callback that runs without the image mounted has
\* gone through one of the four.  Closing them makes withMountedLoop's promise
\* true.
THEOREM WindowsAreAll == WSpec => []UnmountedOnlyThroughAWindow
BY CountInit, CountNext, MounterInit, MounterNext, WindowInit, WindowNext, InvWindows, PTL
DEF WSpec
=============================================================================
