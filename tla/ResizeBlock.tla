---------------------------- MODULE ResizeBlock ----------------------------
(***************************************************************************)
(* Store.ResizeBlock against the operations and idle timers of its image:  *)
(* the resize lock of the image, whose map entry a successful resize       *)
(* deletes, the wait for quiescence, the copy through the mount point and  *)
(* the renames.  The mount itself is MountLifecycle's; a resize uses it    *)
(* without taking a reference.  One goroutine resizes, again and again.    *)
(*                                                                         *)
(* An operation that opens a file writes the file named after it; what it  *)
(* writes lands on the image that is mounted, or in the bare directory     *)
(* under the mount point when none is.                                     *)
(***************************************************************************)
EXTENDS MountLifecycle

CONSTANTS
    Locks,              \* heap addresses of sync.RWMutex objects
    Images,             \* inodes of image files (bound)
    CommandsMayFail     \* whether the resize's own commands and calls can fail

Resizer == "resizer"    \* the goroutine in ResizeBlock
Bare == "bare"          \* the directory under the mount point

\* Whoever looks for a fresh lock finds one.
ASSUME EnoughLocks ==
    IsFiniteSet(Locks) /\ Cardinality(Locks) > Cardinality(Ops)
ASSUME SomeImage == Images # {}

ASSUME ResizeNames ==
    /\ Resizer \notin Holders \cup {None}
    /\ None \notin Locks
    /\ None \notin Images /\ Bare \notin Images
    /\ CommandsMayFail \in BOOLEAN
    /\ MountMayFail     \* and does when the image is not there

VARIABLES
    resizeLock,     \* Store.resizeLocks[loopFilePath]: address of the lock
    lockRef,        \* lockRef[p]: the lock p has looked up and not yet left
    step,           \* the next step of ResizeBlock
    image,          \* the inode at loopFilePath
    newImage,       \* ... at loopFilePath.new
    backup,         \* ... at loopFilePath.backup
    source,         \* the inode mounted on the mount point
    newMounts,      \* the inodes mounted, one over the other, on mountPoint.new
    files,          \* the files on each inode and in the bare directory
    stored          \* the files that operations have written to an image

lockVars == <<resizeLock, lockRef>>
diskVars == <<image, newImage, backup, source, newMounts, files, stored>>
resizeVars == <<lockVars, step, diskVars>>
allVars == <<vars, resizeVars>>

ResizeSteps == {"idle", "lookup", "writeLock", "quiesce", "parking", "asleep",
    "lockOld", "mountOld", "create", "rsync", "unmountNew", "lockUnmount",
    "unmountOld", "backup", "replace", "removeBackup", "deferNew", "dropLock",
    "lockDefer", "unmountDefer", "removeNew", "unlock"}

\* The steps ResizeBlock takes with the write lock held.
Exclusive == ResizeSteps \ {"idle", "lookup", "writeLock"}

ResizeTypeOK ==
    /\ ObjectsOK
    /\ mountLock \in Holders \cup {Resizer, None}
    /\ resizeLock \in Locks \cup {None}
    /\ lockRef \in [Ops \cup {Resizer} -> Locks \cup {None}]
    /\ step \in ResizeSteps
    /\ {image, newImage, backup, source} \subseteq Images \cup {None}
    /\ newMounts \subseteq Images
    /\ files \in [Images \cup {Bare} -> SUBSET Ops]
    /\ stored \subseteq Ops

RInit ==
    /\ Init
    /\ resizeLock = None
    /\ lockRef = [p \in Ops \cup {Resizer} |-> None]
    /\ step = "idle"
    /\ image = (CHOOSE i \in Images : TRUE)
    /\ newImage = None /\ backup = None /\ source = None /\ newMounts = {}
    /\ files = [i \in Images \cup {Bare} |-> {}]
    /\ stored = {}

-----------------------------------------------------------------------------
(* The resize lock: getResizeLock, then RLock or Lock on what it returned. *)

FreshLock == CHOOSE l \in Locks : \A p \in DOMAIN lockRef : lockRef[p] # l

getResizeLock(p) ==
    /\ lockRef[p] = None
    /\ \/ resizeLock # None /\ lockRef' = [lockRef EXCEPT ![p] = resizeLock]
          /\ UNCHANGED resizeLock
       \/ resizeLock = None /\ lockRef' = [lockRef EXCEPT ![p] = FreshLock]
          /\ resizeLock' = FreshLock

Reading(o, l) == lockRef[o] = l /\ pc[o] # "idle"
Writing(l) == lockRef[Resizer] = l /\ step \in Exclusive

\* New inodes: neither named nor mounted.
Fresh == Images \ ({image, newImage, backup, source} \cup newMounts)
FreshImage == CHOOSE i \in Fresh : TRUE

ImageIsGone == image = None

-----------------------------------------------------------------------------
(* The operations.                                                         *)

LookUp(o) ==
    /\ pc[o] = "idle"
    /\ getResizeLock(o)
    /\ UNCHANGED <<vars, step, diskVars>>

MayRead(o) == pc[o] = "idle" /\ lockRef[o] # None /\ ~Writing(lockRef[o])

\* RLock, os.Stat of the image
StartOp(o) ==
    /\ MayRead(o) /\ ~ImageIsGone
    /\ Begin(o)
    /\ UNCHANGED resizeVars

\* Only an upload creates the image it does not find (withMountedLoop).
CreateImage(o) ==
    /\ MayRead(o) /\ ImageIsGone /\ Fresh # {}
    /\ image' = FreshImage
    /\ files' = [files EXCEPT ![FreshImage] = {}]
    /\ Begin(o)
    /\ UNCHANGED <<lockVars, step, newImage, backup, source, newMounts, stored>>

NotFound(o) ==
    /\ MayRead(o) /\ ImageIsGone
    /\ lockRef' = [lockRef EXCEPT ![o] = None]
    /\ UNCHANGED <<vars, resizeLock, step, diskVars>>

\* mount(8) fails when the image is not there, and may when it is.
MountSource(o) ==
    /\ mountCommand(o)
    /\ \/ result'[o] = "ok" /\ ~ImageIsGone /\ source' = image
       \/ result'[o] = "err" /\ UNCHANGED source
    /\ UNCHANGED <<lockVars, step, image, newImage, backup, newMounts, files, stored>>

Write(o) ==
    /\ CloseFile(o)
    /\ LET place == IF file[o] = "image" THEN source ELSE Bare
       IN  files' = [files EXCEPT ![place] = @ \cup {o}]
    /\ stored' = IF file[o] = "image" THEN stored \cup {o} ELSE stored
    /\ UNCHANGED <<lockVars, step, image, newImage, backup, source, newMounts>>

\* quiescenceCond.Broadcast follows the deletion of the counter.
LastRefGone(o) ==
    /\ DeleteCounter(o)
    /\ step' = IF step = "asleep" THEN "quiesce" ELSE step
    /\ UNCHANGED <<lockVars, diskVars>>

\* RUnlock
EndOp(o) ==
    /\ Return(o)
    /\ lockRef' = [lockRef EXCEPT ![o] = None]
    /\ UNCHANGED <<resizeLock, step, diskVars>>

\* The steps of MountLifecycle that a resize takes no part in.
MountProtocol(o) ==
    /\ \/ stopMountTimer(o) \/ getOrCreateRefCount(o) \/ AddRef(o)
       \/ AnnounceMount(o) \/ LockMount(o) \/ MkdirFails(o) \/ AlreadyMounted(o)
       \/ NotMounted(o) \/ signalMountReady(o) \/ waitForMountReady(o)
       \/ OpenFile(o) \/ UsePath(o) \/ LoadRef(o) \/ DropRef(o)
       \/ scheduleUnmount(o)
    /\ UNCHANGED resizeVars

OpAction(o) == LookUp(o) \/ StartOp(o) \/ CreateImage(o) \/ NotFound(o)
               \/ MountProtocol(o) \/ MountSource(o) \/ Write(o)
               \/ LastRefGone(o) \/ EndOp(o)

Unmounted == source' = IF mounts' = 0 THEN None ELSE source

IdleTimer(t) ==
    /\ handleMountTimeout(t)
    /\ Unmounted
    /\ UNCHANGED <<lockVars, step, image, newImage, backup, newMounts, files, stored>>

-----------------------------------------------------------------------------
(* ResizeBlock up to the copy.                                             *)

Goto(from, to) == step = from /\ step' = to

\* validateAndPrepareResize looks for the image before it takes the lock.
validateAndPrepareResize ==
    /\ ~ImageIsGone
    /\ Goto("idle", "lookup")
    /\ UNCHANGED <<vars, lockVars, diskVars>>

LookUpForResize ==
    /\ Goto("lookup", "writeLock")
    /\ getResizeLock(Resizer)
    /\ UNCHANGED <<vars, diskVars>>

\* Mutant: takes the lock as a reader.
SharedLock ==
    /\ Goto("writeLock", "quiesce")
    /\ UNCHANGED <<vars, lockVars, diskVars>>

WriteLock ==
    /\ Goto("writeLock", "quiesce")
    /\ \A o \in Ops : ~Reading(o, lockRef[Resizer])
    /\ UNCHANGED <<vars, lockVars, diskVars>>

\* The broadcast does not take quiescenceMutex: it can come between the check
\* of the counter and the wait.
waitForQuiescence ==
    /\ \/ getCurrentRefCount > 0 /\ Goto("quiesce", "parking")
       \/ getCurrentRefCount <= 0 /\ Goto("quiesce", "lockOld")
       \/ Goto("parking", "asleep")
    /\ UNCHANGED <<vars, lockVars, diskVars>>

\* The resize enters a section of the mount lock, of mountLoopFile or of
\* unmountMountPoint, without a reference and with the idle timer running.
EnterMountLock ==
    /\ \/ Goto("lockOld", "mountOld")
       \/ Goto("lockUnmount", "unmountOld")
       \/ Goto("lockDefer", "unmountDefer")
    /\ Acquire(Resizer)
    /\ UNCHANGED <<pc, file, refVars, statusVars, timerVars, shutdown,
                   lockVars, diskVars>>

\* Mutant: mounts without asking isMounted.
mountUnchecked ==
    /\ Release(Resizer)
    /\ \/ /\ Goto("mountOld", "create") /\ ~ImageIsGone
          /\ mounts' = mounts + 1 /\ source' = image
       \/ /\ Goto("mountOld", "removeNew") /\ (ImageIsGone \/ CommandsMayFail)
          /\ UNCHANGED <<mounts, source>>
    /\ UNCHANGED <<pc, file, refVars, statusVars, timerVars, shutdown,
                   lockVars, image, newImage, backup, newMounts, files, stored>>

mountForResize ==
    /\ Release(Resizer)
    /\ \/ /\ isMounted
          /\ Goto("mountOld", "create")
          /\ UNCHANGED <<mounts, source>>
       \/ /\ ~isMounted /\ ~ImageIsGone
          /\ Goto("mountOld", "create")
          /\ mounts' = mounts + 1 /\ source' = image
       \/ /\ (~isMounted /\ ImageIsGone) \/ CommandsMayFail
          /\ Goto("mountOld", "removeNew")
          /\ UNCHANGED <<mounts, source>>
    /\ UNCHANGED <<pc, file, refVars, statusVars, timerVars, shutdown,
                   lockVars, image, newImage, backup, newMounts, files, stored>>

Fail(from, to) == CommandsMayFail /\ Goto(from, to)

\* dd truncates what is left under the name; mkfs refuses an inode that is still
\* mounted.
createNewLoopFile ==
    /\ newImage # None \/ Fresh # {}
    /\ newImage' = IF newImage = None THEN FreshImage ELSE newImage
    /\ files' = [files EXCEPT ![newImage'] = {}]
    /\ \/ /\ Goto("create", "rsync") /\ newImage' \notin newMounts
          /\ newMounts' = newMounts \cup {newImage'}
       \/ /\ Goto("create", "lockDefer") /\ (CommandsMayFail \/ newImage' \in newMounts)
          /\ UNCHANGED newMounts
    /\ UNCHANGED <<vars, lockVars, image, backup, source, stored>>

\* rsync -au of whatever the mount point leads to now
syncDataBetweenLoops ==
    /\ \/ /\ Goto("rsync", "unmountNew")
          /\ files' = [files EXCEPT ![newImage] = @ \cup
                          files[IF isMounted THEN source ELSE Bare]]
       \/ Fail("rsync", "deferNew") /\ UNCHANGED files
    /\ UNCHANGED <<vars, lockVars, image, newImage, backup, source, newMounts, stored>>

\* Mutant: a failed umount of the new image is only logged.
unmountNewLogged ==
    /\ Goto("unmountNew", "lockUnmount")
    /\ newMounts' = newMounts \ {newImage} \/ (CommandsMayFail /\ UNCHANGED newMounts)
    /\ UNCHANGED <<vars, lockVars, image, newImage, backup, source, files, stored>>

unmountNew ==
    /\ \/ Goto("unmountNew", "lockUnmount") /\ newMounts' = newMounts \ {newImage}
       \/ Fail("unmountNew", "deferNew") /\ UNCHANGED newMounts
    /\ UNCHANGED <<vars, lockVars, image, newImage, backup, source, files, stored>>

\* Mutant: leaves the source mounted, before the renames and after them.
unmountLater ==
    /\ Release(Resizer)
    /\ Goto("unmountOld", "backup") \/ Goto("unmountDefer", "removeNew")
    /\ UNCHANGED <<mounts, source>>
    /\ UNCHANGED <<pc, file, refVars, statusVars, timerVars, shutdown,
                   lockVars, image, newImage, backup, newMounts, files, stored>>

\* The deferred umount of the source only logs that it failed.
unmountForResize ==
    /\ umount(Resizer)
    /\ \/ Goto("unmountOld", IF isMounted /\ mounts' = mounts THEN "deferNew" ELSE "backup")
       \/ Goto("unmountDefer", "removeNew")
    /\ Unmounted
    /\ UNCHANGED <<pc, file, refVars, statusVars, timerVars, shutdown,
                   lockVars, image, newImage, backup, newMounts, files, stored>>

-----------------------------------------------------------------------------
(* replaceOldLoopFile and the way out.  A rename that has to undo the      *)
(* other one is taken to succeed.                                          *)

renameToBackup ==
    /\ \/ /\ Goto("backup", "replace") /\ ~ImageIsGone
          /\ backup' = image /\ image' = None
       \/ /\ Goto("backup", "deferNew") /\ (ImageIsGone \/ CommandsMayFail)
          /\ UNCHANGED <<backup, image>>
    /\ UNCHANGED <<vars, lockVars, newImage, source, newMounts, files, stored>>

renameNew ==
    /\ \/ /\ Goto("replace", "removeBackup")
          /\ image' = newImage /\ newImage' = None /\ UNCHANGED backup
       \/ /\ Fail("replace", "deferNew")
          /\ image' = backup /\ backup' = None /\ UNCHANGED newImage
    /\ UNCHANGED <<vars, lockVars, source, newMounts, files, stored>>

\* A backup that cannot be removed is only logged.
removeBackup ==
    /\ Goto("removeBackup", "deferNew")
    /\ \/ backup' = None
       \/ CommandsMayFail /\ UNCHANGED backup
    /\ UNCHANGED <<vars, lockVars, image, newImage, source, newMounts, files, stored>>

\* What is mounted on top; below it are only leftovers of earlier resizes.
OnTop == IF newImage \in newMounts THEN {newImage} ELSE newMounts

\* The deferred umount of mountPoint.new, also after the first one.  Only a resize
\* that succeeded has no new image any more.
unmountNewAgain ==
    /\ Goto("deferNew", IF newImage = None THEN "dropLock" ELSE "lockDefer")
    /\ \/ \E i \in OnTop : newMounts' = newMounts \ {i}
       \/ (newMounts = {} \/ CommandsMayFail) /\ UNCHANGED newMounts
    /\ UNCHANGED <<vars, lockVars, image, newImage, backup, source, files, stored>>

\* Deferred last, so run first: the entry goes before the deferred unmount
\* and before the Unlock, and only after a resize that succeeded.
cleanupResizeLock ==
    /\ Goto("dropLock", "lockDefer")
    /\ resizeLock' = None
    /\ UNCHANGED <<vars, lockRef, diskVars>>

\* setupCleanupHandler: RemoveAll(mountPoint.new) removes what is mounted there as
\* well, and then the file, if the image has its name.
removeNew ==
    /\ Goto("removeNew", "unlock")
    /\ \/ newMounts = {} /\ UNCHANGED files
       \/ \E i \in OnTop : files' = [files EXCEPT ![i] = {}]
    /\ \/ ~ImageIsGone /\ newImage' = None
       \/ (ImageIsGone \/ CommandsMayFail) /\ UNCHANGED newImage
    /\ UNCHANGED <<vars, lockVars, image, backup, source, newMounts, stored>>

Unlock ==
    /\ Goto("unlock", "idle")
    /\ lockRef' = [lockRef EXCEPT ![Resizer] = None]
    /\ UNCHANGED <<vars, resizeLock, diskVars>>

ResizeAction ==
    \/ validateAndPrepareResize \/ LookUpForResize \/ WriteLock
    \/ waitForQuiescence \/ EnterMountLock \/ mountForResize
    \/ createNewLoopFile \/ syncDataBetweenLoops \/ unmountNew
    \/ unmountForResize \/ renameToBackup \/ renameNew \/ removeBackup
    \/ unmountNewAgain \/ cleanupResizeLock \/ removeNew \/ Unlock

RNext == \/ \E o \in Ops : OpAction(o)
         \/ \E t \in Timers : IdleTimer(t)
         \/ ResizeAction

RSpec == RInit /\ [][RNext]_allVars

-----------------------------------------------------------------------------
(* Properties                                                              *)

\* "Uses rsync to copy data from the existing to the new image ... Moves the
\* new image over the old one" (resize.go:308, 310): whenever the image has its
\* name, every file that was stored on it is there.
ResizeKeepsFiles == ImageIsGone \/ stored \subseteq files[image]
=============================================================================
