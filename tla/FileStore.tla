------------------------------ MODULE FileStore ------------------------------
(***************************************************************************)
(* The file operations of pkg/store/loop on the files of one image: the    *)
(* creation of the image under its creation mutex, check-and-create under  *)
(* the deduplication mutex of the hash, writing in place, and a crash.     *)
(*                                                                         *)
(* Both kinds of mutex live in a map and are deleted from it after use,    *)
(* whoever still waits for them: mutexes are addresses here.               *)
(*                                                                         *)
(* The mount is taken from MountLifecycle: outside its race windows a      *)
(* callback runs on the mounted image, and a mount can fail.  Resizes and  *)
(* the read lock that holds them off are ResizeBlock's.                    *)
(***************************************************************************)
CONSTANTS
    Procs,          \* goroutines that serve requests
    Hashes,         \* hashes with the prefix of the image
    Mutexes,        \* heap addresses of sync.Mutex objects
    SyncOnWrite,    \* Store.syncOnWrite
    None            \* no mutex, no file

Operations == {"upload", "delete", "download", "exists"}
NoRequest == [op |-> "none"]
Requests == [op : Operations, hash : Hashes]

ASSUME FileStoreNames ==
    /\ None \notin Mutexes \cup Procs
    /\ {"absent", "stored", "torn", "saved", "cached", "remains"} \cap Procs = {}
    /\ None \notin {"absent", "stored", "torn", "saved", "cached", "remains"}
    /\ SyncOnWrite \in BOOLEAN

VARIABLES
    pc,             \* pc[p]: the next step of p
    request,        \* request[p]: the operation p runs and its hash
    answer,         \* answer[p]: what p will return, "none" while open
    dedupLocks,     \* Store.deduplicationLocks
    dedupRef,       \* dedupRef[p]: the deduplication mutex p has looked up
    creationLock,   \* Store.creationLocks[loopFilePath]
    creationRef,    \* creationRef[p]: the creation mutex p has looked up
    image,          \* what lies at loopFilePath
    file            \* file[h]: missing, being written by an upload, whole in the
                    \* page cache or on disk, cut off by a crash, or what a
                    \* failed upload could not remove: a part, or all of it

lockVars == <<dedupLocks, dedupRef, creationLock, creationRef>>
diskVars == <<image, file>>
vars == <<pc, request, answer, lockVars, diskVars>>

Creating == {"dd", "mkfs"}
CreationHeld == Creating \cup {"forgetFirst", "unlockCreation"}
Mounted == {"body", "create", "copy"}
DedupHeld == {"lookup", "lock", "forget", "dedupUnlock"} \cup CreationHeld
             \cup {"mount"} \cup Mounted
Steps == {"idle", "dedupLookup", "dedupLock", "stat", "dedupForget", "reply"}
         \cup DedupHeld

Settled == {"unlockCreation", "forget", "dedupUnlock", "dedupForget", "reply"}

\* The types; who knows its answer is on its way out.
FTypeOK ==
    /\ pc \in [Procs -> Steps]
    /\ request \in [Procs -> Requests \cup {NoRequest}]
    /\ answer \in [Procs -> {"none", "created", "conflict", "deleted", "whole",
                             "part", "found", "notFound", "error"}]
    /\ dedupLocks \in [Hashes -> Mutexes \cup {None}]
    /\ dedupRef \in [Procs -> Mutexes \cup {None}]
    /\ creationLock \in Mutexes \cup {None}
    /\ creationRef \in [Procs -> Mutexes \cup {None}]
    /\ image \in {"absent", "raw", "ext4"}
    /\ file \in [Hashes -> Procs \cup {None, "cached", "saved", "torn", "remains"}]
    /\ \A p \in Procs : answer[p] # "none" => pc[p] \in Settled

FInit ==
    /\ pc = [p \in Procs |-> "idle"]
    /\ request = [p \in Procs |-> NoRequest]
    /\ answer = [p \in Procs |-> "none"]
    /\ dedupLocks = [h \in Hashes |-> None]
    /\ dedupRef = [p \in Procs |-> None]
    /\ creationLock = None
    /\ creationRef = [p \in Procs |-> None]
    /\ image = "absent"
    /\ file = [h \in Hashes |-> None]

op(p) == request[p].op
hash(p) == request[p].hash
Uploads(p, h) == op(p) = "upload" /\ hash(p) = h
Goto(p, from, to) == pc[p] = from /\ pc' = [pc EXCEPT ![p] = to]
Returns(p, a) == answer' = [answer EXCEPT ![p] = a]
SetFile(p, f) == file' = [file EXCEPT ![hash(p)] = f]

-----------------------------------------------------------------------------
(* A request and its answer.  An upload has its content in a temporary     *)
(* file and its hash when it begins here.                                  *)

Start(p) ==
    /\ \E r \in Requests :
          /\ request' = [request EXCEPT ![p] = r]
          /\ Goto(p, "idle", IF r.op = "upload" THEN "dedupLookup" ELSE "stat")
    /\ UNCHANGED <<answer, lockVars, diskVars>>

Return(p) ==
    /\ Goto(p, "reply", "idle")
    /\ request' = [request EXCEPT ![p] = NoRequest]
    /\ Returns(p, "none")
    /\ UNCHANGED <<lockVars, diskVars>>

\* os.Stat of the image, which may fail; only an upload and a download create it.
StatImage(p) ==
    /\ \/ image = "absent" /\ Goto(p, "stat", "reply") /\ Returns(p, "notFound")
       \/ Goto(p, "stat", "reply") /\ Returns(p, "error")
       \/ image # "absent" /\ Goto(p, "stat", "lookup") /\ UNCHANGED answer
    /\ UNCHANGED <<request, lockVars, diskVars>>

-----------------------------------------------------------------------------
(* The deduplication mutex: atomicCheckAndCreate.                          *)

getDeduplicationMutex(p) ==
    /\ Goto(p, "dedupLookup", "dedupLock")
    /\ \E m \in Mutexes :
          /\ \/ dedupLocks[hash(p)] = m
             \/ /\ dedupLocks[hash(p)] = None
                /\ \A q \in Procs : dedupRef[q] # m
                /\ \A h \in Hashes : dedupLocks[h] # m
          /\ dedupRef' = [dedupRef EXCEPT ![p] = m]
          /\ dedupLocks' = [dedupLocks EXCEPT ![hash(p)] = m]
    /\ UNCHANGED <<request, answer, creationLock, creationRef, diskVars>>

\* Mutant: looks the mutex up and does not lock it.
lookUpOnly(p) ==
    /\ Goto(p, "dedupLock", "lookup")
    /\ UNCHANGED <<request, answer, lockVars, diskVars>>

LockDedup(p) ==
    /\ Goto(p, "dedupLock", "lookup")
    /\ \A q \in Procs : dedupRef[q] = dedupRef[p] => pc[q] \notin DedupHeld
    /\ UNCHANGED <<request, answer, lockVars, diskVars>>

UnlockDedup(p) ==
    /\ Goto(p, "dedupUnlock", "dedupForget")
    /\ dedupRef' = [dedupRef EXCEPT ![p] = None]
    /\ UNCHANGED <<request, answer, dedupLocks, creationLock, creationRef, diskVars>>

cleanupDeduplicationMutex(p) ==
    /\ Goto(p, "dedupForget", "reply")
    /\ dedupLocks' = [dedupLocks EXCEPT ![hash(p)] = None]
    /\ UNCHANGED <<request, answer, dedupRef, creationLock, creationRef, diskVars>>

-----------------------------------------------------------------------------
(* The creation mutex and the image: withMountedLoop,                      *)
(* withMountedLoopUnlocked and ensureLoopFileExistsUnlocked up to Unlock.  *)

getCreationMutex(p) ==
    /\ Goto(p, "lookup", "lock")
    /\ \E m \in Mutexes :
          /\ \/ creationLock = m
             \/ creationLock = None /\ \A q \in Procs : creationRef[q] # m
          /\ creationRef' = [creationRef EXCEPT ![p] = m]
          /\ creationLock' = m
    /\ UNCHANGED <<request, answer, dedupLocks, dedupRef, diskVars>>

Creates(p) == op(p) \in {"upload", "download"}

\* Where the way goes on after Unlock: a download forgets the mutex first.
Ready(p) == IF op(p) = "download" THEN "forgetFirst" ELSE "unlockCreation"

\* Mutant: looks for the image without the mutex.
NoMutex(p) == TRUE

\* Lock and the stat under it
CreationFree(p) ==
    \A q \in Procs : creationRef[q] = creationRef[p] => pc[q] \notin CreationHeld

\* A lookup that finds the image gone by now returns that as an error.
LockCreation(p) ==
    /\ CreationFree(p)
    /\ \/ image # "absent" /\ Goto(p, "lock", Ready(p)) /\ UNCHANGED answer
       \/ /\ image = "absent" /\ Creates(p)
          /\ Goto(p, "lock", "dd") /\ UNCHANGED answer
       \/ /\ image = "absent" /\ op(p) = "delete"
          /\ Goto(p, "lock", "unlockCreation") /\ Returns(p, "notFound")
       \/ Goto(p, "lock", "unlockCreation") /\ Returns(p, "error")
    /\ UNCHANGED <<request, lockVars, diskVars>>

\* createLoopFile: dd truncates what is there and writes zeros, mkfs.ext4
\* formats it.  What a failed dd has written stays; mkfs removes the image.
dd(p) ==
    /\ Goto(p, "dd", "mkfs")
    /\ image' = "raw"
    /\ file' = [h \in Hashes |-> None]
    /\ UNCHANGED <<request, answer, lockVars>>

mkfs(p) ==
    /\ image' = "ext4"
    /\ Goto(p, "mkfs", Ready(p))
    /\ UNCHANGED <<request, answer, lockVars, file>>

CreationFails(p) ==
    /\ image' \in {"raw", "absent"}
    /\ Goto(p, "mkfs", "unlockCreation")
    /\ Returns(p, "error")
    /\ UNCHANGED <<request, lockVars, file>>

forgetCreation(p) ==
    /\ \/ Goto(p, "forgetFirst", "unlockCreation")
       \/ Goto(p, "forget", IF op(p) = "upload" THEN "dedupUnlock" ELSE "reply")
    /\ creationLock' = None
    /\ UNCHANGED <<request, answer, dedupLocks, dedupRef, creationRef, diskVars>>

\* A download that failed leaves the mutex in the map.
UnlockCreation(p) ==
    /\ Goto(p, "unlockCreation",
            IF answer[p] = "none" THEN "mount"
            ELSE IF op(p) = "download" THEN "reply" ELSE "forget")
    /\ creationRef' = [creationRef EXCEPT ![p] = None]
    /\ UNCHANGED <<request, answer, dedupLocks, dedupRef, creationLock, diskVars>>

-----------------------------------------------------------------------------
(* The operation on the mounted image.                                     *)

\* The mutex is forgotten when withMountedLoop returns.
After(p) == IF op(p) = "download" THEN "reply" ELSE "forget"

\* Mutant: runs the operation on a mount that failed.
mountAnyway(p) ==
    /\ \/ image = "ext4" /\ Goto(p, "mount", "body") /\ UNCHANGED answer
       \/ Goto(p, "mount", "body") /\ Returns(p, "error")
    /\ UNCHANGED <<request, lockVars, diskVars>>

mountLoopFile(p) ==
    /\ \/ image = "ext4" /\ Goto(p, "mount", "body") /\ UNCHANGED answer
       \/ Goto(p, "mount", After(p)) /\ Returns(p, "error")
    /\ UNCHANGED <<request, lockVars, diskVars>>

\* A stat, open or removal that fails for another reason than a missing file
CallbackFails(p) ==
    /\ Goto(p, "body", After(p))
    /\ Returns(p, "error")
    /\ UNCHANGED <<request, lockVars, diskVars>>

\* Mutant: does not look whether the file is there.
createAnyway(p) ==
    /\ op(p) = "upload"
    /\ Goto(p, "body", "create")
    /\ UNCHANGED <<request, answer, lockVars, diskVars>>

existsWithinMountedLoop(p) ==
    /\ op(p) = "upload"
    /\ \/ /\ file[hash(p)] # None
          /\ Goto(p, "body", "forget") /\ Returns(p, "conflict")
       \/ /\ file[hash(p)] = None
          /\ Goto(p, "body", "create") /\ UNCHANGED answer
    /\ UNCHANGED <<request, lockVars, diskVars>>

\* MkdirAll and os.Create, which truncates
createTarget(p) ==
    /\ \/ Goto(p, "create", "copy") /\ SetFile(p, p) /\ UNCHANGED answer
       \/ Goto(p, "create", "forget") /\ Returns(p, "error") /\ UNCHANGED file
    /\ UNCHANGED <<request, lockVars, image>>

\* Mutant: does not sync.
Unsynced == "cached"
Synced == IF SyncOnWrite THEN "saved" ELSE "cached"

\* A writer whose file was removed or truncated by another ends without effect.
copyAndSyncFile(p) ==
    /\ Goto(p, "copy", "forget")
    /\ Returns(p, "created")
    /\ SetFile(p, IF file[hash(p)] = p THEN Synced ELSE file[hash(p)])
    /\ UNCHANGED <<request, lockVars, image>>

\* os.Remove may fail in its turn, which is only logged: the file stays.
removeFileOnError(p) ==
    /\ Goto(p, "copy", "forget")
    /\ Returns(p, "error")
    /\ \/ SetFile(p, None)
       \/ file[hash(p)] = p /\ SetFile(p, "remains")
    /\ UNCHANGED <<request, lockVars, image>>

\* What a reader gets: the file up to where it has been written.
MayServe(f, a) ==
    \/ a = "notFound" /\ f = None
    \/ a = "whole" /\ f \notin {None, "torn"}
    \/ a = "part" /\ f \notin {None, "saved", "cached"}

Read(p) ==
    /\ \/ /\ op(p) = "download"
          /\ \E a \in {"notFound", "whole", "part"} :
                MayServe(file[hash(p)], a) /\ Returns(p, a)
       \/ /\ op(p) = "exists"
          /\ Returns(p, IF file[hash(p)] = None THEN "notFound" ELSE "found")
    /\ Goto(p, "body", After(p))
    /\ UNCHANGED <<request, lockVars, diskVars>>

Remove(p) ==
    /\ op(p) = "delete"
    /\ Goto(p, "body", "forget")
    /\ Returns(p, IF file[hash(p)] = None THEN "notFound" ELSE "deleted")
    /\ SetFile(p, None)
    /\ UNCHANGED <<request, lockVars, image>>

-----------------------------------------------------------------------------
(* A crash ends every goroutine and empties the maps.  What was not synced *)
(* may be lost; the image stays what it is.                                *)

Left(f) == IF f \in {None, "saved", "torn"} THEN {f} ELSE {None, "torn", "saved"}

Crash ==
    /\ pc' = [p \in Procs |-> "idle"]
    /\ request' = [p \in Procs |-> NoRequest]
    /\ answer' = [p \in Procs |-> "none"]
    /\ dedupLocks' = [h \in Hashes |-> None]
    /\ dedupRef' = [p \in Procs |-> None]
    /\ creationLock' = None
    /\ creationRef' = [p \in Procs |-> None]
    /\ file' \in [Hashes -> {None, "torn", "saved"}]
    /\ \A h \in Hashes : file'[h] \in Left(file[h])
    /\ UNCHANGED image

Proc(p) ==
    \/ Start(p) \/ Return(p) \/ StatImage(p)
    \/ getDeduplicationMutex(p) \/ LockDedup(p) \/ UnlockDedup(p)
    \/ cleanupDeduplicationMutex(p)
    \/ getCreationMutex(p) \/ LockCreation(p) \/ dd(p) \/ mkfs(p)
    \/ CreationFails(p) \/ forgetCreation(p) \/ UnlockCreation(p)
    \/ mountLoopFile(p) \/ CallbackFails(p)
    \/ existsWithinMountedLoop(p) \/ createTarget(p)
    \/ copyAndSyncFile(p) \/ removeFileOnError(p) \/ Read(p) \/ Remove(p)

FNext == Crash \/ \E p \in Procs : Proc(p)

FSpec == FInit /\ [][FNext]_vars

-----------------------------------------------------------------------------
(* The two windows: somebody takes a new mutex while another still has the *)
(* one that was deleted.  Around an image that is there a second creation  *)
(* mutex does no harm.                                                     *)

DedupForgotten ==
    \E p, q \in Procs :
        /\ pc[p] = "dedupLookup" /\ pc'[p] = "dedupLock"
        /\ p # q /\ dedupRef[q] # None /\ hash(p) = hash(q)
        /\ dedupRef'[p] # dedupRef[q]

CreationForgotten ==
    /\ image # "ext4"
    /\ \E p, q \in Procs :
          /\ pc[p] = "lookup" /\ pc'[p] = "lock"
          /\ p # q /\ creationRef[q] # None /\ creationRef'[p] # creationRef[q]

SoundNext == FNext /\ ~DedupForgotten /\ ~CreationForgotten
SoundSpec == FInit /\ [][SoundNext]_vars

-----------------------------------------------------------------------------
(* Properties of SoundSpec.                                                *)

\* One upload of a hash at a time checks and writes, so that none truncates or
\* removes the file of another.
OneUploadPerHash ==
    \A p, q \in Procs :
        p # q /\ {pc[p], pc[q]} \subseteq DedupHeld /\ op(p) = "upload"
              /\ op(q) = "upload" => hash(p) # hash(q)

\* The image is made by one goroutine, before any file is on it and before any
\* operation works on its mount.
ImageMadeOnce ==
    \A p \in Procs : pc[p] \in Creating =>
        /\ \A q \in Procs \ {p} : pc[q] \notin Creating \cup Mounted
        /\ \A h \in Hashes : file[h] = None

\* A file that is whole leaves its name only by the removal in a delete: no
\* failed upload, no second upload, no creation of the image and, when writes
\* are synced, no crash takes it away.
WholeUntilDeleted ==
    [][\A h \in Hashes : file[h] = "saved" /\ file'[h] # "saved" =>
          \E p \in Procs : op(p) = "delete" /\ hash(p) = h
                            /\ answer'[p] = "deleted"]_vars

\* The file operations implement the promise of ContentStore.
Shown(f) ==
    IF f = None THEN "absent"
    ELSE IF f \in {"saved", "cached"} THEN "stored" ELSE f
Arrived == [h \in Hashes |-> Shown(file[h])]
Told == [p \in Procs |-> IF pc[p] = "copy" THEN "storing" ELSE answer[p]]
Promise == INSTANCE ContentStore WITH
    Durable <- SyncOnWrite, content <- Arrived, answer <- Told
KeepsPromise == Promise!CSpec
=============================================================================
