--------------------------- MODULE FileStore_proofs ---------------------------
(***************************************************************************)
(* Theorems about SoundSpec of FileStore, for all goroutines, hashes and   *)
(* mutexes: the two mutexes exclude, a whole file stays until it is        *)
(* deleted, and the file operations implement ContentStore.                *)
(***************************************************************************)
EXTENDS FileStore, TLAPS

Open == {"idle", "dedupLookup", "dedupLock", "stat", "lookup", "lock", "dd",
         "mkfs", "forgetFirst", "mount", "body", "create", "copy"}
OfUpload == {"dedupLookup", "dedupLock", "create", "copy", "dedupUnlock", "dedupForget"}

\* What the next step of p says of its request, its answer and its mutexes.
Shape(p) ==
    /\ pc[p] = "idle" <=> request[p] = NoRequest
    /\ pc[p] \in Open => answer[p] = "none"
    /\ pc[p] \in {"forget", "dedupUnlock", "dedupForget", "reply"} => answer[p] # "none"
    /\ pc[p] \in OfUpload => op(p) = "upload"
    /\ pc[p] = "stat" => op(p) # "upload"
    /\ pc[p] = "dedupLock" \/ (pc[p] \in DedupHeld /\ op(p) = "upload")
           <=> dedupRef[p] # None
    /\ pc[p] = "lock" \/ pc[p] \in CreationHeld <=> creationRef[p] # None

Inv1 == FTypeOK /\ \A p \in Procs : Shape(p)

\* All who have a deduplication mutex of a hash have the same one.
Dedup ==
    /\ \A p, q \in Procs :
          dedupRef[p] # None /\ dedupRef[q] # None /\ hash(p) = hash(q)
              => dedupRef[p] = dedupRef[q]
    /\ OneUploadPerHash

\* While there is no image all who have a creation mutex have the same one.
Creation ==
    /\ image # "ext4" =>
          \A p, q \in Procs : creationRef[p] # None /\ creationRef[q] # None
              => creationRef[p] = creationRef[q]
    /\ \A p \in Procs : pc[p] \in Creating =>
          \A q \in Procs \ {p} : pc[q] \notin CreationHeld
    /\ \A p \in Procs : pc[p] = "dd" => image = "absent"
    /\ \A p \in Procs : pc[p] = "mkfs" => image = "raw"
    /\ \A p \in Procs : pc[p] \in Mounted => image = "ext4"

\* Only the upload that holds the mutex has its file open.
Files ==
    /\ image # "ext4" => \A h \in Hashes : file[h] = None
    /\ \A h \in Hashes : file[h] \in Procs =>
          pc[file[h]] = "copy" /\ Uploads(file[h], h)
    /\ \A p \in Procs : pc[p] = "create" => file[hash(p)] = None
    /\ \A p \in Procs : pc[p] = "copy" => file[hash(p)] \in {p, None}
    /\ \A h \in Hashes : file[h] = "cached" => ~SyncOnWrite

IInv == Inv1 /\ Dedup /\ Creation /\ Files

LEMMA RequestFacts ==
    /\ NoRequest.op = "none"
    /\ NoRequest \notin Requests
    /\ \A r \in Requests : r.op \in Operations /\ r.hash \in Hashes
BY DEF NoRequest, Requests, Operations

LEMMA InitInv == FInit => IInv
BY FileStoreNames, RequestFacts DEF FInit, IInv, Inv1, FTypeOK, Shape, Dedup, OneUploadPerHash,
   Creation, Files, Settled, Steps, DedupHeld, CreationHeld, Creating, Mounted, Open, OfUpload, op, hash, Uploads

LEMMA Step1 == Inv1 /\ [SoundNext]_vars => Inv1'
<1> SUFFICES ASSUME Inv1, SoundNext \/ UNCHANGED vars PROVE Inv1'
  OBVIOUS
<1> USE FileStoreNames, RequestFacts DEF Inv1, FTypeOK, Settled, Shape, Steps, DedupHeld, CreationHeld, Creating,
    Mounted, Open, OfUpload, op, hash, Goto, lockVars, diskVars, Returns, SetFile
<1>1. ASSUME NEW p \in Procs, Start(p) PROVE Inv1'
  BY <1>1 DEF Start, Operations
<1>2. ASSUME NEW p \in Procs, Return(p) PROVE Inv1'
  BY <1>2 DEF Return
<1>3. ASSUME NEW p \in Procs, StatImage(p) PROVE Inv1'
  BY <1>3 DEF StatImage
<1>4. ASSUME NEW p \in Procs, getDeduplicationMutex(p) PROVE Inv1'
  BY <1>4 DEF getDeduplicationMutex
<1>5. ASSUME NEW p \in Procs, LockDedup(p) PROVE Inv1'
  BY <1>5 DEF LockDedup
<1>6. ASSUME NEW p \in Procs, UnlockDedup(p) PROVE Inv1'
  BY <1>6 DEF UnlockDedup
<1>7. ASSUME NEW p \in Procs, cleanupDeduplicationMutex(p) PROVE Inv1'
  BY <1>7 DEF cleanupDeduplicationMutex
<1>8. ASSUME NEW p \in Procs, getCreationMutex(p) PROVE Inv1'
  BY <1>8 DEF getCreationMutex
<1>9. ASSUME NEW p \in Procs, LockCreation(p) PROVE Inv1'
  BY <1>9 DEF LockCreation, CreationFree, Creates, Ready
<1>10. ASSUME NEW p \in Procs, dd(p) PROVE Inv1'
  BY <1>10 DEF dd
<1>11. ASSUME NEW p \in Procs, mkfs(p) PROVE Inv1'
  BY <1>11 DEF mkfs, Ready
<1>12. ASSUME NEW p \in Procs, CreationFails(p) PROVE Inv1'
  BY <1>12 DEF CreationFails
<1>13. ASSUME NEW p \in Procs, forgetCreation(p) PROVE Inv1'
  BY <1>13 DEF forgetCreation
<1>14. ASSUME NEW p \in Procs, UnlockCreation(p) PROVE Inv1'
  BY <1>14 DEF UnlockCreation
<1>15. ASSUME NEW p \in Procs, mountLoopFile(p) PROVE Inv1'
  BY <1>15 DEF mountLoopFile, After
<1>16. ASSUME NEW p \in Procs, existsWithinMountedLoop(p) PROVE Inv1'
  BY <1>16 DEF existsWithinMountedLoop
<1>17. ASSUME NEW p \in Procs, createTarget(p) PROVE Inv1'
  BY <1>17 DEF createTarget
<1>18. ASSUME NEW p \in Procs, copyAndSyncFile(p) PROVE Inv1'
  BY <1>18 DEF copyAndSyncFile, Synced
<1>19. ASSUME NEW p \in Procs, removeFileOnError(p) PROVE Inv1'
  BY <1>19 DEF removeFileOnError
<1>20. ASSUME NEW p \in Procs, Read(p) PROVE Inv1'
  BY <1>20 DEF Read, After, MayServe
<1>21. ASSUME NEW p \in Procs, Remove(p) PROVE Inv1'
  BY <1>21 DEF Remove
<1>24. ASSUME NEW p \in Procs, CallbackFails(p) PROVE Inv1'
  BY <1>24 DEF CallbackFails, After
<1>22. CASE Crash
  BY <1>22 DEF Crash
<1>23. CASE UNCHANGED vars
  BY <1>23 DEF vars
<1> QED
  BY <1>1, <1>2, <1>3, <1>4, <1>5, <1>6, <1>7, <1>8, <1>9, <1>10, <1>11,
     <1>12, <1>13, <1>14, <1>15, <1>16, <1>17, <1>18, <1>19, <1>20, <1>21,
     <1>22, <1>23, <1>24 DEF SoundNext, FNext, Proc

LEMMA DedupStep == Inv1 /\ Dedup /\ [SoundNext]_vars => Dedup'
<1> SUFFICES ASSUME Inv1 /\ Dedup, SoundNext \/ UNCHANGED vars PROVE Dedup'
  OBVIOUS
<1> USE FileStoreNames, RequestFacts DEF Inv1, FTypeOK, Shape, Steps, DedupHeld, CreationHeld, Creating,
    Mounted, Open, OfUpload, op, hash, Goto, lockVars, diskVars,
    Dedup, OneUploadPerHash
<1>1. ASSUME NEW p \in Procs, Start(p) PROVE Dedup'
  BY <1>1 DEF Start, Operations
<1>2. ASSUME NEW p \in Procs, Return(p) PROVE Dedup'
  BY <1>2 DEF Return
<1>3. ASSUME NEW p \in Procs, StatImage(p) PROVE Dedup'
  BY <1>3 DEF StatImage
<1>4. ASSUME NEW p \in Procs, getDeduplicationMutex(p), ~DedupForgotten PROVE Dedup'
  BY <1>4 DEF getDeduplicationMutex, DedupForgotten
<1>5. ASSUME NEW p \in Procs, LockDedup(p) PROVE Dedup'
  BY <1>5 DEF LockDedup
<1>6. ASSUME NEW p \in Procs, UnlockDedup(p) PROVE Dedup'
  BY <1>6 DEF UnlockDedup
<1>7. ASSUME NEW p \in Procs, cleanupDeduplicationMutex(p) PROVE Dedup'
  BY <1>7 DEF cleanupDeduplicationMutex
<1>8. ASSUME NEW p \in Procs, getCreationMutex(p) PROVE Dedup'
  BY <1>8 DEF getCreationMutex
<1>9. ASSUME NEW p \in Procs, LockCreation(p) PROVE Dedup'
  BY <1>9 DEF LockCreation, CreationFree, Creates, Ready
<1>10. ASSUME NEW p \in Procs, dd(p) PROVE Dedup'
  BY <1>10 DEF dd
<1>11. ASSUME NEW p \in Procs, mkfs(p) PROVE Dedup'
  BY <1>11 DEF mkfs, Ready
<1>12. ASSUME NEW p \in Procs, CreationFails(p) PROVE Dedup'
  BY <1>12 DEF CreationFails
<1>13. ASSUME NEW p \in Procs, forgetCreation(p) PROVE Dedup'
  BY <1>13 DEF forgetCreation
<1>14. ASSUME NEW p \in Procs, UnlockCreation(p) PROVE Dedup'
  BY <1>14 DEF UnlockCreation
<1>15. ASSUME NEW p \in Procs, mountLoopFile(p) PROVE Dedup'
  BY <1>15 DEF mountLoopFile, After
<1>16. ASSUME NEW p \in Procs, existsWithinMountedLoop(p) PROVE Dedup'
  BY <1>16 DEF existsWithinMountedLoop
<1>17. ASSUME NEW p \in Procs, createTarget(p) PROVE Dedup'
  BY <1>17 DEF createTarget
<1>18. ASSUME NEW p \in Procs, copyAndSyncFile(p) PROVE Dedup'
  BY <1>18 DEF copyAndSyncFile, Synced
<1>19. ASSUME NEW p \in Procs, removeFileOnError(p) PROVE Dedup'
  BY <1>19 DEF removeFileOnError
<1>20. ASSUME NEW p \in Procs, Read(p) PROVE Dedup'
  BY <1>20 DEF Read, After, MayServe
<1>21. ASSUME NEW p \in Procs, Remove(p) PROVE Dedup'
  BY <1>21 DEF Remove
<1>24. ASSUME NEW p \in Procs, CallbackFails(p) PROVE Dedup'
  BY <1>24 DEF CallbackFails, After
<1>22. CASE Crash
  BY <1>22 DEF Crash
<1>23. CASE UNCHANGED vars
  BY <1>23 DEF vars
<1> QED
  BY <1>1, <1>2, <1>3, <1>4, <1>5, <1>6, <1>7, <1>8, <1>9, <1>10, <1>11,
     <1>12, <1>13, <1>14, <1>15, <1>16, <1>17, <1>18, <1>19, <1>20, <1>21,
     <1>22, <1>23, <1>24 DEF SoundNext, FNext, Proc

LEMMA CreationStep == Inv1 /\ Creation /\ [SoundNext]_vars => Creation'
<1> SUFFICES ASSUME Inv1 /\ Creation, SoundNext \/ UNCHANGED vars PROVE Creation'
  OBVIOUS
<1> USE FileStoreNames, RequestFacts DEF Inv1, FTypeOK, Shape, Steps, DedupHeld, CreationHeld, Creating,
    Mounted, Open, OfUpload, op, hash, Goto, lockVars, diskVars,
    Creation
<1>1. ASSUME NEW p \in Procs, Start(p) PROVE Creation'
  BY <1>1 DEF Start, Operations
<1>2. ASSUME NEW p \in Procs, Return(p) PROVE Creation'
  BY <1>2 DEF Return
<1>3. ASSUME NEW p \in Procs, StatImage(p) PROVE Creation'
  BY <1>3 DEF StatImage
<1>4. ASSUME NEW p \in Procs, getDeduplicationMutex(p) PROVE Creation'
  BY <1>4 DEF getDeduplicationMutex
<1>5. ASSUME NEW p \in Procs, LockDedup(p) PROVE Creation'
  BY <1>5 DEF LockDedup
<1>6. ASSUME NEW p \in Procs, UnlockDedup(p) PROVE Creation'
  BY <1>6 DEF UnlockDedup
<1>7. ASSUME NEW p \in Procs, cleanupDeduplicationMutex(p) PROVE Creation'
  BY <1>7 DEF cleanupDeduplicationMutex
<1>8. ASSUME NEW p \in Procs, getCreationMutex(p), ~CreationForgotten PROVE Creation'
  BY <1>8 DEF getCreationMutex, CreationForgotten
<1>9. ASSUME NEW p \in Procs, LockCreation(p) PROVE Creation'
  BY <1>9 DEF LockCreation, CreationFree, Creates, Ready
<1>10. ASSUME NEW p \in Procs, dd(p) PROVE Creation'
  BY <1>10 DEF dd
<1>11. ASSUME NEW p \in Procs, mkfs(p) PROVE Creation'
  BY <1>11 DEF mkfs, Ready
<1>12. ASSUME NEW p \in Procs, CreationFails(p) PROVE Creation'
  BY <1>12 DEF CreationFails
<1>13. ASSUME NEW p \in Procs, forgetCreation(p) PROVE Creation'
  BY <1>13 DEF forgetCreation
<1>14. ASSUME NEW p \in Procs, UnlockCreation(p) PROVE Creation'
  BY <1>14 DEF UnlockCreation
<1>15. ASSUME NEW p \in Procs, mountLoopFile(p) PROVE Creation'
  BY <1>15 DEF mountLoopFile, After
<1>16. ASSUME NEW p \in Procs, existsWithinMountedLoop(p) PROVE Creation'
  BY <1>16 DEF existsWithinMountedLoop
<1>17. ASSUME NEW p \in Procs, createTarget(p) PROVE Creation'
  BY <1>17 DEF createTarget
<1>18. ASSUME NEW p \in Procs, copyAndSyncFile(p) PROVE Creation'
  BY <1>18 DEF copyAndSyncFile, Synced
<1>19. ASSUME NEW p \in Procs, removeFileOnError(p) PROVE Creation'
  BY <1>19 DEF removeFileOnError
<1>20. ASSUME NEW p \in Procs, Read(p) PROVE Creation'
  BY <1>20 DEF Read, After, MayServe
<1>21. ASSUME NEW p \in Procs, Remove(p) PROVE Creation'
  BY <1>21 DEF Remove
<1>24. ASSUME NEW p \in Procs, CallbackFails(p) PROVE Creation'
  BY <1>24 DEF CallbackFails, After
<1>22. CASE Crash
  BY <1>22 DEF Crash
<1>23. CASE UNCHANGED vars
  BY <1>23 DEF vars
<1> QED
  BY <1>1, <1>2, <1>3, <1>4, <1>5, <1>6, <1>7, <1>8, <1>9, <1>10, <1>11,
     <1>12, <1>13, <1>14, <1>15, <1>16, <1>17, <1>18, <1>19, <1>20, <1>21,
     <1>22, <1>23, <1>24 DEF SoundNext, FNext, Proc

LEMMA FilesStep == IInv /\ [SoundNext]_vars => Files'
<1> SUFFICES ASSUME IInv, SoundNext \/ UNCHANGED vars PROVE Files'
  OBVIOUS
<1> USE FileStoreNames, RequestFacts DEF Inv1, FTypeOK, Shape, Steps, DedupHeld, CreationHeld, Creating,
    Mounted, Open, OfUpload, op, hash, Goto, lockVars, diskVars,
    IInv, Dedup, OneUploadPerHash, Creation, Files, Uploads, SetFile
<1>1. ASSUME NEW p \in Procs, Start(p) PROVE Files'
  BY <1>1 DEF Start, Operations
<1>2. ASSUME NEW p \in Procs, Return(p) PROVE Files'
  BY <1>2 DEF Return
<1>3. ASSUME NEW p \in Procs, StatImage(p) PROVE Files'
  BY <1>3 DEF StatImage
<1>4. ASSUME NEW p \in Procs, getDeduplicationMutex(p) PROVE Files'
  BY <1>4 DEF getDeduplicationMutex
<1>5. ASSUME NEW p \in Procs, LockDedup(p) PROVE Files'
  BY <1>5 DEF LockDedup
<1>6. ASSUME NEW p \in Procs, UnlockDedup(p) PROVE Files'
  BY <1>6 DEF UnlockDedup
<1>7. ASSUME NEW p \in Procs, cleanupDeduplicationMutex(p) PROVE Files'
  BY <1>7 DEF cleanupDeduplicationMutex
<1>8. ASSUME NEW p \in Procs, getCreationMutex(p) PROVE Files'
  BY <1>8 DEF getCreationMutex
<1>9. ASSUME NEW p \in Procs, LockCreation(p) PROVE Files'
  BY <1>9 DEF LockCreation, CreationFree, Creates, Ready
<1>10. ASSUME NEW p \in Procs, dd(p) PROVE Files'
  BY <1>10 DEF dd
<1>11. ASSUME NEW p \in Procs, mkfs(p) PROVE Files'
  BY <1>11 DEF mkfs, Ready
<1>12. ASSUME NEW p \in Procs, CreationFails(p) PROVE Files'
  BY <1>12 DEF CreationFails
<1>13. ASSUME NEW p \in Procs, forgetCreation(p) PROVE Files'
  BY <1>13 DEF forgetCreation
<1>14. ASSUME NEW p \in Procs, UnlockCreation(p) PROVE Files'
  BY <1>14 DEF UnlockCreation
<1>15. ASSUME NEW p \in Procs, mountLoopFile(p) PROVE Files'
  BY <1>15 DEF mountLoopFile, After
<1>16. ASSUME NEW p \in Procs, existsWithinMountedLoop(p) PROVE Files'
  BY <1>16 DEF existsWithinMountedLoop
<1>17. ASSUME NEW p \in Procs, createTarget(p) PROVE Files'
  BY <1>17 DEF createTarget
<1>18. ASSUME NEW p \in Procs, copyAndSyncFile(p) PROVE Files'
  BY <1>18 DEF copyAndSyncFile, Synced
<1>19. ASSUME NEW p \in Procs, removeFileOnError(p) PROVE Files'
  BY <1>19 DEF removeFileOnError
<1>20. ASSUME NEW p \in Procs, Read(p) PROVE Files'
  BY <1>20 DEF Read, After, MayServe
<1>21. ASSUME NEW p \in Procs, Remove(p) PROVE Files'
  BY <1>21 DEF Remove
<1>24. ASSUME NEW p \in Procs, CallbackFails(p) PROVE Files'
  BY <1>24 DEF CallbackFails, After
<1>22. CASE Crash
  BY <1>22 DEF Crash, Left
<1>23. CASE UNCHANGED vars
  BY <1>23 DEF vars
<1> QED
  BY <1>1, <1>2, <1>3, <1>4, <1>5, <1>6, <1>7, <1>8, <1>9, <1>10, <1>11,
     <1>12, <1>13, <1>14, <1>15, <1>16, <1>17, <1>18, <1>19, <1>20, <1>21,
     <1>22, <1>23, <1>24 DEF SoundNext, FNext, Proc

THEOREM Invariance == SoundSpec => []IInv
<1>1. IInv /\ [SoundNext]_vars => IInv'
  BY Step1, DedupStep, CreationStep, FilesStep DEF IInv
<1> QED
  BY InitInv, <1>1, PTL DEF SoundSpec

\* The types.
THEOREM TypeCorrect == SoundSpec => []FTypeOK
<1>1. IInv => FTypeOK
  BY DEF IInv, Inv1
<1> QED
  BY <1>1, Invariance, PTL

\* The deduplication mutex of a hash lets one upload in at a time, as long as
\* nobody makes a second one next to a mutex that was deleted while in use.
THEOREM UploadsExclude == SoundSpec => []OneUploadPerHash
<1>1. IInv => OneUploadPerHash
  BY DEF IInv, Dedup
<1> QED
  BY <1>1, Invariance, PTL

\* The creation mutex lets one goroutine make the image, before it is in use.
THEOREM OneCreator == SoundSpec => []ImageMadeOnce
<1>1. IInv => ImageMadeOnce
  <2> SUFFICES ASSUME IInv, NEW p \in Procs, pc[p] \in Creating
               PROVE  /\ \A q \in Procs \ {p} : pc[q] \notin Creating \cup Mounted
                      /\ \A h \in Hashes : file[h] = None
    BY DEF ImageMadeOnce
  <2>1. image # "ext4"
    BY DEF IInv, Creation, Creating
  <2> QED
    BY <2>1 DEF IInv, Creation, Files, CreationHeld
<1> QED
  BY <1>1, Invariance, PTL

\* What is whole and on disk stays under its name until a delete removes it.
THEOREM ContentStays == SoundSpec => WholeUntilDeleted
<1> DEFINE Kept == \A h \in Hashes : file[h] = "saved" /\ file'[h] # "saved" =>
                      \E p \in Procs : op(p) = "delete" /\ hash(p) = h /\ answer'[p] = "deleted"
<1>1. ASSUME IInv, SoundNext PROVE Kept
  <2> SUFFICES ASSUME NEW h \in Hashes, file[h] = "saved", file'[h] # "saved"
               PROVE  \E p \in Procs : op(p) = "delete" /\ hash(p) = h /\ answer'[p] = "deleted"
    OBVIOUS
  <2> USE <1>1, FileStoreNames DEF IInv, Inv1, FTypeOK, Files
  <2>1. ~Crash
    BY DEF Crash, Left
  <2>2. PICK p \in Procs : Proc(p)
    BY <1>1, <2>1 DEF SoundNext, FNext
  <2>3. file' # file
    OBVIOUS
  <2>4. ~dd(p)
    BY DEF dd, Goto, Creation
  <2>5. ~createTarget(p) /\ ~copyAndSyncFile(p) /\ ~removeFileOnError(p)
    BY <2>3 DEF createTarget, copyAndSyncFile, removeFileOnError, Goto, SetFile
  <2>6. Remove(p)
    BY <2>2, <2>3, <2>4, <2>5 DEF Proc, Start, Return, StatImage, getDeduplicationMutex,
       LockDedup, UnlockDedup, cleanupDeduplicationMutex, getCreationMutex, LockCreation, mkfs,
       CreationFails, forgetCreation, UnlockCreation, mountLoopFile, existsWithinMountedLoop,
       Read, CallbackFails, diskVars
  <2> QED
    BY <2>6 DEF Remove, SetFile, Returns
<1>2. IInv /\ [SoundNext]_vars => [Kept]_vars
  BY <1>1
<1> QED
  BY Invariance, <1>2, PTL DEF SoundSpec, WholeUntilDeleted

-----------------------------------------------------------------------------
(* The promise of ContentStore.                                            *)

\* How a step shows in what the callers see.
LEMMA SetArrives ==
    ASSUME IInv, NEW p \in Procs, request[p] \in Requests, NEW f, SetFile(p, f)
    PROVE  Arrived' = [Arrived EXCEPT ![hash(p)] = Shown(f)]
BY RequestFacts DEF IInv, Inv1, FTypeOK, SetFile, Arrived, hash

LEMMA SameArrived == UNCHANGED file => UNCHANGED Arrived
BY DEF Arrived, Shown

LEMMA ArrivedAt ==
    ASSUME IInv, NEW p \in Procs, request[p] \in Requests
    PROVE  Arrived[hash(p)] = Shown(file[hash(p)])
BY RequestFacts DEF IInv, Inv1, FTypeOK, Arrived, hash

LEMMA SetTold ==
    ASSUME IInv, NEW p \in Procs, NEW s, NEW t, Goto(p, s, t), t # "copy",
           NEW a, Returns(p, a)
    PROVE  Told' = [Told EXCEPT ![p] = a]
BY DEF IInv, Inv1, FTypeOK, Goto, Returns, Told

LEMMA SameTold ==
    ASSUME IInv, NEW p \in Procs, NEW s, NEW t, Goto(p, s, t),
           s # "copy", t # "copy", UNCHANGED answer
    PROVE  UNCHANGED Told
BY DEF IInv, Inv1, FTypeOK, Goto, Told

LEMMA ToldAt ==
    ASSUME IInv, NEW p \in Procs
    PROVE  Told[p] = IF pc[p] = "copy" THEN "storing" ELSE answer[p]
BY DEF Told

LEMMA PromiseInit == FInit => Promise!CInit
BY DEF FInit, Promise!CInit, Arrived, Told, Shown, Promise!NoRequest, NoRequest

LEMMA Unseen ==
    ASSUME IInv, NEW p \in Procs, NEW s, NEW t, Goto(p, s, t),
           s # "copy", t # "copy", UNCHANGED <<request, answer, file>>
    PROVE  UNCHANGED Promise!cVars
BY SameTold, SameArrived DEF Promise!cVars

\* The steps that a caller sees, as steps of ContentStore.
LEMMA PromiseStep ==
    ASSUME IInv, NEW p \in Procs, Proc(p)
    PROVE  [Promise!CNext]_(Promise!cVars)
<1> USE RequestFacts DEF Promise!NoRequest, NoRequest, Promise!Requests, Requests,
    Promise!Operations, Operations, Promise!Asked, Promise!Answer, Promise!Becomes,
    Promise!The, Returns, SetFile, Promise!cVars
<1>0. /\ request[p] = NoRequest \/ request[p] \in Requests
      /\ request[p] = NoRequest <=> pc[p] = "idle"
      /\ pc[p] \in Open => answer[p] = "none"
      /\ pc[p] = "reply" => answer[p] \notin {"none", "storing"}
      /\ pc[p] \in OfUpload => op(p) = "upload"
      /\ pc[p] = "stat" => op(p) # "upload"
      /\ Told[p] = IF pc[p] = "copy" THEN "storing" ELSE answer[p]
      /\ request[p] \in Requests =>
            /\ Arrived[hash(p)] = Shown(file[hash(p)])
            /\ file[hash(p)] \in Procs \cup {None, "cached", "saved", "torn", "remains"}
  BY ArrivedAt, ToldAt DEF IInv, Inv1, FTypeOK, Shape, hash
<1>7. ASSUME NEW s \in Steps \ {"copy"}, NEW t \in Steps \ {"copy"}, Goto(p, s, t),
             pc[p] \in Open \ {"idle"}, Returns(p, "error"), UNCHANGED <<request, file>>
      PROVE  [Promise!CNext]_(Promise!cVars)
  <2>1. UNCHANGED Arrived /\ Told' = [Told EXCEPT ![p] = "error"]
    BY <1>7, SetTold, SameArrived
  <2>2. file[hash(p)] # p
    BY <1>0, <1>7 DEF IInv, Files, Goto, hash
  <2>3. Arrived[hash(p)] # p
    BY <1>0, <1>7, <2>2, FileStoreNames DEF Shown
  <2>4. Promise!Fail(p)
    BY <1>0, <1>7, <2>1, <2>3 DEF Promise!Fail, Goto, hash
  <2> QED
    BY <2>4 DEF Promise!CNext
<1>1. CASE Start(p)
  <2>1. UNCHANGED <<Arrived, Told>>
    BY <1>1, SameTold, SameArrived DEF Start, lockVars, diskVars
  <2>2. Promise!Call(p)
    BY <1>0, <1>1, <2>1 DEF Start, Promise!Call, Goto
  <2> QED
    BY <2>2 DEF Promise!CNext
<1>2. CASE Return(p)
  <2>1. UNCHANGED Arrived /\ Told' = [Told EXCEPT ![p] = "none"]
    BY <1>2, SetTold, SameArrived DEF Return, lockVars, diskVars
  <2>2. Promise!Reply(p)
    BY <1>0, <1>2, <2>1 DEF Return, Promise!Reply, Goto
  <2> QED
    BY <2>2 DEF Promise!CNext
<1>3. CASE StatImage(p)
  <2>1. CASE Goto(p, "stat", "lookup") /\ UNCHANGED answer
    BY <1>3, <2>1, Unseen DEF StatImage, diskVars
  <2>2. CASE image = "absent" /\ Goto(p, "stat", "reply") /\ Returns(p, "notFound")
    <3>1. UNCHANGED Arrived /\ Told' = [Told EXCEPT ![p] = "notFound"]
      BY <1>3, <2>2, SetTold, SameArrived DEF StatImage, diskVars
    <3>2. file[hash(p)] = None
      BY <1>0, <2>2 DEF IInv, Files, Goto, hash, OfUpload
    <3>3. Promise!NotFound(p)
      BY <1>0, <1>3, <2>2, <3>1, <3>2 DEF StatImage, Promise!NotFound, Goto, Shown, op, hash, Open
    <3> QED
      BY <3>3 DEF Promise!CNext
  <2>3. CASE Goto(p, "stat", "reply") /\ Returns(p, "error")
    BY <1>3, <1>7, <2>3 DEF StatImage, diskVars, Goto, Steps, Open
  <2> QED
    BY <1>3, <2>1, <2>2, <2>3 DEF StatImage
<1>4. CASE \/ getDeduplicationMutex(p) \/ LockDedup(p) \/ UnlockDedup(p)
           \/ cleanupDeduplicationMutex(p) \/ getCreationMutex(p) \/ mkfs(p)
           \/ forgetCreation(p) \/ UnlockCreation(p)
  BY <1>4, Unseen DEF getDeduplicationMutex, LockDedup, UnlockDedup, diskVars,
     cleanupDeduplicationMutex, getCreationMutex, mkfs, Ready, forgetCreation, UnlockCreation
<1>5. CASE LockCreation(p)
  <2>1. CASE (Goto(p, "lock", Ready(p)) \/ Goto(p, "lock", "dd")) /\ UNCHANGED answer
    BY <1>5, <2>1, Unseen DEF LockCreation, diskVars, Ready
  <2>2. CASE /\ image = "absent" /\ op(p) = "delete"
             /\ Goto(p, "lock", "unlockCreation") /\ Returns(p, "notFound")
    <3>1. UNCHANGED Arrived /\ Told' = [Told EXCEPT ![p] = "notFound"]
      BY <1>5, <2>2, SetTold, SameArrived DEF LockCreation, diskVars
    <3>2. file[hash(p)] = None
      BY <1>0, <2>2 DEF IInv, Files, Goto, hash
    <3>3. Promise!NotFound(p)
      BY <1>0, <1>5, <2>2, <3>1, <3>2
         DEF LockCreation, Promise!NotFound, Goto, Shown, op, hash, Open
    <3> QED
      BY <3>3 DEF Promise!CNext
  <2>3. CASE Goto(p, "lock", "unlockCreation") /\ Returns(p, "error")
    BY <1>5, <1>7, <2>3 DEF LockCreation, diskVars, Goto, Steps, DedupHeld, CreationHeld, Open
  <2> QED
    BY <1>5, <2>1, <2>2, <2>3 DEF LockCreation
<1>6. CASE dd(p)
  <2>1. \A h \in Hashes : file[h] = None
    BY <1>6 DEF dd, Goto, IInv, Creation, Files
  <2>2. UNCHANGED file
    BY <1>6, <2>1 DEF dd, IInv, Inv1, FTypeOK
  <2> QED
    BY <1>6, <2>2, Unseen DEF dd
<1>8. CASE CreationFails(p)
  BY <1>7, <1>8 DEF CreationFails, Goto, Steps, DedupHeld, CreationHeld, Creating, Open
<1>9. CASE mountLoopFile(p)
  <2>1. CASE Goto(p, "mount", "body") /\ UNCHANGED answer
    BY <1>9, <2>1, Unseen DEF mountLoopFile, diskVars
  <2>2. CASE Goto(p, "mount", After(p)) /\ Returns(p, "error")
    BY <1>7, <1>9, <2>2 DEF mountLoopFile, After, diskVars, Goto, Steps, DedupHeld, Open
  <2> QED
    BY <1>9, <2>1, <2>2 DEF mountLoopFile
<1>10. CASE existsWithinMountedLoop(p)
  <2>1. CASE Goto(p, "body", "create") /\ UNCHANGED answer
    BY <1>10, <2>1, Unseen DEF existsWithinMountedLoop, diskVars
  <2>2. CASE /\ file[hash(p)] # None
             /\ Goto(p, "body", "forget") /\ Returns(p, "conflict")
    <3>1. UNCHANGED Arrived /\ Told' = [Told EXCEPT ![p] = "conflict"]
      BY <1>10, <2>2, SetTold, SameArrived DEF existsWithinMountedLoop, diskVars
    <3>2. file[hash(p)] \notin Procs
      <4> SUFFICES ASSUME file[hash(p)] \in Procs PROVE FALSE
        OBVIOUS
      <4>1. hash(p) \in Hashes
        BY <1>0, <2>2 DEF Goto, hash
      <4>2. pc[file[hash(p)]] = "copy" /\ Uploads(file[hash(p)], hash(p))
        BY <4>1 DEF IInv, Files
      <4>3. file[hash(p)] # p
        BY <4>2, <2>2 DEF Goto
      <4> QED
        BY <1>10, <2>2, <4>2, <4>3
           DEF IInv, Dedup, OneUploadPerHash, Uploads, existsWithinMountedLoop, Goto,
               DedupHeld, Mounted
    <3>3. Shown(file[hash(p)]) \in {"stored", "torn", "remains"}
      BY <1>0, <2>2, <3>2 DEF Shown, IInv, Inv1, FTypeOK, hash, Goto
    <3>4. Promise!RefuseUpload(p)
      BY <1>0, <1>10, <2>2, <3>1, <3>3
         DEF existsWithinMountedLoop, Promise!RefuseUpload, Goto, op, hash, Open
    <3> QED
      BY <3>4 DEF Promise!CNext
  <2> QED
    BY <1>10, <2>1, <2>2 DEF existsWithinMountedLoop
<1>11. CASE createTarget(p)
  <2>1. CASE Goto(p, "create", "copy") /\ SetFile(p, p) /\ UNCHANGED answer
    <3>1. Arrived' = [Arrived EXCEPT ![hash(p)] = p]
      <4>1. Arrived' = [Arrived EXCEPT ![hash(p)] = Shown(p)]
        BY <1>0, <2>1, SetArrives DEF Goto
      <4>2. Shown(p) = p
        BY FileStoreNames DEF Shown
      <4> QED
        BY <4>1, <4>2
    <3>2. Told' = [Told EXCEPT ![p] = "storing"]
      BY <2>1 DEF Told, Goto, IInv, Inv1, FTypeOK
    <3>3. file[hash(p)] = None
      BY <2>1 DEF IInv, Files, Goto
    <3>4. Promise!BeginUpload(p)
      BY <1>0, <1>11, <2>1, <3>1, <3>2, <3>3
         DEF createTarget, Promise!BeginUpload, Goto, op, hash, Open, OfUpload, Shown
    <3> QED
      BY <3>4 DEF Promise!CNext
  <2>2. CASE Goto(p, "create", "forget") /\ Returns(p, "error") /\ UNCHANGED file
    BY <1>7, <1>11, <2>2 DEF createTarget, Goto, Steps, DedupHeld, Mounted, Open
  <2> QED
    BY <1>11, <2>1, <2>2 DEF createTarget
<1>12. pc[p] = "copy" => /\ Told[p] = "storing" /\ request[p] \in Requests
                         /\ file[hash(p)] \in {p, None}
  BY <1>0 DEF IInv, Files
<1>13. CASE copyAndSyncFile(p)
  <2>1. Told' = [Told EXCEPT ![p] = "created"]
    BY <1>13, SetTold DEF copyAndSyncFile
  <2>2. Arrived' = [Arrived EXCEPT ![hash(p)] =
                       IF Arrived[hash(p)] = p THEN "stored" ELSE Arrived[hash(p)]]
    <3>1. Arrived' = [Arrived EXCEPT ![hash(p)] =
                         Shown(IF file[hash(p)] = p THEN Synced ELSE file[hash(p)])]
      BY <1>12, <1>13, SetArrives DEF copyAndSyncFile, Goto
    <3> QED
      BY <1>0, <1>12, <1>13, <3>1, FileStoreNames DEF copyAndSyncFile, Goto, Shown, Synced
  <2>3. Promise!FinishUpload(p)
    BY <1>12, <1>13, <2>1, <2>2 DEF copyAndSyncFile, Promise!FinishUpload, Goto, hash
  <2> QED
    BY <2>3 DEF Promise!CNext
<1>14. CASE removeFileOnError(p)
  <2>1. Told' = [Told EXCEPT ![p] = "error"]
    BY <1>14, SetTold DEF removeFileOnError
  <2>2. CASE file[hash(p)] = p
    <3>1. PICK f \in {None, "remains"} : SetFile(p, f)
      BY <1>14 DEF removeFileOnError
    <3>2. Arrived' = [Arrived EXCEPT ![hash(p)] = Shown(f)] /\ Shown(f) \in {"absent", "remains"}
      BY <1>12, <1>14, <3>1, SetArrives, FileStoreNames DEF removeFileOnError, Goto, Shown
    <3>3. Arrived[hash(p)] = p
      BY <1>0, <1>12, <1>14, <2>2, FileStoreNames DEF removeFileOnError, Goto, Shown
    <3>4. Promise!Fail(p)
      BY <1>12, <1>14, <2>1, <3>2, <3>3 DEF removeFileOnError, Promise!Fail, Goto, hash
    <3> QED
      BY <3>4 DEF Promise!CNext
  <2>3. CASE file[hash(p)] # p
    <3>1. file[hash(p)] = None /\ SetFile(p, None)
      BY <1>12, <1>14, <2>3 DEF removeFileOnError, Goto
    <3>2. hash(p) \in Hashes /\ UNCHANGED file
      BY <1>12, <1>14, <3>1, RequestFacts
         DEF removeFileOnError, Goto, SetFile, IInv, Inv1, FTypeOK, hash
    <3>3. Arrived[hash(p)] # p
      BY <1>0, <1>12, <1>14, <3>1, FileStoreNames DEF removeFileOnError, Goto, Shown
    <3>4. Promise!Fail(p)
      BY <1>12, <1>14, <2>1, <3>2, <3>3, SameArrived DEF removeFileOnError, Promise!Fail, Goto, hash
    <3> QED
      BY <3>4 DEF Promise!CNext
  <2> QED
    BY <2>2, <2>3
<1>15. CASE Read(p)
  <2>1. UNCHANGED Arrived /\ request[p] \in Requests /\ Told[p] = "none"
    BY <1>0, <1>15, SameArrived DEF Read, diskVars, Goto, Open
  <2>2. ASSUME NEW a, Returns(p, a)
        PROVE  Told' = [Told EXCEPT ![p] = a]
    <3>1. Goto(p, "body", After(p)) /\ After(p) # "copy"
      BY <1>15 DEF Read, After
    <3> QED
      BY <2>2, <3>1, SetTold
  <2>3. CASE op(p) = "download"
    <3>1. PICK a \in {"notFound", "whole", "part"} : MayServe(file[hash(p)], a) /\ Returns(p, a)
      BY <1>15, <2>3 DEF Read
    <3>2. Told' = [Told EXCEPT ![p] = a]
      BY <2>2, <3>1
    <3>3. Promise!Download(p) \/ Promise!NotFound(p)
      BY <1>0, <1>15, <2>1, <2>3, <3>1, <3>2, FileStoreNames
         DEF Read, MayServe, Shown, Promise!Download, Promise!NotFound, op, hash
    <3> QED
      BY <3>3 DEF Promise!CNext
  <2>4. CASE op(p) = "exists"
    <3>1. Told' = [Told EXCEPT ![p] = IF file[hash(p)] = None THEN "notFound" ELSE "found"]
      BY <1>15, <2>2, <2>4 DEF Read
    <3>2. Promise!Exists(p) \/ Promise!NotFound(p)
      BY <1>0, <1>15, <2>1, <2>4, <3>1, FileStoreNames
         DEF Read, Shown, Promise!Exists, Promise!NotFound, op, hash
    <3> QED
      BY <3>2 DEF Promise!CNext
  <2> QED
    BY <1>15, <2>3, <2>4 DEF Read
<1>16. CASE Remove(p)
  <2>1. request[p] \in Requests /\ Told[p] = "none"
    BY <1>0, <1>16 DEF Remove, Goto, Open
  <2>2. Arrived' = [Arrived EXCEPT ![hash(p)] = "absent"]
    <3>1. Arrived' = [Arrived EXCEPT ![hash(p)] = Shown(None)]
      BY <1>16, <2>1, SetArrives DEF Remove
    <3> QED
      BY <3>1 DEF Shown
  <2>3. Told' = [Told EXCEPT ![p] = IF file[hash(p)] = None THEN "notFound" ELSE "deleted"]
    BY <1>16, SetTold DEF Remove
  <2>4. CASE file[hash(p)] = None
    <3>1. Arrived' = Arrived
      BY <1>0, <2>1, <2>2, <2>4 DEF Shown, Arrived
    <3>2. Promise!NotFound(p)
      BY <1>0, <1>16, <2>1, <2>3, <2>4, <3>1 DEF Remove, Promise!NotFound, Shown, op, hash
    <3> QED
      BY <3>2 DEF Promise!CNext
  <2>5. CASE file[hash(p)] # None
    <3>1. Promise!Delete(p)
      BY <1>0, <1>16, <2>1, <2>2, <2>3, <2>5, FileStoreNames
         DEF Remove, Promise!Delete, Shown, op, hash
    <3> QED
      BY <3>1 DEF Promise!CNext
  <2> QED
    BY <2>4, <2>5
<1>17. CASE CallbackFails(p)
  BY <1>7, <1>17 DEF CallbackFails, After, diskVars, Goto, Steps, DedupHeld, Mounted, Open
<1> QED
  BY <1>1, <1>2, <1>3, <1>4, <1>5, <1>6, <1>8, <1>9, <1>10, <1>11, <1>13, <1>14, <1>15,
     <1>16, <1>17 DEF Proc

LEMMA PromiseCrash == IInv /\ Crash => Promise!Crash
<1> SUFFICES ASSUME IInv, Crash PROVE Promise!Crash
  OBVIOUS
<1>1. \A h \in Hashes : /\ Arrived[h] = Shown(file[h])
                        /\ Arrived'[h] = Shown(file'[h])
  BY DEF Arrived, Shown
<1>2. \A h \in Hashes : /\ Shown(file'[h]) \in {"absent", "torn", "stored"}
                        /\ Shown(file'[h]) \in Promise!Survives(Shown(file[h]))
  BY FileStoreNames DEF IInv, Inv1, FTypeOK, Files, Crash, Left, Shown, Promise!Survives
<1>3. Arrived' \in [Hashes -> {"absent", "torn", "stored"}]
  BY <1>1, <1>2 DEF Arrived, Shown
<1> QED
  BY <1>1, <1>2, <1>3 DEF Crash, Promise!Crash, Told, Promise!NoRequest, NoRequest

\* The file operations implement ContentStore.
THEOREM Refinement == SoundSpec => KeepsPromise
<1>1. IInv /\ [SoundNext]_vars => [Promise!CNext]_(Promise!cVars)
  <2> SUFFICES ASSUME IInv, [SoundNext]_vars PROVE [Promise!CNext]_(Promise!cVars)
    OBVIOUS
  <2>1. CASE Crash
    BY <2>1, PromiseCrash DEF Promise!CNext
  <2>2. ASSUME NEW p \in Procs, Proc(p) PROVE [Promise!CNext]_(Promise!cVars)
    BY <2>2, PromiseStep
  <2>3. CASE UNCHANGED vars
    BY <2>3 DEF vars, diskVars, Promise!cVars, Arrived, Told, Shown
  <2> QED
    BY <2>1, <2>2, <2>3 DEF SoundNext, FNext
<1> QED
  BY Invariance, PromiseInit, <1>1, PTL DEF SoundSpec, KeepsPromise, Promise!CSpec
=============================================================================
