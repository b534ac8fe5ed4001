------------------------------ MODULE BlockSpace ------------------------------
(***************************************************************************)
(* The room on one image: casd's upload handler with the Store Manager's   *)
(* VerifyBlock, which measures the room, resizes the image by what it has  *)
(* measured, and leaves; the upload takes its room afterwards.             *)
(*                                                                         *)
(* Sizes are in a unit of which MB make a megabyte, the granularity of     *)
(* images.  A content is its size: no two of one size.  A resize runs      *)
(* alone (ResizeWindows), the uploads of a content one at a time           *)
(* (FileStore); each is one lock's worth here.                             *)
(***************************************************************************)
EXTENDS Integers, FiniteSets

CONSTANTS
    Procs,          \* goroutines of the upload handler
    Contents,       \* contents with the prefix of the image, by size
    MB,             \* bytesPerMB
    LoopFileSize,   \* Store.loopFileSize, in units
    BufferSize,     \* Manager.bufferSize
    MaxSize,        \* the largest image that the disk has room for
    Overhead(_),    \* what mkfs.ext4 takes for itself of an image of a size
    Reserve         \* blocks that ext4 keeps for root, which casd is

ASSUME Sizes ==
    /\ Contents \subseteq Nat \ {0}
    /\ MB \in Nat \ {0} /\ BufferSize \in Nat /\ Reserve \in Nat
    /\ MaxSize \in Nat /\ \A s \in 1..MaxSize : Overhead(s) \in Nat
    /\ LoopFileSize \in 1..MaxSize /\ LoopFileSize > Overhead(LoopFileSize)

ResizeFactor == 2

\* The buffer makes up for what mkfs.ext4 takes of an image of size s and for
\* what rounding loses.  The default 128 MB do so up to a few gigabytes, and
\* nothing in the code looks whether they do.
Covered(s) == Overhead(s) + MB <= BufferSize + 1

VARIABLES
    size,           \* of the image, 0 while there is none
    used,           \* room taken on its file system
    stored,         \* the contents whose name is there, whole or not
    room,           \* room[c]: what the file of that name takes
    unlinked,       \* the uploads whose file was deleted while they write it
    pc,             \* pc[p]: what p does next
    file,           \* file[p]: the content that p uploads, 0 for none
    newSize,        \* newSize[p]: what p asks ResizeBlock for
    taken,          \* taken[p]: how much of its content p has written
    excuse          \* history: why p may lack room: there was no image to measure,
                    \* the content was there, others wrote or resized since, or
                    \* mkfs.ext4 took more of the new image than the buffer

filesOn == <<stored, room, unlinked>>
vars == <<size, used, filesOn, pc, file, newSize, taken, excuse>>

Total == IF size = 0 THEN 0 ELSE size - Overhead(size)
Copying(p) == pc[p] \in {"copy", "full"}

SpaceTypeOK ==
    /\ size \in 0..MaxSize /\ (size # 0 => size > Overhead(size))
    /\ used \in Int /\ used <= Total
    /\ stored \subseteq Contents /\ room \in [Contents -> Nat]
    /\ unlinked \subseteq Procs
    /\ pc \in [Procs -> {"idle", "exists", "verify", "resize", "upload", "copy", "full"}]
    /\ file \in [Procs -> Contents \cup {0}]
    /\ newSize \in [Procs -> Nat]
    /\ taken \in [Procs -> Nat]
    /\ excuse \in [Procs -> SUBSET {"missing", "found", "written", "resized", "overhead"}]

SInit ==
    /\ size = 0 /\ used = 0
    /\ stored = {} /\ room = [c \in Contents |-> 0] /\ unlinked = {}
    /\ pc = [p \in Procs |-> "idle"]
    /\ file = [p \in Procs |-> 0]
    /\ newSize = [p \in Procs |-> 0]
    /\ taken = [p \in Procs |-> 0]
    /\ excuse = [p \in Procs |-> {}]

Goto(p, from, to) == pc[p] = from /\ pc' = [pc EXCEPT ![p] = to]
Excused(p, why) == excuse' = [excuse EXCEPT ![p] = why]
OthersSee(p, what) ==
    excuse' = [q \in Procs |-> IF q = p THEN excuse[q] ELSE excuse[q] \cup {what}]
Occupies(c, n) == room' = [room EXCEPT ![c] = n]
Answers(p) ==
    /\ pc' = [pc EXCEPT ![p] = "idle"]
    /\ file' = [file EXCEPT ![p] = 0]
    /\ newSize' = [newSize EXCEPT ![p] = 0]
    /\ taken' = [taken EXCEPT ![p] = 0]

-----------------------------------------------------------------------------

\* The content is in a temporary file, and its hash and size are known.
uploadFile(p) ==
    /\ Goto(p, "idle", "exists")
    /\ \E c \in Contents : file' = [file EXCEPT ![p] = c]
    /\ Excused(p, {})
    /\ UNCHANGED <<size, used, filesOn, newSize, taken>>

\* A content that is under way is found as well, and so is what a failed upload
\* left; an error is "not found".
Exists(p) ==
    /\ \/ /\ \/ file[p] \in stored
             \/ \E q \in Procs \ unlinked : Copying(q) /\ file[q] = file[p]
          /\ Goto(p, "exists", "upload") /\ Excused(p, {"found"})
       \/ Goto(p, "exists", "verify") /\ UNCHANGED excuse
    /\ UNCHANGED <<size, used, filesOn, file, newSize, taken>>

SpaceAvailable == IF Total - used > Reserve THEN Total - used - Reserve ELSE 0

\* Mutant: the new size starts from the room that is left.
SizeOfRest(p) == SpaceAvailable + file[p] * ResizeFactor + BufferSize

SizeFor(p) == Total + file[p] * ResizeFactor + BufferSize

\* Mutant: looks for room for the buffer only.
BufferFits(p) == SpaceAvailable >= BufferSize

Fits(p) == SpaceAvailable >= file[p] + BufferSize

VerifyBlock(p) ==
    /\ \/ /\ size = 0 /\ Goto(p, "verify", "upload")
          /\ Excused(p, {"missing"}) /\ UNCHANGED newSize
       \/ /\ size # 0 /\ Fits(p) /\ Goto(p, "verify", "upload")
          /\ Excused(p, {}) /\ UNCHANGED newSize
       \/ /\ size # 0 /\ ~Fits(p) /\ Goto(p, "verify", "resize")
          /\ newSize' = [newSize EXCEPT ![p] = SizeFor(p)]
          /\ Excused(p, {})
    /\ UNCHANGED <<size, used, filesOn, file, taken>>

\* Commands fail, and so does the handler.
VerifyFails(p) ==
    /\ pc[p] \in {"verify", "resize", "upload"}
    /\ Answers(p)
    /\ UNCHANGED <<size, used, filesOn, excuse>>

Rounded(n) == IF n < MB THEN MB ELSE (n \div MB) * MB

\* An image that mkfs.ext4 can format and the disk can hold
Formats(n) == n <= MaxSize /\ n > Overhead(n)

ResizedBy(p) ==
    /\ size' = Rounded(newSize[p])
    /\ excuse' = [q \in Procs |-> IF q # p THEN excuse[q] \cup {"resized"}
                       ELSE IF Covered(size') THEN excuse[q]
                       ELSE excuse[q] \cup {"overhead"}]

\* Mutant: goes on when rsync has failed.
resizeAnyway(p) ==
    /\ \A q \in Procs : ~Copying(q)
    /\ Formats(Rounded(newSize[p]))
    /\ ResizedBy(p)
    /\ Goto(p, "resize", "upload")
    /\ UNCHANGED <<used, filesOn, file, newSize, taken>>

\* Under the write lock.  rsync fails when the files do not fit (VerifyFails).
ResizeBlock(p) ==
    /\ \A q \in Procs : ~Copying(q)
    /\ Formats(Rounded(newSize[p]))
    /\ used <= Rounded(newSize[p]) - Overhead(Rounded(newSize[p]))
    /\ ResizedBy(p)
    /\ Goto(p, "resize", "upload")
    /\ UNCHANGED <<used, filesOn, file, newSize, taken>>

\* Under the read lock and the deduplication mutex: the image is there or made.
UploadWithHash(p) ==
    /\ \A q \in Procs : ~(Copying(q) /\ file[q] = file[p])
    /\ size' = IF size = 0 THEN LoopFileSize ELSE size
    /\ \/ file[p] \in stored /\ pc[p] = "upload" /\ Answers(p)
       \/ file[p] \notin stored /\ Goto(p, "upload", "copy")
             /\ UNCHANGED <<file, newSize, taken>>
    /\ UNCHANGED <<used, filesOn, excuse>>

Write(p) ==
    /\ pc[p] = "copy" /\ taken[p] < file[p] /\ used < Total
    /\ taken' = [taken EXCEPT ![p] = @ + 1]
    /\ used' = used + 1
    /\ OthersSee(p, "written")
    /\ UNCHANGED <<size, filesOn, pc, file, newSize>>

\* ENOSPC
NoRoom(p) ==
    /\ taken[p] < file[p] /\ used = Total
    /\ Goto(p, "copy", "full")
    /\ UNCHANGED <<size, used, filesOn, file, newSize, taken, excuse>>

\* The file of p stays under its name.
Leaves(p) ==
    /\ p \notin unlinked
    /\ stored' = stored \cup {file[p]} /\ Occupies(file[p], taken[p])
    /\ UNCHANGED <<used, unlinked>>

\* The file of p is closed without a name, and its room is free again.
GivesBack(p) ==
    /\ used' = used - taken[p] /\ unlinked' = unlinked \ {p}
    /\ UNCHANGED <<stored, room>>

Written(p) ==
    /\ pc[p] = "copy" /\ taken[p] = file[p]
    /\ Leaves(p) \/ (p \in unlinked /\ GivesBack(p))
    /\ Answers(p)
    /\ UNCHANGED <<size, excuse>>

\* Mutant: does not close the file, which keeps its room.
removeUnclosed(p) ==
    /\ Copying(p)
    /\ UNCHANGED <<used, filesOn>>
    /\ Answers(p)
    /\ UNCHANGED <<size, excuse>>

\* An os.Remove that fails is only logged: the file stays, with its room.
removeFileOnError(p) ==
    /\ Copying(p)
    /\ GivesBack(p) \/ Leaves(p)
    /\ Answers(p)
    /\ UNCHANGED <<size, excuse>>

\* What is being written keeps its room until it is closed.
Delete(c) ==
    /\ \/ /\ c \in stored
          /\ stored' = stored \ {c} /\ Occupies(c, 0) /\ used' = used - room[c]
          /\ UNCHANGED unlinked
       \/ /\ \E p \in Procs \ unlinked :
                Copying(p) /\ file[p] = c /\ unlinked' = unlinked \cup {p}
          /\ UNCHANGED <<used, stored, room>>
    /\ UNCHANGED <<size, pc, file, newSize, taken, excuse>>

SNext ==
    \/ \E p \in Procs :
          \/ uploadFile(p) \/ Exists(p) \/ VerifyBlock(p) \/ VerifyFails(p)
          \/ ResizeBlock(p) \/ UploadWithHash(p) \/ Write(p) \/ NoRoom(p)
          \/ Written(p) \/ removeFileOnError(p)
    \/ \E c \in Contents : Delete(c)

SSpec == SInit /\ [][SNext]_vars

-----------------------------------------------------------------------------
(* Properties                                                              *)

\* The units of room on the image, by what they belong to.
Units(x, n) == {x} \X (1..n)
Kept == UNION {Units(c, room[c]) : c \in stored}
UnderWay == UNION {Units(p, taken[p]) : p \in Procs}

\* The room that is taken is the room of the files that have a name and of those
\* under way.  An upload that fails half-way, alone or with others, gives back
\* all it took or leaves a file that a delete gives back, also when the delete
\* came while it wrote; and a resize to any size neither adds nor loses any.
RoomIsAccounted == used = Cardinality(Kept) + Cardinality(UnderWay)

\* An upload that was verified runs out of room only when another one has
\* written or resized since its measurement, when it measured nothing, or when
\* mkfs.ext4 took more of the image it had made than the buffer makes up for:
\* otherwise the size it asked for covers its content and the rounding.
RoomWhenAlone == \A p \in Procs : pc[p] = "full" => excuse[p] # {}

\* "rsync to larger loop file" (LOOP_STORE_ARCHITECTURE.md:788): a resize leaves
\* less room than there was only if another one overtook it, so that its size was
\* reckoned from the older image, or if mkfs.ext4 takes more of the new image than
\* the buffer makes up for, as it does of images beyond a few gigabytes.
ShrinksForAReason ==
    [][Total' < Total =>
          \E p \in Procs :
              /\ pc[p] = "resize" /\ pc'[p] = "upload"
              /\ "resized" \in excuse[p] \/ ~Covered(size')]_vars
=============================================================================
