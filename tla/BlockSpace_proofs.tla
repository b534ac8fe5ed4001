--------------------------- MODULE BlockSpace_proofs ---------------------------
(***************************************************************************)
(* Theorems about BlockSpace, for all uploads, contents and sizes that the *)
(* assumptions allow: what a measurement is worth when it is used.         *)
(***************************************************************************)
EXTENDS BlockSpace, FiniteSetTheorems, TLAPS

\* What p has written is part of its content, and it writes only when it copies.
Progress(p) ==
    /\ pc[p] # "idle" => file[p] \in Contents
    /\ taken[p] <= file[p]
    /\ ~Copying(p) => taken[p] = 0
    /\ pc[p] \in {"upload", "copy", "full"} => size # 0 \/ excuse[p] # {}
    /\ pc[p] = "resize" => size # 0

\* Until another resizes, the size that p asks for is reckoned from the image.
AskedFor(p) ==
    pc[p] = "resize" /\ "resized" \notin excuse[p] => newSize[p] = SizeFor(p)

\* While nobody interferes, the rest of the content has room.
RoomLeft(p) ==
    pc[p] \in {"upload", "copy"} /\ excuse[p] = {} => file[p] - taken[p] <= Total - used

IInv ==
    /\ SpaceTypeOK
    /\ \A p \in Procs : Progress(p) /\ AskedFor(p) /\ RoomLeft(p)
    /\ RoomWhenAlone

\* What the types say of numbers.
LEMMA Numbers ==
    ASSUME SpaceTypeOK
    PROVE  /\ Total \in Nat /\ (size # 0 => Total = size - Overhead(size))
           /\ size \in Nat /\ MaxSize \in Nat
           /\ \A p \in Procs : file[p] \in Nat /\ newSize[p] \in Nat /\ taken[p] \in Nat
<1>1. /\ Total \in Nat /\ (size # 0 => Total = size - Overhead(size))
      /\ size \in Nat /\ MaxSize \in Nat
  <2>1. size \in 0..MaxSize /\ MaxSize \in Nat /\ (size # 0 => size > Overhead(size))
    BY Sizes DEF SpaceTypeOK
  <2>2. size # 0 => Overhead(size) \in Nat
    BY <2>1, Sizes
  <2> QED
    BY <2>1, <2>2 DEF Total
<1>2. Contents \cup {0} \subseteq Nat
  BY Sizes
<1> QED
  BY <1>1, <1>2 DEF SpaceTypeOK

\* What is asked for is a size.
LEMMA SizeForFacts ==
    ASSUME SpaceTypeOK, NEW p \in Procs
    PROVE  SizeFor(p) \in Nat /\ SizeFor(p) = Total + 2 * file[p] + BufferSize
<1>1. SizeFor(p) = Total + file[p] * 2 + BufferSize
  BY DEF SizeFor, ResizeFactor
<1>2. Total \in Nat /\ file[p] \in Nat /\ BufferSize \in Nat
  BY Numbers, Sizes
<1> QED
  BY <1>1, <1>2

\* Rounding to whole megabytes loses less than one.
LEMMA RoundedFacts ==
    ASSUME NEW n \in Nat
    PROVE  Rounded(n) \in Nat /\ Rounded(n) + MB > n
BY Sizes DEF Rounded

\* A resize to the size that a measurement asked for has room for all that is
\* there and for the content that was measured for.
LEMMA GrownEnough ==
    ASSUME SpaceTypeOK, NEW p \in Procs, newSize[p] = SizeFor(p), NEW n,
           n = Rounded(newSize[p]), Overhead(n) \in Nat, Covered(n)
    PROVE  n - Overhead(n) >= Total + file[p]
<1>1. /\ Total \in Nat /\ file[p] \in Nat /\ newSize[p] \in Nat
      /\ newSize[p] = Total + 2 * file[p] + BufferSize
  BY Numbers, SizeForFacts
<1>2. Rounded(newSize[p]) \in Nat /\ Rounded(newSize[p]) + MB > newSize[p]
  BY <1>1, RoundedFacts
<1>3. MB \in Nat /\ BufferSize \in Nat /\ Overhead(n) + MB <= BufferSize + 1
  BY Sizes DEF Covered
<1> QED
  BY <1>1, <1>2, <1>3

LEMMA RoundedPositive == ASSUME NEW n \in Nat PROVE Rounded(n) # 0
<1>1. CASE n < MB
  BY <1>1, Sizes DEF Rounded
<1>2. CASE ~(n < MB)
  <2>1. n \div MB # 0
    BY <1>2, Sizes
  <2>2. n \div MB \in Nat
    BY Sizes
  <2>3. \A a, b \in Nat : a # 0 /\ b # 0 => a * b # 0
    OBVIOUS
  <2> QED
    BY <1>2, <2>1, <2>2, <2>3, Sizes DEF Rounded
<1> QED
  BY <1>1, <1>2

\* A size that mkfs.ext4 formats.
LEMMA FormatsFacts ==
    ASSUME NEW n \in Nat, Formats(n)
    PROVE  /\ n \in 0..MaxSize /\ n > Overhead(n)
           /\ n # 0 => Overhead(n) \in Nat
<1>1. MaxSize \in Nat /\ n <= MaxSize /\ n > Overhead(n)
  BY Sizes DEF Formats
<1>2. n # 0 => n \in 1..MaxSize
  BY <1>1
<1> QED
  BY <1>1, <1>2, Sizes

\* The invariant holds initially.
LEMMA InitInv == SInit => IInv
<1> SUFFICES ASSUME SInit PROVE IInv
  OBVIOUS
<1>1. SpaceTypeOK
  BY Sizes DEF SInit, SpaceTypeOK, Total
<1>2. ASSUME NEW p \in Procs PROVE Progress(p) /\ AskedFor(p) /\ RoomLeft(p)
  <2>1. pc[p] = "idle" /\ taken[p] = 0 /\ file[p] = 0
    BY DEF SInit
  <2> QED
    BY <2>1 DEF Progress, AskedFor, RoomLeft, Copying
<1>3. RoomWhenAlone
  BY DEF SInit, RoomWhenAlone
<1> QED
  BY <1>1, <1>2, <1>3 DEF IInv

\* The part of the types about the places of the uploads.
PlacesOK ==
    /\ stored \subseteq Contents /\ room \in [Contents -> Nat]
    /\ unlinked \subseteq Procs
    /\ pc \in [Procs -> {"idle", "exists", "verify", "resize", "upload", "copy", "full"}]
    /\ file \in [Procs -> Contents \cup {0}]
    /\ newSize \in [Procs -> Nat]
    /\ taken \in [Procs -> Nat]
    /\ excuse \in [Procs -> SUBSET {"missing", "found", "written", "resized", "overhead"}]

\* Every step keeps the types of the places.
LEMMA PlacesStep == IInv /\ [SNext]_vars => PlacesOK'
<1> SUFFICES ASSUME IInv, [SNext]_vars PROVE PlacesOK'
  OBVIOUS
<1>0. SpaceTypeOK /\ PlacesOK
  BY DEF IInv, SpaceTypeOK, PlacesOK
<1> USE DEF PlacesOK, Goto, Excused, OthersSee, Answers, filesOn
<1>1. ASSUME NEW p \in Procs, uploadFile(p) \/ Exists(p) PROVE PlacesOK'
  BY <1>0, <1>1 DEF uploadFile, Exists
<1>2. ASSUME NEW p \in Procs, VerifyBlock(p) PROVE PlacesOK'
  <2>1. SizeFor(p) \in Nat
    BY <1>0, SizeForFacts
  <2> QED
    BY <1>0, <1>2, <2>1 DEF VerifyBlock
<1>3. ASSUME NEW p \in Procs, VerifyFails(p) \/ NoRoom(p) PROVE PlacesOK'
  BY <1>0, <1>3 DEF VerifyFails, NoRoom
<1>4. ASSUME NEW p \in Procs, Written(p) \/ removeFileOnError(p) PROVE PlacesOK'
  <2>1. file[p] \in Contents /\ taken[p] \in Nat
    BY <1>0, <1>4 DEF Written, removeFileOnError, Copying, IInv, Progress
  <2>2. /\ stored' \subseteq Contents /\ room' \in [Contents -> Nat]
        /\ unlinked' \subseteq Procs
    BY <1>0, <1>4, <2>1 DEF Written, removeFileOnError, Leaves, GivesBack, Occupies
  <2> QED
    BY <1>0, <1>4, <2>2 DEF Written, removeFileOnError
<1>5. ASSUME NEW p \in Procs, ResizeBlock(p) PROVE PlacesOK'
  BY <1>0, <1>5 DEF ResizeBlock, ResizedBy
<1>6. ASSUME NEW p \in Procs, UploadWithHash(p) PROVE PlacesOK'
  BY <1>0, <1>6 DEF UploadWithHash
<1>7. ASSUME NEW p \in Procs, Write(p) PROVE PlacesOK'
  BY <1>0, <1>7 DEF Write
<1>9. ASSUME NEW c \in Contents, Delete(c) PROVE PlacesOK'
  BY <1>0, <1>9 DEF Delete, Occupies
<1>10. CASE UNCHANGED vars
  BY <1>0, <1>10 DEF vars
<1> QED
  BY <1>1, <1>2, <1>3, <1>4, <1>5, <1>6, <1>7, <1>9, <1>10 DEF SNext

\* The part of the types about the image: what is used is within it.
ImageOK ==
    /\ size \in 0..MaxSize /\ (size # 0 => size > Overhead(size))
    /\ used \in Int /\ used <= Total

\* Every step keeps what is used within the image.
LEMMA ImageStep == IInv /\ [SNext]_vars => ImageOK'
<1> SUFFICES ASSUME IInv, [SNext]_vars PROVE ImageOK'
  OBVIOUS
<1>0. SpaceTypeOK /\ ImageOK /\ Total \in Nat
  BY Numbers DEF IInv, SpaceTypeOK, ImageOK
<1>1. CASE UNCHANGED <<size, used>>
  BY <1>0, <1>1 DEF ImageOK, Total
<1>2. ASSUME NEW p \in Procs, ResizeBlock(p) PROVE ImageOK'
  <2>1. newSize[p] \in Nat
    BY <1>0, Numbers
  <2>2. size' = Rounded(newSize[p]) /\ used' = used /\ Formats(size')
        /\ used <= size' - Overhead(size')
    BY <1>2 DEF ResizeBlock, ResizedBy
  <2>3. size' \in 0..MaxSize /\ size' > Overhead(size') /\ (size' # 0 => Overhead(size') \in Nat)
    BY <2>1, <2>2, RoundedFacts, FormatsFacts
  <2>4. size' # 0
    BY <2>1, <2>2, RoundedPositive
  <2> QED
    BY <1>0, <2>2, <2>3, <2>4 DEF ImageOK, Total
<1>3. ASSUME NEW p \in Procs, UploadWithHash(p) PROVE ImageOK'
  <2>1. /\ size' = IF size = 0 THEN LoopFileSize ELSE size
        /\ used' = used
    BY <1>3 DEF UploadWithHash
  <2>2. CASE size # 0
    BY <1>1, <2>1, <2>2
  <2>3. CASE size = 0
    <3>1. /\ LoopFileSize \in 1..MaxSize /\ LoopFileSize > Overhead(LoopFileSize)
          /\ Overhead(LoopFileSize) \in Nat /\ MaxSize \in Nat
      BY Sizes
    <3>2. used \in Int /\ used <= 0
      BY <1>0, <2>3 DEF ImageOK, Total
    <3> QED
      BY <2>1, <2>3, <3>1, <3>2 DEF ImageOK, Total
  <2> QED
    BY <2>2, <2>3
<1>4. ASSUME NEW p \in Procs, Write(p) PROVE ImageOK'
  <2>1. Total' = Total
    BY <1>4 DEF Write, Total
  <2> QED
    BY <1>0, <1>4, <2>1 DEF Write, ImageOK
<1>5. ASSUME size' = size, NEW n \in Nat, used' = used - n PROVE ImageOK'
  <2>1. Total' = Total
    BY <1>5 DEF Total
  <2> QED
    BY <1>0, <1>5, <2>1 DEF ImageOK
<1>6. ASSUME NEW p \in Procs, Written(p) \/ removeFileOnError(p) PROVE ImageOK'
  <2>1. size' = size /\ (used' = used \/ used' = used - taken[p])
    BY <1>6 DEF Written, removeFileOnError, Leaves, GivesBack
  <2> QED
    BY <1>0, <1>1, <1>5, <2>1, Numbers
<1>7. ASSUME NEW c \in Contents, Delete(c) PROVE ImageOK'
  <2>1. size' = size /\ (used' = used \/ used' = used - room[c]) /\ room[c] \in Nat
    BY <1>0, <1>7 DEF Delete, SpaceTypeOK
  <2> QED
    BY <1>1, <1>5, <2>1
<1>8. ASSUME NEW p \in Procs,
             uploadFile(p) \/ Exists(p) \/ VerifyBlock(p) \/ VerifyFails(p) \/ NoRoom(p)
      PROVE  UNCHANGED <<size, used>>
  BY <1>8 DEF uploadFile, Exists, VerifyBlock, VerifyFails, NoRoom
<1> QED
  BY <1>1, <1>2, <1>3, <1>4, <1>6, <1>7, <1>8 DEF SNext, vars

\* Every step keeps the types, and what is used within the image.
LEMMA TypeStep == IInv /\ [SNext]_vars => SpaceTypeOK'
BY PlacesStep, ImageStep DEF PlacesOK, ImageOK, SpaceTypeOK

\* All that is known of one upload.
Upload(q) ==
    Progress(q) /\ AskedFor(q) /\ RoomLeft(q) /\ (pc[q] = "full" => excuse[q] # {})

\* The place of an upload stays the same.
Stays(q) ==
    /\ pc'[q] = pc[q] /\ file'[q] = file[q]
    /\ newSize'[q] = newSize[q] /\ taken'[q] = taken[q]

LEMMA InvUpload == ASSUME IInv, NEW q \in Procs PROVE Upload(q)
BY DEF IInv, Upload, RoomWhenAlone

\* A step that takes no room and leaves the image takes nothing from an upload
\* that stays where it is.
LEMMA Untouched ==
    ASSUME IInv, NEW q \in Procs, Stays(q), excuse'[q] = excuse[q],
           size' = size, used' \in Int, used' <= used
    PROVE  Upload(q)'
<1>1. Total' = Total /\ Total \in Nat /\ file[q] \in Nat /\ taken[q] \in Nat /\ used \in Int
  BY Numbers DEF Total, IInv, SpaceTypeOK
<1>2. SizeFor(q)' = SizeFor(q)
  BY <1>1 DEF SizeFor, Stays
<1>3. (Progress(q) /\ AskedFor(q))' /\ (pc'[q] = "full" => excuse'[q] # {})
  BY <1>2, InvUpload DEF Upload, Progress, AskedFor, Copying, Stays
<1>4. RoomLeft(q)'
  <2>1. ASSUME NEW a \in Int, NEW b \in Int, NEW c \in Int, c <= b PROVE a - b <= a - c
    BY <2>1
  <2>2. Total - used <= Total - used'
    BY <1>1, <2>1, Total \in Int
  <2>3. RoomLeft(q)
    BY InvUpload DEF Upload
  <2> QED
    BY <1>1, <2>2, <2>3 DEF RoomLeft, Stays
<1> QED
  BY <1>3, <1>4 DEF Upload

\* What another does leaves an upload as it is, or excuses it.
LEMMA OthersStep ==
    ASSUME IInv, SpaceTypeOK', NEW q \in Procs, NEW p \in Procs \ {q},
           \/ uploadFile(p) \/ Exists(p) \/ VerifyBlock(p) \/ VerifyFails(p)
           \/ ResizeBlock(p) \/ UploadWithHash(p) \/ Write(p) \/ NoRoom(p)
           \/ Written(p) \/ removeFileOnError(p)
    PROVE  Upload(q)'
<1>0. /\ SpaceTypeOK /\ Upload(q) /\ used' \in Int /\ used \in Int /\ taken[p] \in Nat
  BY InvUpload, Numbers DEF IInv, SpaceTypeOK
<1>1. Stays(q)
  BY <1>0 DEF Stays, SpaceTypeOK, uploadFile, Exists, VerifyBlock, VerifyFails, ResizeBlock,
     UploadWithHash, Write, NoRoom, Written, removeFileOnError, Goto, Answers, filesOn
<1>2. CASE \/ uploadFile(p) \/ Exists(p) \/ VerifyBlock(p) \/ VerifyFails(p) \/ NoRoom(p)
           \/ Written(p) \/ removeFileOnError(p) \/ (UploadWithHash(p) /\ size # 0)
  <2>1. size' = size /\ excuse'[q] = excuse[q]
    BY <1>0, <1>2 DEF SpaceTypeOK, uploadFile, Exists, VerifyBlock, VerifyFails, NoRoom, Written,
       removeFileOnError, UploadWithHash, Excused
  <2>2. used' = used \/ used' = used - taken[p]
    BY <1>2 DEF uploadFile, Exists, VerifyBlock, VerifyFails, NoRoom, Written,
       removeFileOnError, Leaves, GivesBack, UploadWithHash
  <2>3. used' <= used
    BY <1>0, <2>2
  <2> QED
    BY <1>0, <1>1, <2>1, <2>3, Untouched
<1>3. CASE UploadWithHash(p) /\ size = 0
  <2>1. size' # 0 /\ excuse' = excuse
    BY <1>3, Sizes DEF UploadWithHash
  <2>2. /\ pc[q] # "resize"
        /\ pc[q] \in {"upload", "copy", "full"} => excuse[q] # {}
    BY <1>0, <1>3 DEF Upload, Progress
  <2> QED
    BY <1>0, <1>1, <2>1, <2>2 DEF Upload, Progress, AskedFor, RoomLeft, Copying, Stays
<1>4. CASE Write(p)
  <2>1. Total' = Total /\ size' = size /\ excuse'[q] = excuse[q] \cup {"written"}
    BY <1>4 DEF Write, OthersSee, Total
  <2>2. SizeFor(q)' = SizeFor(q)
    BY <1>1, <2>1 DEF SizeFor, Stays
  <2> QED
    BY <1>0, <1>1, <2>1, <2>2 DEF Upload, Progress, AskedFor, RoomLeft, Copying, Stays
<1>5. CASE ResizeBlock(p)
  <2>1. excuse'[q] = excuse[q] \cup {"resized"} /\ size' = Rounded(newSize[p])
    BY <1>0, <1>5 DEF ResizeBlock, ResizedBy
  <2>2. size' # 0
    BY <1>0, <2>1, RoundedPositive, Numbers
  <2> QED
    BY <1>0, <1>1, <2>1, <2>2 DEF Upload, Progress, AskedFor, RoomLeft, Copying, Stays
<1> QED
  BY <1>2, <1>3, <1>4, <1>5

\* An upload's own steps: what it measured and asked for has room for it.
LEMMA OwnStep ==
    ASSUME IInv, SpaceTypeOK', NEW p \in Procs,
           \/ uploadFile(p) \/ Exists(p) \/ VerifyBlock(p) \/ VerifyFails(p)
           \/ ResizeBlock(p) \/ UploadWithHash(p) \/ Write(p) \/ NoRoom(p)
           \/ Written(p) \/ removeFileOnError(p)
    PROVE  Upload(p)'
<1>0. /\ SpaceTypeOK /\ Upload(p) /\ used \in Int /\ used <= Total /\ Total \in Nat
      /\ taken[p] \in Nat /\ file[p] \in Nat /\ newSize[p] \in Nat
  BY InvUpload, Numbers DEF IInv, SpaceTypeOK
<1>1. CASE uploadFile(p)
  <2>1. pc'[p] = "exists" /\ file'[p] \in Contents /\ taken'[p] = 0
    BY <1>0, <1>1 DEF uploadFile, Goto, SpaceTypeOK, Upload, Progress, Copying
  <2>2. \A c \in Contents : 0 <= c
    BY Sizes
  <2> QED
    BY <2>1, <2>2 DEF Upload, Progress, AskedFor, RoomLeft, Copying
<1>2. CASE Exists(p)
  <2>1. /\ file' = file /\ taken' = taken /\ pc[p] = "exists"
        /\ \/ pc'[p] = "upload" /\ excuse'[p] = {"found"}
           \/ pc'[p] = "verify"
    BY <1>0, <1>2 DEF Exists, Goto, Excused, SpaceTypeOK
  <2> QED
    BY <1>0, <2>1 DEF Upload, Progress, AskedFor, RoomLeft, Copying
<1>3. CASE VerifyBlock(p)
  <2>1. /\ file' = file /\ taken' = taken /\ size' = size /\ used' = used
        /\ pc[p] = "verify" /\ taken[p] = 0
    BY <1>0, <1>3 DEF VerifyBlock, Goto, Upload, Progress, Copying
  <2>2. Total' = Total
    BY <2>1 DEF Total
  <2>3. Fits(p) => file[p] <= Total - used
    <3>1. BufferSize \in Nat /\ Reserve \in Nat /\ file[p] \in Contents /\ file[p] # 0
      BY <1>0, <2>1, Sizes DEF Upload, Progress
    <3>2. CASE Total - used > Reserve
      BY <1>0, <3>1, <3>2 DEF Fits, SpaceAvailable
    <3>3. CASE ~(Total - used > Reserve)
      BY <1>0, <3>1, <3>3 DEF Fits, SpaceAvailable
    <3> QED
      BY <3>2, <3>3
  <2>4. \/ pc'[p] = "upload" /\ excuse'[p] = {"missing"}
        \/ pc'[p] = "upload" /\ size # 0 /\ Fits(p)
        \/ pc'[p] = "resize" /\ size # 0 /\ newSize'[p] = SizeFor(p)
    BY <1>0, <1>3 DEF VerifyBlock, Goto, Excused, SpaceTypeOK
  <2>5. SizeFor(p)' = SizeFor(p)
    BY <2>1, <2>2 DEF SizeFor
  <2>6. Progress(p)' /\ AskedFor(p)' /\ pc'[p] # "full"
    BY <1>0, <2>1, <2>4, <2>5 DEF Upload, Progress, AskedFor, Copying
  <2>7. RoomLeft(p)'
    BY <1>0, <2>1, <2>2, <2>3, <2>4 DEF RoomLeft
  <2> QED
    BY <2>6, <2>7 DEF Upload
<1>4. CASE VerifyFails(p) \/ Written(p) \/ removeFileOnError(p)
  <2>1. pc'[p] = "idle" /\ file'[p] = 0 /\ taken'[p] = 0
    BY <1>0, <1>4 DEF VerifyFails, Written, removeFileOnError, Answers, SpaceTypeOK
  <2> QED
    BY <2>1 DEF Upload, Progress, AskedFor, RoomLeft, Copying
<1>5. CASE ResizeBlock(p)
  <2>1. /\ pc[p] = "resize" /\ pc'[p] = "upload" /\ file' = file /\ taken' = taken
        /\ used' = used /\ size' = Rounded(newSize[p]) /\ Formats(size')
        /\ taken[p] = 0
    BY <1>0, <1>5 DEF ResizeBlock, ResizedBy, Goto, SpaceTypeOK, Upload, Progress, Copying
  <2>2. excuse'[p] = {} => excuse[p] = {} /\ Covered(size')
    BY <1>0, <1>5 DEF ResizeBlock, ResizedBy, SpaceTypeOK
  <2>3. size' # 0 /\ size' \in Nat /\ Overhead(size') \in Nat
    BY <1>0, <2>1, RoundedFacts, RoundedPositive, FormatsFacts
  <2>4. Total' = size' - Overhead(size')
    BY <2>3 DEF Total
  <2>5. excuse'[p] = {} => Total' >= Total + file[p] /\ Total' \in Int
    BY <1>0, <2>1, <2>2, <2>3, <2>4, GrownEnough DEF Upload, AskedFor
  <2>6. RoomLeft(p)'
    BY <1>0, <2>1, <2>5 DEF RoomLeft
  <2> QED
    BY <1>0, <2>1, <2>3, <2>6 DEF Upload, Progress, AskedFor, Copying
<1>6. CASE UploadWithHash(p)
  <2>1. excuse' = excuse /\ used' = used /\ pc[p] = "upload" /\ taken[p] = 0
    BY <1>0, <1>6 DEF UploadWithHash, Goto, Upload, Progress, Copying
  <2>2. size' # 0 /\ (size # 0 => size' = size)
    BY <1>6, Sizes DEF UploadWithHash
  <2>3. \/ pc'[p] = "idle" /\ file'[p] = 0 /\ taken'[p] = 0
        \/ pc'[p] = "copy" /\ file' = file /\ taken' = taken
    BY <1>0, <1>6 DEF UploadWithHash, Goto, Answers, SpaceTypeOK
  <2>4. excuse[p] = {} => Total' = Total
    BY <1>0, <2>1, <2>2 DEF Upload, Progress, Total
  <2>5. RoomLeft(p)'
    BY <1>0, <2>1, <2>3, <2>4 DEF Upload, RoomLeft
  <2> QED
    BY <1>0, <2>1, <2>2, <2>3, <2>5 DEF Upload, Progress, AskedFor, Copying
<1>7. CASE Write(p)
  <2>1. /\ pc' = pc /\ pc[p] = "copy" /\ file' = file /\ taken'[p] = taken[p] + 1
        /\ taken[p] < file[p] /\ used' = used + 1 /\ size' = size /\ excuse'[p] = excuse[p]
    BY <1>0, <1>7 DEF Write, OthersSee, SpaceTypeOK
  <2>2. Total' = Total
    BY <2>1 DEF Total
  <2>3. RoomLeft(p)'
    BY <1>0, <2>1, <2>2 DEF Upload, RoomLeft
  <2>4. taken'[p] <= file'[p]
    BY <1>0, <2>1
  <2> QED
    BY <1>0, <2>1, <2>3, <2>4 DEF Upload, Progress, AskedFor, Copying
<1>8. CASE NoRoom(p)
  <2>1. /\ pc[p] = "copy" /\ pc'[p] = "full" /\ UNCHANGED <<size, file, taken, excuse>>
        /\ taken[p] < file[p] /\ used = Total
    BY <1>0, <1>8 DEF NoRoom, Goto, SpaceTypeOK
  <2>2. excuse[p] # {}
    BY <1>0, <2>1 DEF Upload, RoomLeft
  <2> QED
    BY <1>0, <2>1, <2>2 DEF Upload, Progress, AskedFor, RoomLeft, Copying
<1> QED
  BY <1>1, <1>2, <1>3, <1>4, <1>5, <1>6, <1>7, <1>8

\* Every step keeps what is known of every upload.
LEMMA UploadStep == IInv /\ [SNext]_vars => \A q \in Procs : Upload(q)'
<1> SUFFICES ASSUME IInv, [SNext]_vars, NEW q \in Procs PROVE Upload(q)'
  OBVIOUS
<1>0. SpaceTypeOK' /\ SpaceTypeOK
  BY TypeStep DEF IInv
<1>1. CASE UNCHANGED vars
  BY <1>0, <1>1, Untouched DEF vars, Stays, SpaceTypeOK
<1>2. ASSUME NEW c \in Contents, Delete(c) PROVE Upload(q)'
  <2>1. room[c] \in Nat /\ (used' = used \/ used' = used - room[c]) /\ used \in Int
    BY <1>0, <1>2 DEF Delete, SpaceTypeOK
  <2>2. used' \in Int /\ used' <= used
    BY <2>1
  <2> QED
    BY <1>2, <2>2, Untouched DEF Delete, Stays
<1>3. ASSUME NEW p \in Procs,
             \/ uploadFile(p) \/ Exists(p) \/ VerifyBlock(p) \/ VerifyFails(p)
             \/ ResizeBlock(p) \/ UploadWithHash(p) \/ Write(p) \/ NoRoom(p)
             \/ Written(p) \/ removeFileOnError(p)
      PROVE  Upload(q)'
  BY <1>0, <1>3, OwnStep, OthersStep
<1> QED
  BY <1>1, <1>2, <1>3 DEF SNext

\* The invariant is inductive.
THEOREM Invariance == SSpec => []IInv
<1>1. IInv /\ [SNext]_vars => IInv'
  BY TypeStep, UploadStep DEF IInv, Upload, RoomWhenAlone
<1> QED
  BY InitInv, <1>1, PTL DEF SSpec

\* What is used never exceeds the file system, whatever a resize asked for.
THEOREM SpaceTypeCorrect == SSpec => []SpaceTypeOK
<1>1. IInv => SpaceTypeOK
  BY DEF IInv
<1> QED
  BY <1>1, Invariance, PTL

\* An upload that has measured runs out of room only by the doing of others.
THEOREM MeasuredHasRoom == SSpec => []RoomWhenAlone
<1>1. IInv => RoomWhenAlone
  BY DEF IInv
<1> QED
  BY <1>1, Invariance, PTL

\* A resize leaves less room than there was only if its size was reckoned before
\* another, or if mkfs.ext4 takes more than the buffer makes up for.
THEOREM ShrinksRarely == SSpec => ShrinksForAReason
<1> DEFINE Reason(p) == /\ pc[p] = "resize" /\ pc'[p] = "upload"
                        /\ "resized" \in excuse[p] \/ ~Covered(size')
           Reasoned == Total' < Total => \E p \in Procs : Reason(p)
<1>1. IInv /\ [SNext]_vars => [Reasoned]_vars
  <2> SUFFICES ASSUME IInv, [SNext]_vars, Total' < Total
               PROVE \E p \in Procs : Reason(p)
    OBVIOUS
  <2>0. SpaceTypeOK /\ Total \in Nat /\ \A p \in Procs : AskedFor(p) /\ Progress(p)
    BY Numbers DEF IInv
  <2>1. size' # size
    BY <2>0 DEF Total
  <2>2. PICK p \in Procs : ResizeBlock(p) \/ UploadWithHash(p)
    BY <2>1 DEF SNext, uploadFile, Exists, VerifyBlock, VerifyFails, Write, NoRoom,
       Written, removeFileOnError, Delete, vars
  <2>3. CASE UploadWithHash(p)
    <3>1. size = 0 /\ size' = LoopFileSize
      BY <2>1, <2>3 DEF UploadWithHash
    <3>2. Total = 0 /\ Total' \in Nat
      BY <3>1, Sizes DEF Total
    <3> QED
      BY <3>2
  <2>4. CASE ResizeBlock(p)
    <3>1. /\ pc[p] = "resize" /\ pc'[p] = "upload" /\ size' = Rounded(newSize[p])
          /\ Formats(size')
      BY <2>0, <2>4 DEF ResizeBlock, ResizedBy, Goto, SpaceTypeOK
    <3>2. newSize[p] \in Nat /\ file[p] \in Nat
      BY <2>0, Numbers
    <3>3. size' # 0 /\ size' \in Nat /\ Overhead(size') \in Nat
      BY <3>1, <3>2, RoundedFacts, RoundedPositive, FormatsFacts
    <3>4. Total' = size' - Overhead(size')
      BY <3>3 DEF Total
    <3>5. "resized" \notin excuse[p] /\ Covered(size') => Total' >= Total + file[p]
      BY <2>0, <3>1, <3>3, <3>4, GrownEnough DEF AskedFor
    <3>6. "resized" \in excuse[p] \/ ~Covered(size')
      BY <2>0, <3>2, <3>3, <3>4, <3>5
    <3> QED
      BY <3>1, <3>6
  <2> QED
    BY <2>2, <2>3, <2>4
<1> QED
  BY <1>1, Invariance, PTL DEF SSpec, ShrinksForAReason

-----------------------------------------------------------------------------
(* The room.  A sum over the uploads would need an induction over them; the *)
(* number of units of room needs none, because every unit has one owner.    *)

\* No content is copied twice at a time, or copied while it is there.
Separate ==
    /\ \A p, q \in Procs : Copying(p) /\ Copying(q) /\ file[p] = file[q] => p = q
    /\ \A p \in Procs : Copying(p) => file[p] \notin stored

RoomInv ==
    /\ Separate
    /\ IsFiniteSet(Kept) /\ IsFiniteSet(UnderWay)
    /\ RoomIsAccounted

\* The section of UploadWithHash lets one upload of a content copy, and only one
\* that does not find it.
LEMMA SeparateStep == IInv /\ Separate /\ [SNext]_vars => Separate'
<1> SUFFICES ASSUME IInv, Separate, [SNext]_vars PROVE Separate'
  OBVIOUS
<1> USE DEF Separate, Copying
<1>0. SpaceTypeOK /\ \A p \in Procs : Progress(p)
  BY DEF IInv
<1>1. ASSUME stored' \subseteq stored,
             \A q \in Procs : Copying(q)' => Copying(q) /\ file'[q] = file[q]
      PROVE  Separate'
  BY <1>1
<1>2. ASSUME NEW p \in Procs, UploadWithHash(p) PROVE Separate'
  <2>1. /\ \A q \in Procs : ~(Copying(q) /\ file[q] = file[p])
        /\ stored' = stored
        /\ \A q \in Procs \ {p} : pc'[q] = pc[q] /\ file'[q] = file[q]
    BY <1>0, <1>2 DEF UploadWithHash, Goto, Answers, SpaceTypeOK, filesOn
  <2>2. pc'[p] = "idle" \/ (file[p] \notin stored /\ file'[p] = file[p])
    BY <1>0, <1>2 DEF UploadWithHash, Goto, Answers, SpaceTypeOK
  <2>3. QED
    BY <2>1, <2>2
<1>3. ASSUME NEW p \in Procs, Written(p) \/ removeFileOnError(p) PROVE Separate'
  <2>1. /\ Copying(p) /\ stored' \subseteq stored \cup {file[p]} /\ pc'[p] = "idle"
        /\ \A q \in Procs \ {p} : pc'[q] = pc[q] /\ file'[q] = file[q]
    BY <1>0, <1>3 DEF Written, removeFileOnError, Leaves, GivesBack, Answers, SpaceTypeOK
  <2>2. QED
    BY <2>1
<1>4. ASSUME NEW p \in Procs, uploadFile(p) \/ Exists(p) \/ VerifyBlock(p) \/ ResizeBlock(p)
      PROVE  Separate'
  BY <1>0, <1>1, <1>4 DEF uploadFile, Exists, VerifyBlock, ResizeBlock, Goto, SpaceTypeOK, filesOn
<1>5. ASSUME NEW p \in Procs, Write(p) \/ NoRoom(p) PROVE Separate'
  BY <1>0, <1>1, <1>5 DEF Write, NoRoom, Goto, SpaceTypeOK, filesOn
<1>6. ASSUME NEW p \in Procs, VerifyFails(p) PROVE Separate'
  BY <1>0, <1>1, <1>6 DEF VerifyFails, Answers, SpaceTypeOK, filesOn
<1>7. ASSUME NEW c \in Contents, Delete(c) PROVE Separate'
  BY <1>1, <1>7 DEF Delete
<1>8. CASE UNCHANGED vars
  BY <1>1, <1>8 DEF vars, filesOn
<1>9. QED
  BY <1>2, <1>3, <1>4, <1>5, <1>6, <1>7, <1>8 DEF SNext

\* An owner has as many units as it says.
LEMMA UnitsFacts ==
    ASSUME NEW x, NEW n \in Nat
    PROVE  IsFiniteSet(Units(x, n)) /\ Cardinality(Units(x, n)) = n
<1>1. IsFiniteSet(1..n) /\ Cardinality(1..n) = n
  BY FS_Interval
<1>2. IsFiniteSet({x}) /\ Cardinality({x}) = 1
  BY FS_Singleton
<1>3. QED
  BY <1>1, <1>2, FS_Product DEF Units

\* A new owner adds its units.
LEMMA UnitsAdded ==
    ASSUME NEW S, NEW T, NEW x, NEW n \in Nat, T = S \cup Units(x, n), S \cap Units(x, n) = {}
    PROVE  /\ IsFiniteSet(S) <=> IsFiniteSet(T)
           /\ IsFiniteSet(S) => Cardinality(T) = Cardinality(S) + n
<1>1. IsFiniteSet(Units(x, n)) /\ Cardinality(Units(x, n)) = n
  BY UnitsFacts
<1>2. ASSUME IsFiniteSet(T) PROVE IsFiniteSet(S)
  BY <1>2, FS_Subset
<1>3. ASSUME IsFiniteSet(S) PROVE IsFiniteSet(T) /\ Cardinality(T) = Cardinality(S) + n
  <2>1. /\ IsFiniteSet(S \cup Units(x, n))
        /\ Cardinality(S \cup Units(x, n)) = Cardinality(S) + n - Cardinality(S \cap Units(x, n))
    BY <1>1, <1>3, FS_Union
  <2>2. Cardinality(S) \in Nat /\ Cardinality(S \cap Units(x, n)) = 0
    BY <1>3, FS_CardinalityType, FS_EmptySet
  <2>3. QED
    BY <2>1, <2>2
<1>4. QED
  BY <1>2, <1>3

LEMMA KeptGrows ==
    ASSUME IsFiniteSet(Kept), room \in [Contents -> Nat], stored \subseteq Contents,
           NEW c \in Contents \ stored, NEW n \in Nat,
           stored' = stored \cup {c}, room' = [room EXCEPT ![c] = n]
    PROVE  IsFiniteSet(Kept') /\ Cardinality(Kept') = Cardinality(Kept) + n
<1>1. Kept \cap Units(c, n) = {}
  BY DEF Kept, Units
<1>2. Kept' = Kept \cup Units(c, n)
  <2>1. /\ \A d \in stored : Units(d, room'[d]) = Units(d, room[d])
        /\ Units(c, room'[c]) = Units(c, n)
    OBVIOUS
  <2>2. QED
    BY <2>1, Zenon DEF Kept
<1>3. QED
  BY <1>1, <1>2, UnitsAdded

LEMMA KeptShrinks ==
    ASSUME IsFiniteSet(Kept), room \in [Contents -> Nat], stored \subseteq Contents,
           NEW c \in stored, stored' = stored \ {c}, room' = [room EXCEPT ![c] = 0]
    PROVE  /\ IsFiniteSet(Kept') /\ Cardinality(Kept') \in Nat
           /\ Cardinality(Kept) = Cardinality(Kept') + room[c]
<1>1. Kept' \cap Units(c, room[c]) = {}
  BY DEF Kept, Units
<1>2. Kept = Kept' \cup Units(c, room[c])
  <2>1. \A d \in stored \ {c} : Units(d, room'[d]) = Units(d, room[d])
    OBVIOUS
  <2>2. QED
    BY <2>1, Zenon DEF Kept
<1>3. room[c] \in Nat
  OBVIOUS
<1>4. IsFiniteSet(Kept') /\ Cardinality(Kept) = Cardinality(Kept') + room[c]
  BY <1>1, <1>2, <1>3, UnitsAdded
<1>5. QED
  BY <1>4, FS_CardinalityType

LEMMA UnderWayGrows ==
    ASSUME IsFiniteSet(UnderWay), taken \in [Procs -> Nat], NEW p \in Procs,
           taken' = [taken EXCEPT ![p] = @ + 1]
    PROVE  IsFiniteSet(UnderWay') /\ Cardinality(UnderWay') = Cardinality(UnderWay) + 1
<1> DEFINE unit == <<p, taken[p] + 1>>
<1>1. Units(p, taken'[p]) = Units(p, taken[p]) \cup {unit}
  BY DEF Units
<1>2. unit \notin UnderWay
  BY DEF UnderWay, Units
<1>3. UnderWay' = UnderWay \cup {unit}
  <2>1. \A q \in Procs \ {p} : Units(q, taken'[q]) = Units(q, taken[q])
    OBVIOUS
  <2>2. QED
    BY <1>1, <2>1, Zenon DEF UnderWay
<1>4. QED
  BY <1>2, <1>3, FS_AddElement

LEMMA GivenBack ==
    ASSUME IsFiniteSet(UnderWay), taken \in [Procs -> Nat], NEW p \in Procs,
           taken' = [taken EXCEPT ![p] = 0]
    PROVE  /\ IsFiniteSet(UnderWay') /\ Cardinality(UnderWay') \in Nat
           /\ Cardinality(UnderWay) = Cardinality(UnderWay') + taken[p]
<1>1. UnderWay' \cap Units(p, taken[p]) = {}
  BY DEF UnderWay, Units
<1>2. UnderWay = UnderWay' \cup Units(p, taken[p])
  <2>1. /\ \A q \in Procs \ {p} : Units(q, taken'[q]) = Units(q, taken[q])
        /\ Units(p, taken'[p]) = {}
    BY DEF Units
  <2>2. QED
    BY <2>1, Zenon DEF UnderWay
<1>3. QED
  BY <1>1, <1>2, UnitsAdded, FS_CardinalityType

LEMMA RoomStep == IInv /\ RoomInv /\ [SNext]_vars => RoomInv'
<1> SUFFICES ASSUME IInv, RoomInv, [SNext]_vars PROVE RoomInv'
  OBVIOUS
<1>1. Separate'
  BY SeparateStep DEF RoomInv
<1>2. /\ SpaceTypeOK /\ Contents \subseteq Nat /\ taken \in [Procs -> Nat]
      /\ room \in [Contents -> Nat] /\ stored \subseteq Contents
      /\ \A p \in Procs : file[p] \in Nat /\ Progress(p)
  BY Sizes, Numbers DEF IInv, SpaceTypeOK
<1>3. /\ IsFiniteSet(Kept) /\ Cardinality(Kept) \in Nat
      /\ IsFiniteSet(UnderWay) /\ Cardinality(UnderWay) \in Nat
      /\ used = Cardinality(Kept) + Cardinality(UnderWay)
  BY FS_CardinalityType DEF RoomInv, RoomIsAccounted
<1>4. stored' = stored /\ room' = room => Kept' = Kept
  BY DEF Kept
<1>5. taken' = taken => UnderWay' = UnderWay
  BY DEF UnderWay
<1>6. ASSUME UNCHANGED <<used, stored, room, taken>> PROVE RoomInv'
  BY <1>1, <1>3, <1>4, <1>5, <1>6 DEF RoomInv, RoomIsAccounted
<1>7. ASSUME NEW p \in Procs, taken' = [taken EXCEPT ![p] = 0], GivesBack(p)
      PROVE  RoomInv'
  <2>1. /\ IsFiniteSet(UnderWay') /\ Cardinality(UnderWay') \in Nat
        /\ Cardinality(UnderWay) = Cardinality(UnderWay') + taken[p] /\ taken[p] \in Nat
    BY <1>2, <1>3, <1>7, GivenBack
  <2>2. QED
    BY <1>1, <1>3, <1>4, <1>7, <2>1 DEF GivesBack, RoomInv, RoomIsAccounted
<1>8. ASSUME NEW p \in Procs, VerifyFails(p) \/ UploadWithHash(p) PROVE RoomInv'
  <2>1. taken[p] = 0 /\ UNCHANGED <<used, stored, room>>
    BY <1>2, <1>8 DEF VerifyFails, UploadWithHash, Goto, Progress, Copying, filesOn
  <2>2. taken' \in {taken, [taken EXCEPT ![p] = 0]}
    BY <1>8 DEF VerifyFails, UploadWithHash, Answers
  <2>3. taken' = taken
    BY <1>2, <2>1, <2>2
  <2>4. QED
    BY <1>6, <2>1, <2>3
<1>9. ASSUME NEW p \in Procs, Write(p) PROVE RoomInv'
  <2>1. /\ UNCHANGED <<stored, room>> /\ used' = used + 1
        /\ taken' = [taken EXCEPT ![p] = @ + 1]
    BY <1>9 DEF Write, filesOn
  <2>2. IsFiniteSet(UnderWay') /\ Cardinality(UnderWay') = Cardinality(UnderWay) + 1
    BY <1>2, <1>3, <2>1, UnderWayGrows
  <2>3. QED
    BY <1>1, <1>3, <1>4, <2>1, <2>2 DEF RoomInv, RoomIsAccounted
<1>10. ASSUME NEW p \in Procs, Written(p) \/ removeFileOnError(p) PROVE RoomInv'
  <2>1. /\ Copying(p) /\ taken' = [taken EXCEPT ![p] = 0] /\ (Leaves(p) \/ GivesBack(p))
    BY <1>10 DEF Written, removeFileOnError, Copying, Answers
  <2>2. CASE GivesBack(p)
    BY <1>7, <2>1, <2>2
  <2>3. CASE Leaves(p)
    <3>1. /\ file[p] \in Contents \ stored /\ taken[p] \in Nat /\ used' = used
          /\ stored' = stored \cup {file[p]} /\ room' = [room EXCEPT ![file[p]] = taken[p]]
      BY <1>2, <2>1, <2>3 DEF Leaves, Occupies, RoomInv, Separate, Copying, Progress
    <3>2. IsFiniteSet(Kept') /\ Cardinality(Kept') = Cardinality(Kept) + taken[p]
      BY <1>2, <1>3, <3>1, KeptGrows
    <3>3. /\ IsFiniteSet(UnderWay') /\ Cardinality(UnderWay') \in Nat
          /\ Cardinality(UnderWay) = Cardinality(UnderWay') + taken[p]
      BY <1>2, <1>3, <2>1, GivenBack
    <3>4. QED
      BY <1>1, <1>2, <1>3, <3>1, <3>2, <3>3 DEF RoomInv, RoomIsAccounted
  <2>4. QED
    BY <2>1, <2>2, <2>3
<1>11. ASSUME NEW c \in Contents, Delete(c) PROVE RoomInv'
  <2>1. CASE UNCHANGED <<used, stored, room>>
    BY <1>6, <1>11, <2>1 DEF Delete
  <2>2. CASE /\ c \in stored /\ stored' = stored \ {c}
             /\ Occupies(c, 0) /\ used' = used - room[c]
    <3>1. c \in stored /\ stored' = stored \ {c} /\ room' = [room EXCEPT ![c] = 0]
      BY <2>2 DEF Occupies
    <3>2. /\ IsFiniteSet(Kept') /\ Cardinality(Kept') \in Nat
          /\ Cardinality(Kept) = Cardinality(Kept') + room[c] /\ room[c] \in Nat
      BY <1>2, <1>3, <3>1, KeptShrinks
    <3>3. UnderWay' = UnderWay
      BY <1>5, <1>11 DEF Delete
    <3>4. QED
      BY <1>1, <1>3, <2>2, <3>2, <3>3 DEF RoomInv, RoomIsAccounted
  <2>3. QED
    BY <1>11, <2>1, <2>2 DEF Delete
<1>12. ASSUME NEW p \in Procs,
              \/ uploadFile(p) \/ Exists(p) \/ VerifyBlock(p) \/ ResizeBlock(p) \/ NoRoom(p)
       PROVE  RoomInv'
  BY <1>6, <1>12 DEF uploadFile, Exists, VerifyBlock, ResizeBlock, NoRoom, filesOn
<1>13. QED
  BY <1>6, <1>8, <1>9, <1>10, <1>11, <1>12 DEF SNext, vars, filesOn

LEMMA RoomInit == SInit => RoomInv
<1> SUFFICES ASSUME SInit PROVE RoomInv
  OBVIOUS
<1>1. Kept = {} /\ UnderWay = {}
  BY DEF SInit, Kept, UnderWay, Units
<1>2. Separate
  BY DEF SInit, Separate, Copying
<1>3. QED
  BY <1>1, <1>2, FS_EmptySet DEF SInit, RoomInv, RoomIsAccounted

\* For any uploads and contents the room in use is that of the files that have a
\* name and of those under way, each counted once.  A failed upload gives back
\* exactly what it took, or leaves a file that accounts for it when it cannot be
\* removed, because no other copies the same content beside it.
THEOREM RoomAccounted == SSpec => []RoomIsAccounted
<1>1. RoomInv => RoomIsAccounted
  BY DEF RoomInv
<1>2. QED
  BY <1>1, RoomInit, RoomStep, Invariance, PTL DEF SSpec
=============================================================================
