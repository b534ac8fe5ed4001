--------------------------- MODULE BucketStore_proofs ---------------------------
(***************************************************************************)
(* Theorems about BucketStore, for all clients, names, keys and contents:  *)
(* what the tables say holds together, and between its calls a handler     *)
(* loses a bucket only to a deletion.                                      *)
(***************************************************************************)
EXTENDS BucketStore, TLAPS

Writes == {"upload", "putObject", "deleteObject", "deleteBucket"}
Reads == {"get", "head", "info"}
HasRead(c) == pc[c] = "reply" /\ answer[c] = "ok" /\ op(c) \in Reads

\* Rows of live buckets are rows, and their ids were given out.
Rows == \A i \in live : i \in 1 .. lastBucket /\ row[i] \in BucketRows

\* What the next call of c says of its request and its answer.
Shape(c) ==
    /\ pc[c] = "idle" <=> request[c] = NoRequest
    /\ pc[c] # "reply" => answer[c] = "none"
    /\ pc[c] = "insert" => op(c) = "create"
    /\ pc[c] = "getBucket" => op(c) \in {"info", "deleteBucket", "put", "delete"}
    /\ pc[c] \in {"upload", "putObject"} => op(c) = "put"
    /\ pc[c] = "deleteObject" => op(c) = "delete"
    /\ pc[c] = "deleteBucket" => op(c) = "deleteBucket"
    /\ pc[c] = "getObject" => op(c) \in {"get", "head"}
    /\ pc[c] = "checkAccess" => op(c) \in {"get", "head", "info", "list"}
    /\ pc[c] = "download" => op(c) = "get"
    /\ pc[c] = "listObjects" => op(c) = "list"

\* The type invariant in four parts, the tables and handlers strengthened.
Tables ==
    /\ row \in [BucketIds -> BucketRows \cup {None}]
    /\ live \subseteq BucketIds
    /\ objects \subseteq Objects
    /\ lastBucket \in 0 .. MaxBuckets /\ lastObject \in 0 .. MaxObjects
    /\ content \subseteq Hashes /\ removed \subseteq Hashes
    /\ Rows

Handlers ==
    /\ pc \in [Clients -> Calls]
    /\ request \in [Clients -> Requests \cup {NoRequest}]
    /\ answer \in [Clients -> {"none", "ok", "denied", "notFound", "conflict", "error"}]
    /\ \A c \in Clients : Shape(c)

Locals ==
    /\ seen \in [Clients -> BucketIds \cup {None}]
    /\ found \in [Clients -> Hashes \cup {None}]
    /\ access \in [Clients -> {"none", "allowed", "denied", "notFound", "failed"}]

Listings ==
    /\ cursor \in [Clients -> 0 .. MaxObjects]
    /\ listed \in [Clients -> SUBSET ObjectIds]
    /\ expected \in [Clients -> SUBSET ObjectIds]

Inv1 == Tables /\ Handlers /\ Locals /\ Listings

\* The bucket that c has seen was a bucket of the name that c asks for.
SeenBucket(c) ==
    \/ pc[c] \in Writes
    \/ pc[c] \in {"checkAccess", "download"} /\ op(c) \in Reads
    \/ HasRead(c)
    => seen[c] \in 1 .. lastBucket /\ row[seen[c]] \in BucketRows
          /\ row[seen[c]].name = request[c].name

\* Who goes on to write owns it; who has been let through may read it.
Passed(c) ==
    /\ pc[c] \in Writes => row[seen[c]].owner = owner(c)
    /\ pc[c] = "download" \/ HasRead(c) =>
          MayRead(c, seen[c]) \/ access[c] = "failed" \/ seen[c] \notin live

Inv2 == \A c \in Clients : SeenBucket(c) /\ Passed(c)

\* A put records only content that has been stored.
StoredFirst ==
    \A c \in Clients : pc[c] = "putObject" => request[c].hash \in content \cup removed

Inv3 == ObjectHasBucket /\ ContentBehindObjects /\ StoredFirst

IInv == Inv1 /\ Inv2 /\ Inv3

\* The fields that each kind of request has.
LEMMA RequestFacts ==
    /\ NoRequest.op = "none"
    /\ NoRequest \notin Requests
    /\ \A r \in Requests :
          /\ r.op \in {"create", "info", "deleteBucket", "list", "get", "head", "delete", "put"}
          /\ r.name \in Names /\ r.owner \in Owners
          /\ r.op = "create" => r.public \in BOOLEAN
          /\ r.op \in {"get", "head", "delete", "put"} => r.key \in Keys
          /\ r.op = "put" => r.hash \in Hashes
BY DEF NoRequest, Requests

\* What a put writes.
LEMMA EntryFacts ==
    \A d, i : \A c \in Clients :
        /\ Entry(c, d, i).id = d /\ Entry(c, d, i).bucket = i
        /\ Entry(c, d, i).key = request[c].key
        /\ Entry(c, d, i).hash = request[c].hash
        /\ d \in ObjectIds /\ i \in BucketIds /\ request[c].key \in Keys /\ request[c].hash \in Hashes
              => Entry(c, d, i) \in Objects
BY DEF Entry, Objects

\* What a create writes.
LEMMA CreatedFacts ==
    \A c \in Clients :
        /\ Created(c).name = request[c].name
        /\ request[c].name \in Names /\ owner(c) \in Owners /\ request[c].public \in BOOLEAN
              => Created(c) \in BucketRows
BY DEF Created, BucketRows

\* What a row of objects consists of.
LEMMA RowFacts ==
    \A o \in Objects :
        o.id \in ObjectIds /\ o.bucket \in BucketIds /\ o.key \in Keys /\ o.hash \in Hashes
BY DEF Objects

\* The invariant holds initially.
LEMMA InitInv == BInit => IInv
BY BucketBounds, RequestFacts DEF BInit, IInv, Inv1, Inv2, Inv3, Rows, Shape, SeenBucket,
   Passed, HasRead, Reads, Writes, Tables, Handlers, Locals, Listings, ObjectHasBucket, ContentBehindObjects, StoredFirst, Calls, op,
   BucketIds, ObjectIds

\* The types and the shape of the handlers' state are kept.
LEMMA HandlersStep == Handlers /\ [BNext]_vars => Handlers'
<1> SUFFICES ASSUME Handlers, [BNext]_vars PROVE Handlers'
  OBVIOUS
<1> USE RequestFacts DEF Handlers, Shape, Calls, op, At, Goto, Reply, tables, backends, listing, locals
<1>1. ASSUME NEW c \in Clients, Start(c) PROVE Handlers'
  BY <1>1 DEF Start
<1>2. ASSUME NEW c \in Clients, Return(c) PROVE Handlers'
  BY <1>2 DEF Return
<1>3. ASSUME NEW c \in Clients, Fails(c) PROVE Handlers'
  BY <1>3 DEF Fails
<1>4. ASSUME NEW c \in Clients, CreateBucket(c) PROVE Handlers'
  BY <1>4 DEF CreateBucket
<1>5. ASSUME NEW c \in Clients, GetBucket(c) PROVE Handlers'
  BY <1>5 DEF GetBucket
<1>6. ASSUME NEW c \in Clients, DeleteBucket(c) PROVE Handlers'
  BY <1>6 DEF DeleteBucket
<1>7. ASSUME NEW c \in Clients, performCASUpload(c) PROVE Handlers'
  BY <1>7 DEF performCASUpload
<1>8. ASSUME NEW c \in Clients, PutObject(c) PROVE Handlers'
  BY <1>8 DEF PutObject
<1>9. ASSUME NEW c \in Clients, DeleteObject(c) PROVE Handlers'
  BY <1>9 DEF DeleteObject
<1>10. ASSUME NEW c \in Clients, GetObject(c) PROVE Handlers'
  BY <1>10 DEF GetObject
<1>11. ASSUME NEW c \in Clients, CheckAccess(c) PROVE Handlers'
  BY <1>11 DEF CheckAccess
<1>12. ASSUME NEW c \in Clients, downloadByHash(c) PROVE Handlers'
  BY <1>12 DEF downloadByHash
<1>13. ASSUME NEW c \in Clients, ListObjects(c) PROVE Handlers'
  BY <1>13 DEF ListObjects
<1>14. ASSUME NEW h \in Hashes, UploadFile(h) PROVE Handlers'
  BY <1>14 DEF UploadFile
<1>15. ASSUME NEW h \in Hashes, DeleteFile(h) PROVE Handlers'
  BY <1>15 DEF DeleteFile
<1>16. CASE UNCHANGED vars
  BY <1>16 DEF vars
<1> QED
  BY <1>1, <1>2, <1>3, <1>4, <1>5, <1>6, <1>7, <1>8, <1>9, <1>10,
     <1>11, <1>12, <1>13, <1>14, <1>15, <1>16
  DEF BNext, Handler

\* The types of the tables are kept.
LEMMA TablesStep == Handlers /\ Tables /\ [BNext]_vars => Tables'
<1> SUFFICES ASSUME Handlers /\ Tables, [BNext]_vars PROVE Tables'
  OBVIOUS
<1> USE BucketBounds DEF Tables, Rows, BucketIds, tables, backends
<1>1. ASSUME NEW c \in Clients, Start(c) PROVE Tables'
  BY <1>1 DEF Start
<1>2. ASSUME NEW c \in Clients, Return(c) PROVE Tables'
  BY <1>2 DEF Return
<1>3. ASSUME NEW c \in Clients, Fails(c) PROVE Tables'
  BY <1>3 DEF Fails
<1>4. ASSUME NEW c \in Clients, CreateBucket(c) PROVE Tables'
  <2>1. op(c) = "create" /\ request[c] \in Requests
    BY <1>4, RequestFacts DEF CreateBucket, Handlers, Shape, At, op
  <2>2. Created(c) \in BucketRows
    BY <2>1, RequestFacts, CreatedFacts DEF op, owner
  <2>3. CASE UNCHANGED <<row, live, lastBucket>>
    BY <1>4, <2>3 DEF CreateBucket
  <2>4. ASSUME lastBucket < MaxBuckets, lastBucket' = lastBucket + 1,
               row' = [row EXCEPT ![lastBucket + 1] = Created(c)],
               live' = live \cup {lastBucket + 1}
        PROVE Tables'
    <3>1. lastBucket + 1 \in BucketIds
      BY <2>4
    <3>2. row' \in [BucketIds -> BucketRows \cup {None}] /\ live' \subseteq BucketIds
      BY <2>2, <2>4, <3>1
    <3>3. Rows'
      BY <2>2, <2>4, <3>1
    <3> QED
      BY <1>4, <2>4, <3>2, <3>3 DEF CreateBucket
  <2> QED
    BY <1>4, <2>3, <2>4 DEF CreateBucket
<1>5. ASSUME NEW c \in Clients, GetBucket(c) PROVE Tables'
  BY <1>5 DEF GetBucket
<1>6. ASSUME NEW c \in Clients, DeleteBucket(c) PROVE Tables'
  BY <1>6 DEF DeleteBucket
<1>7. ASSUME NEW c \in Clients, performCASUpload(c) PROVE Tables'
  <2>1. request[c].hash \in Hashes
    BY <1>7, RequestFacts DEF performCASUpload, Handlers, Shape, At, op
  <2> QED
    BY <1>7, <2>1 DEF performCASUpload
<1>8. ASSUME NEW c \in Clients, PutObject(c) PROVE Tables'
  <2>1. request[c].key \in Keys /\ request[c].hash \in Hashes
    BY <1>8, RequestFacts DEF PutObject, Handlers, Shape, At, op
  <2>2. ASSUME NEW i \in live, NEW d \in ObjectIds PROVE Entry(c, d, i) \in Objects
    BY <2>1, EntryFacts
  <2>3. \A o \in objects : o.id \in ObjectIds
    BY RowFacts
  <2>4. ASSUME NEW i \in live, NEW o \in AtKey(c, i),
               objects' = (objects \ {o}) \cup {Entry(c, o.id, i)}, UNCHANGED lastObject
        PROVE objects' \subseteq Objects /\ lastObject' \in 0 .. MaxObjects
    BY <2>2, <2>3, <2>4 DEF AtKey, ObjectsOf
  <2>5. ASSUME NEW i \in live, lastObject < MaxObjects, lastObject' = lastObject + 1,
               objects' = objects \cup {Entry(c, lastObject + 1, i)}
        PROVE objects' \subseteq Objects /\ lastObject' \in 0 .. MaxObjects
    BY <2>2, <2>5 DEF ObjectIds
  <2>6. objects' \subseteq Objects /\ lastObject' \in 0 .. MaxObjects
    BY <1>8, <2>4, <2>5 DEF PutObject
  <2> QED
    BY <1>8, <2>6 DEF PutObject
<1>9. ASSUME NEW c \in Clients, DeleteObject(c) PROVE Tables'
  BY <1>9 DEF DeleteObject
<1>10. ASSUME NEW c \in Clients, GetObject(c) PROVE Tables'
  BY <1>10 DEF GetObject
<1>11. ASSUME NEW c \in Clients, CheckAccess(c) PROVE Tables'
  BY <1>11 DEF CheckAccess
<1>12. ASSUME NEW c \in Clients, downloadByHash(c) PROVE Tables'
  BY <1>12 DEF downloadByHash
<1>13. ASSUME NEW c \in Clients, ListObjects(c) PROVE Tables'
  BY <1>13 DEF ListObjects
<1>14. ASSUME NEW h \in Hashes, UploadFile(h) PROVE Tables'
  BY <1>14 DEF UploadFile
<1>15. ASSUME NEW h \in Hashes, DeleteFile(h) PROVE Tables'
  BY <1>15 DEF DeleteFile
<1>16. CASE UNCHANGED vars
  BY <1>16 DEF vars
<1> QED
  BY <1>1, <1>2, <1>3, <1>4, <1>5, <1>6, <1>7, <1>8, <1>9, <1>10,
     <1>11, <1>12, <1>13, <1>14, <1>15, <1>16
  DEF BNext, Handler

\* The types of the handlers' local variables are kept.
LEMMA LocalsStep == Tables /\ Locals /\ [BNext]_vars => Locals'
<1> SUFFICES ASSUME Tables /\ Locals, [BNext]_vars PROVE Locals'
  OBVIOUS
<1> USE DEF Locals, locals
<1>1. ASSUME NEW c \in Clients, Start(c) PROVE Locals'
  BY <1>1 DEF Start
<1>2. ASSUME NEW c \in Clients, Return(c) PROVE Locals'
  BY <1>2 DEF Return
<1>3. ASSUME NEW c \in Clients, Fails(c) PROVE Locals'
  BY <1>3 DEF Fails
<1>4. ASSUME NEW c \in Clients, CreateBucket(c) PROVE Locals'
  BY <1>4 DEF CreateBucket
<1>5. ASSUME NEW c \in Clients, GetBucket(c) PROVE Locals'
  <2>1. live \subseteq BucketIds
    BY DEF Tables
  <2> QED
    BY <1>5, <2>1 DEF GetBucket
<1>6. ASSUME NEW c \in Clients, DeleteBucket(c) PROVE Locals'
  BY <1>6 DEF DeleteBucket
<1>7. ASSUME NEW c \in Clients, performCASUpload(c) PROVE Locals'
  BY <1>7 DEF performCASUpload
<1>8. ASSUME NEW c \in Clients, PutObject(c) PROVE Locals'
  BY <1>8 DEF PutObject
<1>9. ASSUME NEW c \in Clients, DeleteObject(c) PROVE Locals'
  BY <1>9 DEF DeleteObject
<1>10. ASSUME NEW c \in Clients, GetObject(c) PROVE Locals'
  <2>1. live \subseteq BucketIds /\ \A o \in objects : o.hash \in Hashes
    BY RowFacts DEF Tables
  <2> QED
    BY <1>10, <2>1 DEF GetObject, AtKey, ObjectsOf
<1>11. ASSUME NEW c \in Clients, CheckAccess(c) PROVE Locals'
  BY <1>11 DEF CheckAccess
<1>12. ASSUME NEW c \in Clients, downloadByHash(c) PROVE Locals'
  BY <1>12 DEF downloadByHash
<1>13. ASSUME NEW c \in Clients, ListObjects(c) PROVE Locals'
  BY <1>13 DEF ListObjects
<1>14. ASSUME NEW h \in Hashes, UploadFile(h) PROVE Locals'
  BY <1>14 DEF UploadFile
<1>15. ASSUME NEW h \in Hashes, DeleteFile(h) PROVE Locals'
  BY <1>15 DEF DeleteFile
<1>16. CASE UNCHANGED vars
  BY <1>16 DEF vars
<1> QED
  BY <1>1, <1>2, <1>3, <1>4, <1>5, <1>6, <1>7, <1>8, <1>9, <1>10,
     <1>11, <1>12, <1>13, <1>14, <1>15, <1>16
  DEF BNext, Handler

\* The types of the listings are kept.
LEMMA ListingsStep == Tables /\ Listings /\ [BNext]_vars => Listings'
<1> SUFFICES ASSUME Tables /\ Listings, [BNext]_vars PROVE Listings'
  OBVIOUS
<1> USE BucketBounds DEF Listings, listing
<1>1. ASSUME NEW c \in Clients, Start(c) PROVE Listings'
  BY <1>1 DEF Start
<1>2. ASSUME NEW c \in Clients, Return(c) PROVE Listings'
  BY <1>2 DEF Return
<1>3. ASSUME NEW c \in Clients, Fails(c) PROVE Listings'
  BY <1>3 DEF Fails
<1>4. ASSUME NEW c \in Clients, CreateBucket(c) PROVE Listings'
  BY <1>4 DEF CreateBucket
<1>5. ASSUME NEW c \in Clients, GetBucket(c) PROVE Listings'
  BY <1>5 DEF GetBucket
<1>6. ASSUME NEW c \in Clients, DeleteBucket(c) PROVE Listings'
  BY <1>6 DEF DeleteBucket
<1>7. ASSUME NEW c \in Clients, performCASUpload(c) PROVE Listings'
  BY <1>7 DEF performCASUpload
<1>8. ASSUME NEW c \in Clients, PutObject(c) PROVE Listings'
  BY <1>8 DEF PutObject
<1>9. ASSUME NEW c \in Clients, DeleteObject(c) PROVE Listings'
  BY <1>9 DEF DeleteObject
<1>10. ASSUME NEW c \in Clients, GetObject(c) PROVE Listings'
  BY <1>10 DEF GetObject
<1>11. ASSUME NEW c \in Clients, CheckAccess(c) PROVE Listings'
  BY <1>11 DEF CheckAccess
<1>12. ASSUME NEW c \in Clients, downloadByHash(c) PROVE Listings'
  BY <1>12 DEF downloadByHash
<1>13. ASSUME NEW c \in Clients, ListObjects(c) PROVE Listings'
  <2>1. ASSUME NEW i, NEW n PROVE FirstRows(BeyondCursor(c, i), n) \subseteq objects
    BY DEF FirstRows, BeyondCursor, ObjectsOf
  <2>2. \A o \in objects : o.id \in ObjectIds
    BY RowFacts DEF Tables
  <2>3. \A i : {o.id : o \in ObjectsOf(i)} \subseteq ObjectIds
    BY <2>2 DEF ObjectsOf
  <2>4. ASSUME NEW i, NEW n PROVE {o.id : o \in FirstRows(BeyondCursor(c, i), n)} \subseteq ObjectIds
    BY <2>1, <2>2
  <2>5. ASSUME NEW i, NEW T, NEW o \in FirstRows(BeyondCursor(c, i), MaxKeys + 1) \ T
        PROVE o.id \in 0 .. MaxObjects
    BY <2>1, <2>2 DEF ObjectIds
  <2>6. listed' \in [Clients -> SUBSET ObjectIds]
    BY <1>13, <2>4 DEF ListObjects
  <2>7. cursor' \in [Clients -> 0 .. MaxObjects]
    BY <1>13, <2>5 DEF ListObjects
  <2>8. expected' \in [Clients -> SUBSET ObjectIds]
    BY <1>13, <2>3 DEF ListObjects
  <2> QED
    BY <2>6, <2>7, <2>8
<1>14. ASSUME NEW h \in Hashes, UploadFile(h) PROVE Listings'
  BY <1>14 DEF UploadFile
<1>15. ASSUME NEW h \in Hashes, DeleteFile(h) PROVE Listings'
  BY <1>15 DEF DeleteFile
<1>16. CASE UNCHANGED vars
  BY <1>16 DEF vars
<1> QED
  BY <1>1, <1>2, <1>3, <1>4, <1>5, <1>6, <1>7, <1>8, <1>9, <1>10,
     <1>11, <1>12, <1>13, <1>14, <1>15, <1>16
  DEF BNext, Handler

\* Ids of buckets are not used twice: a row stays what it was, and a bucket
\* that was deleted does not come back.
LEMMA RowsStay ==
    Inv1 /\ [BNext]_vars =>
        /\ 1 .. lastBucket \subseteq 1 .. lastBucket'
        /\ \A i \in 1 .. lastBucket : row'[i] = row[i] /\ (i \in live' => i \in live)
<1> SUFFICES ASSUME Inv1, [BNext]_vars
             PROVE /\ 1 .. lastBucket \subseteq 1 .. lastBucket'
                   /\ \A i \in 1 .. lastBucket : row'[i] = row[i] /\ (i \in live' => i \in live)
  OBVIOUS
<1> USE BucketBounds DEF Inv1, Tables
<1>1. ASSUME NEW c \in Clients, CreateBucket(c), UNCHANGED <<row, live, lastBucket>>
      PROVE /\ 1 .. lastBucket \subseteq 1 .. lastBucket'
            /\ \A i \in 1 .. lastBucket : row'[i] = row[i] /\ (i \in live' => i \in live)
  BY <1>1
<1>2. ASSUME lastBucket' = lastBucket + 1, NEW r, row' = [row EXCEPT ![lastBucket + 1] = r],
             live' = live \cup {lastBucket + 1}
      PROVE /\ 1 .. lastBucket \subseteq 1 .. lastBucket'
            /\ \A i \in 1 .. lastBucket : row'[i] = row[i] /\ (i \in live' => i \in live)
  <2>1. \A i \in 1 .. lastBucket : i # lastBucket + 1 /\ i \in BucketIds
    BY DEF BucketIds
  <2> QED
    BY <1>2, <2>1
<1>3. ASSUME NEW c \in Clients, DeleteBucket(c)
      PROVE /\ 1 .. lastBucket \subseteq 1 .. lastBucket'
            /\ \A i \in 1 .. lastBucket : row'[i] = row[i] /\ (i \in live' => i \in live)
  BY <1>3 DEF DeleteBucket
<1>4. CASE UNCHANGED <<row, live, lastBucket>>
  BY <1>4
<1>5. \/ UNCHANGED <<row, live, lastBucket>>
      \/ \E c \in Clients : CreateBucket(c) \/ DeleteBucket(c)
  BY DEF BNext, Handler, Start, Return, Fails, GetBucket, performCASUpload, PutObject,
     DeleteObject, GetObject, CheckAccess, downloadByHash, ListObjects, UploadFile, DeleteFile,
     vars, tables
<1> QED
  BY <1>1, <1>2, <1>3, <1>4, <1>5 DEF CreateBucket

Untouched(d) ==
    /\ pc'[d] = pc[d] /\ request'[d] = request[d] /\ answer'[d] = answer[d]
    /\ seen'[d] = seen[d] /\ access'[d] = access[d]

\* A handler is touched by its own steps only.
LEMMA OwnSteps ==
    Inv1 /\ [BNext]_vars => \A d \in Clients : Handler(d) \/ Untouched(d)
<1> SUFFICES ASSUME Inv1, [BNext]_vars, NEW d \in Clients PROVE Handler(d) \/ Untouched(d)
  OBVIOUS
<1> USE DEF Inv1, Handlers, Locals, Untouched, Goto, Reply, locals
<1>1. ASSUME NEW c \in Clients, c # d,
             \/ Start(c) \/ Return(c) \/ Fails(c) \/ CreateBucket(c) \/ GetBucket(c)
             \/ DeleteBucket(c) \/ performCASUpload(c)
      PROVE Untouched(d)
  BY <1>1 DEF Start, Return, Fails, CreateBucket, GetBucket, DeleteBucket, performCASUpload
<1>2. ASSUME NEW c \in Clients, c # d,
             \/ PutObject(c) \/ DeleteObject(c) \/ GetObject(c) \/ CheckAccess(c)
             \/ downloadByHash(c) \/ ListObjects(c)
      PROVE Untouched(d)
  BY <1>2 DEF PutObject, DeleteObject, GetObject, CheckAccess, downloadByHash, ListObjects
<1>3. ASSUME NEW h \in Hashes, UploadFile(h) \/ DeleteFile(h) PROVE Untouched(d)
  BY <1>3 DEF UploadFile, DeleteFile
<1>4. CASE UNCHANGED vars
  BY <1>4 DEF vars
<1> QED
  BY <1>1, <1>2, <1>3, <1>4 DEF BNext, Handler

\* What was stored once is stored, or was removed by hash.
LEMMA OnceStored == [BNext]_vars => content \cup removed \subseteq content' \cup removed'
BY DEF BNext, Handler, Start, Return, Fails, CreateBucket, GetBucket, DeleteBucket,
   performCASUpload, PutObject, DeleteObject, GetObject, CheckAccess, downloadByHash,
   ListObjects, UploadFile, DeleteFile, vars, backends

\* The bucket that a handler has seen stays the one that was checked, or goes.
LEMMA Step2 == IInv /\ [BNext]_vars => Inv2'
<1> SUFFICES ASSUME IInv, [BNext]_vars, NEW c \in Clients PROVE SeenBucket(c)' /\ Passed(c)'
  BY DEF Inv2
<1>1. /\ 1 .. lastBucket \subseteq 1 .. lastBucket'
      /\ \A i \in 1 .. lastBucket : row'[i] = row[i] /\ (i \in live' => i \in live)
  BY RowsStay DEF IInv
<1>2. SeenBucket(c) /\ Passed(c) /\ Shape(c) /\ Rows
  BY DEF IInv, Inv1, Inv2, Handlers, Tables
<1>3. CASE Untouched(c)
  <2>1. /\ pc'[c] = pc[c] /\ seen'[c] = seen[c] /\ access'[c] = access[c]
        /\ answer'[c] = answer[c] /\ op(c)' = op(c) /\ owner(c)' = owner(c)
        /\ request'[c].name = request[c].name
    BY <1>3 DEF Untouched, op, owner
  <2>2. HasRead(c)' <=> HasRead(c)
    BY <2>1 DEF HasRead
  <2>3. SeenBucket(c)'
    BY <1>1, <1>2, <2>1, <2>2 DEF SeenBucket
  <2>4. pc[c] \in Writes \/ pc[c] = "download" \/ HasRead(c)
           => /\ seen[c] \in 1 .. lastBucket
              /\ row'[seen[c]] = row[seen[c]]
              /\ seen[c] \in live' => seen[c] \in live
    <3>1. pc[c] = "download" => op(c) \in Reads
      BY <1>2 DEF Shape, Reads
    <3> QED
      BY <1>1, <1>2, <3>1 DEF SeenBucket
  <2>5. Passed(c)'
    BY <1>2, <2>1, <2>2, <2>4 DEF Passed, MayRead
  <2> QED
    BY <2>3, <2>5
<1>4. ASSUME Start(c) \/ Return(c) \/ Fails(c) \/ CreateBucket(c) \/ DeleteBucket(c)
             \/ PutObject(c) \/ DeleteObject(c) \/ ListObjects(c)
      PROVE SeenBucket(c)' /\ Passed(c)'
  <2> USE RequestFacts DEF IInv, Inv1, Handlers, Locals, Shape, SeenBucket, Passed, HasRead,
      Writes, Reads, op, Goto, Reply, At
  <2>1. CASE Start(c)
    BY <2>1 DEF Start
  <2>2. CASE Return(c)
    BY <2>2 DEF Return
  <2>3. CASE Fails(c)
    BY <2>3 DEF Fails
  <2>4. CASE CreateBucket(c)
    BY <2>4 DEF CreateBucket
  <2>5. CASE DeleteBucket(c)
    BY <2>5 DEF DeleteBucket
  <2>6. CASE PutObject(c)
    BY <2>6 DEF PutObject
  <2>7. CASE DeleteObject(c)
    BY <2>7 DEF DeleteObject
  <2>8. CASE ListObjects(c)
    BY <2>8 DEF ListObjects
  <2> QED
    BY <1>4, <2>1, <2>2, <2>3, <2>4, <2>5, <2>6, <2>7, <2>8
<1>5. ASSUME GetBucket(c) \/ GetObject(c) PROVE SeenBucket(c)' /\ Passed(c)'
  <2> USE DEF IInv, Inv1, Handlers, Locals, Shape, SeenBucket, Passed, HasRead, Writes, Reads,
      op, owner, Goto, Reply, At, Named, Rows, OwnerMatches, tables
  <2>1. CASE GetBucket(c)
    BY <1>2, <2>1 DEF GetBucket
  <2>2. CASE GetObject(c)
    BY <1>2, <2>2 DEF GetObject
  <2> QED
    BY <1>5, <2>1, <2>2
<1>6. ASSUME performCASUpload(c) \/ downloadByHash(c) PROVE SeenBucket(c)' /\ Passed(c)'
  <2> USE DEF IInv, Inv1, Handlers, Shape, SeenBucket, Passed, HasRead, Writes, Reads,
      op, owner, MayRead, Goto, Reply, At, tables, locals
  <2>1. CASE performCASUpload(c)
    BY <1>2, <2>1 DEF performCASUpload
  <2>2. CASE downloadByHash(c)
    BY <1>2, <2>2 DEF downloadByHash
  <2> QED
    BY <1>6, <2>1, <2>2
<1>7. ASSUME CheckAccess(c) PROVE SeenBucket(c)' /\ Passed(c)'
  <2>1. pc[c] = "checkAccess" /\ UNCHANGED <<tables, request, seen>>
    BY <1>7 DEF CheckAccess, At
  <2>2. op(c) \in Reads => seen[c] \in 1 .. lastBucket /\ row[seen[c]] \in BucketRows
                              /\ row[seen[c]].name = request[c].name
    BY <1>2, <2>1 DEF SeenBucket
  <2>3. PICK v \in {"allowed", "denied", "notFound", "failed"} :
            /\ Verdict(c, v) /\ access'[c] = v
            /\ \/ v = "denied" /\ Reply(c, "denied")
               \/ v = "notFound" /\ op(c) = "list" /\ Reply(c, "notFound")
               \/ v # "denied" /\ op(c) \in {"info", "head"} /\ Reply(c, "ok")
               \/ v # "denied" /\ op(c) = "get" /\ Goto(c, "download")
               \/ v \notin {"denied", "notFound"} /\ op(c) = "list" /\ Goto(c, "listObjects")
    BY <1>7 DEF CheckAccess, IInv, Inv1, Locals
  <2>4. op(c) \in Reads /\ v # "denied" =>
            MayRead(c, seen[c]) \/ access'[c] = "failed" \/ seen[c] \notin live
    <3>1. CASE v = "failed"
      BY <2>3, <3>1
    <3>2. CASE v = "notFound"
      BY <2>2, <2>3, <3>2 DEF Verdict, Nameless, Named
    <3>3. CASE v = "allowed"
      BY <2>2, <2>3, <3>3 DEF Verdict, Named, IInv, Inv3, ObjectHasBucket
    <3> QED
      BY <2>3, <3>1, <3>2, <3>3
  <2>5. op(c)' = op(c) /\ owner(c)' = owner(c) /\ pc \in [Clients -> Calls]
        /\ answer \in [Clients -> {"none", "ok", "denied", "notFound", "conflict", "error"}]
    BY <2>1 DEF op, owner, IInv, Inv1, Handlers
  <2>6. SeenBucket(c)'
    BY <2>1, <2>2, <2>3, <2>5 DEF SeenBucket, HasRead, Writes, Reads, Goto, Reply, tables
  <2>7. pc'[c] \notin Writes
    BY <2>1, <2>3, <2>5 DEF Goto, Reply, Writes
  <2>8. pc'[c] = "download" \/ HasRead(c)' => op(c) \in Reads /\ v # "denied"
    BY <2>3, <2>5, <2>1 DEF HasRead, Goto, Reply, Reads
  <2> QED
    BY <2>1, <2>4, <2>5, <2>6, <2>7, <2>8 DEF Passed, MayRead, tables
<1> QED
  BY <1>3, <1>4, <1>5, <1>6, <1>7, OwnSteps DEF IInv, Handler

\* Objects keep their bucket and their content.
LEMMA Step3 == IInv /\ [BNext]_vars => Inv3'
<1> SUFFICES ASSUME IInv, [BNext]_vars PROVE Inv3'
  OBVIOUS
<1> USE DEF IInv, Inv1, Inv3
<1>1. StoredFirst'
  <2> SUFFICES ASSUME NEW c \in Clients, pc'[c] = "putObject"
               PROVE request'[c].hash \in content' \cup removed'
    BY DEF StoredFirst
  <2>1. CASE Untouched(c)
    BY <2>1, OnceStored DEF Untouched, StoredFirst
  <2>2. CASE performCASUpload(c)
    BY <2>2 DEF performCASUpload
  <2>3. CASE ~performCASUpload(c) /\ Handler(c)
    BY <2>3 DEF Handler, Handlers, Start, Return, Fails, CreateBucket, GetBucket, DeleteBucket,
       PutObject, DeleteObject, GetObject, CheckAccess, downloadByHash, ListObjects, Goto, Reply
  <2> QED
    BY <2>1, <2>2, <2>3, OwnSteps
<1>2. CASE UNCHANGED <<row, live, objects>>
  BY <1>1, <1>2, OnceStored DEF ObjectHasBucket, ContentBehindObjects
<1>3. ASSUME NEW c \in Clients, CreateBucket(c) PROVE Inv3'
  <2>1. ContentBehindObjects'
    BY <1>3, OnceStored DEF CreateBucket, ContentBehindObjects
  <2>2. ASSUME lastBucket < MaxBuckets, Nameless(c),
               row' = [row EXCEPT ![lastBucket + 1] = Created(c)],
               live' = live \cup {lastBucket + 1}, UNCHANGED objects
        PROVE ObjectHasBucket'
    <3>1. /\ lastBucket + 1 \in BucketIds /\ lastBucket + 1 \notin live
          /\ row'[lastBucket + 1] = Created(c)
          /\ \A i \in live : row'[i] = row[i] /\ row[i].name # Created(c).name
      BY <2>2, BucketBounds, CreatedFacts DEF Tables, Rows, BucketIds, Nameless, Named
    <3> QED
      BY <2>2, <3>1 DEF ObjectHasBucket
  <2> QED
    BY <1>1, <1>2, <1>3, <2>1, <2>2 DEF CreateBucket
<1>4. ASSUME NEW c \in Clients, DeleteBucket(c) PROVE Inv3'
  BY <1>1, <1>4, OnceStored DEF DeleteBucket, ObjectHasBucket, ContentBehindObjects, ObjectsOf
<1>5. ASSUME NEW c \in Clients, DeleteObject(c) PROVE Inv3'
  BY <1>1, <1>5, OnceStored DEF DeleteObject, ObjectHasBucket, ContentBehindObjects
<1>6. ASSUME NEW c \in Clients, PutObject(c) PROVE Inv3'
  <2>1. request[c].hash \in content \cup removed
    BY <1>6 DEF PutObject, At, StoredFirst
  <2>2. ASSUME NEW i \in live, NEW d, NEW o, o \in AtKey(c, i) \/ AtKey(c, i) = {},
               objects' = (objects \ {o}) \cup {Entry(c, d, i)}, UNCHANGED <<row, live>>
        PROVE ObjectHasBucket' /\ ContentBehindObjects'
    BY <2>1, <2>2, EntryFacts, OnceStored DEF ObjectHasBucket, ContentBehindObjects, AtKey, ObjectsOf
  <2>3. ASSUME NEW i \in live, NEW d, AtKey(c, i) = {},
               objects' = objects \cup {Entry(c, d, i)}, UNCHANGED <<row, live>>
        PROVE ObjectHasBucket' /\ ContentBehindObjects'
    BY <2>1, <2>3, EntryFacts, OnceStored DEF ObjectHasBucket, ContentBehindObjects, AtKey, ObjectsOf
  <2> QED
    BY <1>1, <1>2, <1>6, <2>2, <2>3 DEF PutObject
<1>7. \/ UNCHANGED <<row, live, objects>>
      \/ \E c \in Clients : CreateBucket(c) \/ DeleteBucket(c) \/ DeleteObject(c) \/ PutObject(c)
  BY DEF BNext, Handler, Start, Return, Fails, GetBucket, performCASUpload, GetObject,
     CheckAccess, downloadByHash, ListObjects, UploadFile, DeleteFile, vars, tables
<1> QED
  BY <1>2, <1>3, <1>4, <1>5, <1>6, <1>7

\* The invariant of BucketStore.
THEOREM Invariance == BSpec => []IInv
<1>1. IInv /\ [BNext]_vars => IInv'
  BY HandlersStep, TablesStep, LocalsStep, ListingsStep, Step2, Step3 DEF IInv, Inv1
<1> QED
  BY <1>1, InitInv, PTL DEF BSpec

\* Every variable keeps its type: ids and rows, the calls of the handlers and
\* what a listing has returned.
THEOREM BucketTypeCorrect == BSpec => []BucketTypeOK
<1>1. IInv => BucketTypeOK
  BY DEF IInv, Inv1, Tables, Handlers, Locals, Listings, BucketTypeOK
<1> QED
  BY <1>1, Invariance, PTL

\* No object is left without its bucket, no name and no key is taken twice,
\* whatever puts, deletions and creations run at once.
THEOREM NoObjectLeftBehind == BSpec => []ObjectHasBucket
<1>1. IInv => ObjectHasBucket
  BY DEF IInv, Inv3
<1> QED
  BY <1>1, Invariance, PTL

\* The content of every object has been stored before the object was, and only
\* a client of /file takes it away.
THEOREM ContentIsStored == BSpec => []ContentBehindObjects
<1>1. IInv => ContentBehindObjects
  BY DEF IInv, Inv3
<1> QED
  BY <1>1, Invariance, PTL

\* What was read has passed the check of the bucket it was read from.
THEOREM ReadsPassed == BSpec => []ReadsAreChecked
<1>1. IInv => ReadsAreChecked
  BY DEF IInv, Inv1, Handlers, Shape, Inv2, Passed, HasRead, Reads, ReadsAreChecked
<1> QED
  BY <1>1, Invariance, PTL

\* Objects leave by the deletion of their key only.
THEOREM ObjectsStay == BSpec => ObjectsLeaveByTheirKey
<1> DEFINE Leaves ==
      \A o \in objects :
          \/ \E p \in objects' : p.id = o.id /\ p.bucket = o.bucket /\ p.key = o.key
          \/ \E c \in Clients :
                pc[c] = "deleteObject" /\ pc'[c] = "reply" /\ Named(c, o.bucket)
                    /\ request[c].key = o.key
<1>1. IInv /\ [BNext]_vars => [Leaves]_vars
  <2> SUFFICES ASSUME IInv, [BNext]_vars PROVE Leaves
    OBVIOUS
  <2>1. CASE objects \subseteq objects'
    BY <2>1
  <2>2. ASSUME NEW c \in Clients, DeleteObject(c) PROVE Leaves
    BY <2>2 DEF DeleteObject, AtKey, ObjectsOf, At, Reply, IInv, Inv1, Handlers
  <2>3. ASSUME NEW c \in Clients, PutObject(c) PROVE Leaves
    <3>1. ASSUME NEW i \in live, NEW o \in AtKey(c, i),
                 objects' = (objects \ {o}) \cup {Entry(c, o.id, i)}
          PROVE Leaves
      BY <3>1, EntryFacts DEF AtKey, ObjectsOf
    <3> QED
      BY <2>1, <2>3, <3>1 DEF PutObject
  <2>4. objects \subseteq objects' \/ \E c \in Clients : DeleteObject(c) \/ PutObject(c)
    BY DEF BNext, Handler, Start, Return, Fails, CreateBucket, GetBucket, DeleteBucket,
       performCASUpload, GetObject, CheckAccess, downloadByHash, ListObjects, UploadFile,
       DeleteFile, vars, tables
  <2> QED
    BY <2>1, <2>2, <2>3, <2>4
<1> QED
  BY <1>1, Invariance, PTL DEF BSpec, ObjectsLeaveByTheirKey

\* A bucket and its objects change in requests of its owner, or in requests
\* that were checked against an earlier bucket of its name.
THEOREM OwnersChange == BSpec => ChangesAreOwned
<1> DEFINE Owned ==
      \A i \in live :
          i \notin live' \/ ObjectsOf(i) # ObjectsOf(i)' =>
              \E c \in Clients :
                  /\ pc[c] \in {"putObject", "deleteObject", "deleteBucket"}
                  /\ pc'[c] = "reply"
                  /\ row[i].owner = owner(c) \/ seen[c] # i
<1>1. IInv /\ [BNext]_vars => [Owned]_vars
  <2> SUFFICES ASSUME IInv, [BNext]_vars, NEW i \in live,
                      i \notin live' \/ ObjectsOf(i) # ObjectsOf(i)'
               PROVE  \E c \in Clients :
                  /\ pc[c] \in {"putObject", "deleteObject", "deleteBucket"}
                  /\ pc'[c] = "reply"
                  /\ row[i].owner = owner(c) \/ seen[c] # i
    BY DEF ObjectsOf
  <2>1. \A c \in Clients : pc[c] \in {"putObject", "deleteObject", "deleteBucket"}
            => row[i].owner = owner(c) \/ seen[c] # i
    BY DEF IInv, Inv2, Passed, Writes
  <2>2. ~(live \subseteq live' /\ UNCHANGED objects)
    BY DEF ObjectsOf
  <2>3. \E c \in Clients : DeleteBucket(c) \/ DeleteObject(c) \/ PutObject(c)
    BY <2>2 DEF BNext, Handler, Start, Return, Fails, CreateBucket, GetBucket,
       performCASUpload, GetObject, CheckAccess, downloadByHash, ListObjects, UploadFile,
       DeleteFile, vars, tables
  <2>4. PICK c \in Clients : DeleteBucket(c) \/ DeleteObject(c) \/ PutObject(c)
    BY <2>3
  <2>5. pc[c] \in {"putObject", "deleteObject", "deleteBucket"} /\ pc'[c] = "reply"
    BY <2>4 DEF DeleteBucket, DeleteObject, PutObject, At, Reply, IInv, Inv1, Handlers
  <2> QED
    BY <2>1, <2>5
<1> QED
  BY <1>1, Invariance, PTL DEF BSpec, ChangesAreOwned

=============================================================================
