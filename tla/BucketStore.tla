----------------------------- MODULE BucketStore -----------------------------
(***************************************************************************)
(* The buckets of the balancer: pkg/bucket's two tables and the handlers   *)
(* of bucket.go and bucket_object.go on them.                              *)
(*                                                                         *)
(* A method of bucket.Store runs under its RWMutex and is one step; a      *)
(* handler makes two or three calls, and between them others run.  Each    *)
(* call finds its bucket by name.  Objects refer to content by hash; the   *)
(* content lies on the casd backends, whose clients may remove it.         *)
(*                                                                         *)
(* A statement may fail at any time (a full disk, a busy database), as all *)
(* do once Server.Shutdown has closed the database under its handlers.     *)
(***************************************************************************)
EXTENDS Integers, FiniteSets

CONSTANTS
    Clients,        \* one request at a time each
    Names,          \* bucket names
    Owners,         \* values of X-Owner-ID
    Keys,           \* object keys: numbers, for their order
    Hashes,         \* contents
    MaxKeys,        \* max-keys of a listing
    MaxBuckets,     \* bound: buckets ever created
    MaxObjects,     \* bound: objects ever inserted
    None            \* no row, no hash

ASSUME BucketBounds ==
    /\ Keys \subseteq Nat
    /\ MaxKeys \in Nat \ {0}
    /\ MaxBuckets \in Nat /\ MaxObjects \in Nat
    /\ None \notin Hashes

BucketIds == 1 .. MaxBuckets
ObjectIds == 1 .. MaxObjects
BucketRows == [name : Names, owner : Owners, public : BOOLEAN]
Objects == [id : ObjectIds, bucket : BucketIds, key : Keys, hash : Hashes]

NoRequest == [op |-> "none"]
Requests ==
    [op : {"create"}, name : Names, owner : Owners, public : BOOLEAN]
    \cup [op : {"info", "deleteBucket", "list"}, name : Names, owner : Owners]
    \cup [op : {"get", "head", "delete"}, name : Names, owner : Owners, key : Keys]
    \cup [op : {"put"}, name : Names, owner : Owners, key : Keys, hash : Hashes]

VARIABLES
    row,            \* row[i]: the buckets row with id i; a deleted one stays
                    \* here to remember whose it was
    live,           \* the ids in table buckets
    objects,        \* table objects
    lastBucket,     \* AUTOINCREMENT of buckets
    lastObject,     \* AUTOINCREMENT of objects
    content,        \* hashes that some backend holds
    removed,        \* history: those a client of /file removed, until stored again
    pc,             \* pc[c]: the next call of c's handler
    request,        \* request[c]: what c asks for
    seen,           \* seen[c]: the bucket id the handler's first call found
    found,          \* found[c]: the hash that GetObject found
    access,         \* access[c]: what CheckAccess returned
    cursor,         \* cursor[c]: the cursor of c's listing, 0 for none
    listed,         \* listed[c]: the object ids c's listing has returned
    expected,       \* history: the object ids there when c's listing began
    answer          \* answer[c]: how the handler answered

tables == <<row, live, objects, lastBucket, lastObject>>
backends == <<content, removed>>
listing == <<cursor, listed, expected>>
locals == <<seen, found, access>>
vars == <<tables, backends, pc, request, locals, listing, answer>>

Calls == {"idle", "insert", "getBucket", "upload", "putObject", "deleteObject",
          "deleteBucket", "getObject", "checkAccess", "download", "listObjects",
          "reply"}

BucketTypeOK ==
    /\ row \in [BucketIds -> BucketRows \cup {None}]
    /\ live \subseteq BucketIds
    /\ objects \subseteq Objects
    /\ lastBucket \in 0 .. MaxBuckets /\ lastObject \in 0 .. MaxObjects
    /\ content \subseteq Hashes /\ removed \subseteq Hashes
    /\ pc \in [Clients -> Calls]
    /\ request \in [Clients -> Requests \cup {NoRequest}]
    /\ seen \in [Clients -> BucketIds \cup {None}]
    /\ found \in [Clients -> Hashes \cup {None}]
    /\ access \in [Clients -> {"none", "allowed", "denied", "notFound", "failed"}]
    /\ cursor \in [Clients -> 0 .. MaxObjects]
    /\ listed \in [Clients -> SUBSET ObjectIds]
    /\ expected \in [Clients -> SUBSET ObjectIds]
    /\ answer \in [Clients -> {"none", "ok", "denied", "notFound", "conflict", "error"}]

BInit ==
    /\ row = [i \in BucketIds |-> None]
    /\ live = {} /\ objects = {}
    /\ lastBucket = 0 /\ lastObject = 0
    /\ content = {} /\ removed = {}
    /\ pc = [c \in Clients |-> "idle"]
    /\ request = [c \in Clients |-> NoRequest]
    /\ seen = [c \in Clients |-> None]
    /\ found = [c \in Clients |-> None]
    /\ access = [c \in Clients |-> "none"]
    /\ cursor = [c \in Clients |-> 0]
    /\ listed = [c \in Clients |-> {}]
    /\ expected = [c \in Clients |-> {}]
    /\ answer = [c \in Clients |-> "none"]

op(c) == request[c].op
owner(c) == request[c].owner

\* SELECT ... FROM buckets WHERE name = ?
Named(c, i) == i \in live /\ row[i].name = request[c].name
Nameless(c) == \A i \in live : ~Named(c, i)
ObjectsOf(i) == {o \in objects : o.bucket = i}
AtKey(c, i) == {o \in ObjectsOf(i) : o.key = request[c].key}
Entry(c, id, i) ==
    [id |-> id, bucket |-> i, key |-> request[c].key, hash |-> request[c].hash]

At(c, call) == pc[c] = call
Goto(c, call) == pc' = [pc EXCEPT ![c] = call] /\ UNCHANGED answer
Reply(c, a) ==
    /\ pc' = [pc EXCEPT ![c] = "reply"]
    /\ answer' = [answer EXCEPT ![c] = a]

-----------------------------------------------------------------------------
(* A request, its answer, and a statement that fails.                      *)

Start(c) ==
    /\ At(c, "idle")
    /\ \E r \in Requests :
          /\ request' = [request EXCEPT ![c] = r]
          /\ \/ r.op = "create" /\ Goto(c, "insert")
             \/ r.op \in {"info", "deleteBucket", "put", "delete"} /\ Goto(c, "getBucket")
             \/ r.op \in {"get", "head"} /\ Goto(c, "getObject")
             \/ r.op = "list" /\ Goto(c, "checkAccess")
    /\ UNCHANGED <<tables, backends, locals, listing>>

Return(c) ==
    /\ At(c, "reply")
    /\ pc' = [pc EXCEPT ![c] = "idle"]
    /\ answer' = [answer EXCEPT ![c] = "none"]
    /\ request' = [request EXCEPT ![c] = NoRequest]
    /\ seen' = [seen EXCEPT ![c] = None]
    /\ found' = [found EXCEPT ![c] = None]
    /\ access' = [access EXCEPT ![c] = "none"]
    /\ cursor' = [cursor EXCEPT ![c] = 0]
    /\ listed' = [listed EXCEPT ![c] = {}]
    /\ expected' = [expected EXCEPT ![c] = {}]
    /\ UNCHANGED <<tables, backends>>

\* ErrDatabaseError, and a failed upload to the backends: a 500
Fails(c) ==
    /\ pc[c] \in {"insert", "getBucket", "upload", "putObject", "deleteObject",
                  "deleteBucket", "getObject", "listObjects"}
    /\ Reply(c, "error")
    /\ UNCHANGED <<tables, backends, request, locals, listing>>

-----------------------------------------------------------------------------
(* Buckets                                                                 *)

Created(c) ==
    [name |-> request[c].name, owner |-> owner(c), public |-> request[c].public]

CreateBucket(c) ==
    /\ At(c, "insert")
    /\ \/ /\ Nameless(c) /\ lastBucket < MaxBuckets
          /\ lastBucket' = lastBucket + 1
          /\ row' = [row EXCEPT ![lastBucket + 1] = Created(c)]
          /\ live' = live \cup {lastBucket + 1}
          /\ Reply(c, "ok")
       \/ ~Nameless(c) /\ Reply(c, "conflict") /\ UNCHANGED <<row, live, lastBucket>>
    /\ UNCHANGED <<objects, lastObject, backends, request, locals, listing>>

\* Mutant: everyone may write.
AnyOwner(c, i) == TRUE

OwnerMatches(c, i) == row[i].owner = owner(c)

\* GetBucket and the handler's check of the owner
GetBucket(c) ==
    /\ At(c, "getBucket")
    /\ \/ Nameless(c) /\ Reply(c, "notFound") /\ UNCHANGED seen
       \/ \E i \in live :
             /\ Named(c, i)
             /\ seen' = [seen EXCEPT ![c] = i]
             /\ \/ op(c) = "info" /\ Goto(c, "checkAccess")
                \/ op(c) # "info" /\ ~OwnerMatches(c, i) /\ Reply(c, "denied")
                \/ op(c) = "put" /\ OwnerMatches(c, i) /\ Goto(c, "upload")
                \/ op(c) = "delete" /\ OwnerMatches(c, i) /\ Goto(c, "deleteObject")
                \/ op(c) = "deleteBucket" /\ OwnerMatches(c, i)
                      /\ Goto(c, "deleteBucket")
    /\ UNCHANGED <<tables, backends, request, found, access, listing>>

\* Mutant: leaves the emptiness to the count that GetBucket has returned.
DeleteCounted(c) ==
    /\ At(c, "deleteBucket")
    /\ \E i \in live :
          /\ Named(c, i)
          /\ live' = live \ {i} /\ objects' = objects \ ObjectsOf(i)
          /\ Reply(c, "ok")
    /\ UNCHANGED <<row, lastBucket, lastObject, backends, request, locals, listing>>

DeleteBucket(c) ==
    /\ At(c, "deleteBucket")
    /\ \/ Nameless(c) /\ Reply(c, "error") /\ UNCHANGED live
       \/ \E i \in live :
             /\ Named(c, i)
             /\ \/ /\ ObjectsOf(i) # {}
                   /\ Reply(c, "conflict") /\ UNCHANGED live
                \/ /\ ObjectsOf(i) = {}
                   /\ live' = live \ {i} /\ Reply(c, "ok")
    /\ UNCHANGED <<row, objects, lastBucket, lastObject, backends, request,
                   locals, listing>>

-----------------------------------------------------------------------------
(* Objects                                                                 *)

\* 200 and 409 both mean that a backend holds the content.
performCASUpload(c) ==
    /\ At(c, "upload")
    /\ content' = content \cup {request[c].hash}
    /\ removed' = removed \ {request[c].hash}
    /\ Goto(c, "putObject")
    /\ UNCHANGED <<tables, request, locals, listing>>

\* Mutant: writes to the bucket that the handler has looked up.
PutWhereSeen(c) ==
    /\ At(c, "putObject") /\ lastObject < MaxObjects
    /\ lastObject' = lastObject + 1
    /\ objects' = (objects \ AtKey(c, seen[c]))
                     \cup {Entry(c, lastObject + 1, seen[c])}
    /\ Reply(c, "ok")
    /\ UNCHANGED <<row, live, lastBucket, backends, request, locals, listing>>

\* Mutant: records whatever the answer of the upload contained, if anything.
PutUnchecked(c) ==
    /\ At(c, "putObject") /\ lastObject < MaxObjects
    /\ \E i \in live :
          /\ Named(c, i) /\ AtKey(c, i) = {}
          /\ objects' = objects \cup
                {[id |-> lastObject + 1, bucket |-> i, key |-> request[c].key,
                  hash |-> None]}
    /\ lastObject' = lastObject + 1
    /\ Reply(c, "ok")
    /\ UNCHANGED <<row, live, lastBucket, backends, request, locals, listing>>

\* INSERT ... ON CONFLICT(bucket_id, key) DO UPDATE: a row keeps its id.  (That
\* SQLite may leave gaps in the ids makes no difference.)
PutObject(c) ==
    /\ At(c, "putObject")
    /\ \/ Nameless(c) /\ Reply(c, "error") /\ UNCHANGED <<objects, lastObject>>
       \/ \E i \in live :
             /\ Named(c, i)
             /\ \/ \E o \in AtKey(c, i) :
                      /\ objects' = (objects \ {o}) \cup {Entry(c, o.id, i)}
                      /\ UNCHANGED lastObject
                \/ /\ AtKey(c, i) = {} /\ lastObject < MaxObjects
                   /\ lastObject' = lastObject + 1
                   /\ objects' = objects \cup {Entry(c, lastObject + 1, i)}
             /\ Reply(c, "ok")
    /\ UNCHANGED <<row, live, lastBucket, backends, request, locals, listing>>

\* Mutant: removes the content with the object.
DeleteWithContent(c) ==
    /\ At(c, "deleteObject")
    /\ \E i \in live :
          /\ Named(c, i) /\ AtKey(c, i) # {}
          /\ objects' = objects \ AtKey(c, i)
          /\ content' = content \ {o.hash : o \in AtKey(c, i)}
    /\ Reply(c, "ok")
    /\ UNCHANGED <<row, live, lastBucket, lastObject, removed, request, locals, listing>>

\* A bucket that has gone since the check is an error here, not a 404.
DeleteObject(c) ==
    /\ At(c, "deleteObject")
    /\ \/ Nameless(c) /\ Reply(c, "error") /\ UNCHANGED objects
       \/ \E i \in live :
             /\ Named(c, i)
             /\ \/ AtKey(c, i) = {} /\ Reply(c, "notFound") /\ UNCHANGED objects
                \/ AtKey(c, i) # {} /\ Reply(c, "ok")
                      /\ objects' = objects \ AtKey(c, i)
    /\ UNCHANGED <<row, live, lastBucket, lastObject, backends, request, locals,
                   listing>>

GetObject(c) ==
    /\ At(c, "getObject")
    /\ \/ /\ \A i \in live : Named(c, i) => AtKey(c, i) = {}
          /\ Reply(c, "notFound") /\ UNCHANGED <<seen, found>>
       \/ \E i \in live : \E o \in AtKey(c, i) :
             /\ Named(c, i)
             /\ seen' = [seen EXCEPT ![c] = i]
             /\ found' = [found EXCEPT ![c] = o.hash]
             /\ Goto(c, "checkAccess")
    /\ UNCHANGED <<tables, backends, request, access, listing>>

MayRead(c, i) == row[i].owner = owner(c) \/ row[i].public

\* Mutant: takes every bucket for a public one.
AlwaysAllowed(c, v) == v = "allowed"

\* CheckAccess
Verdict(c, v) ==
    \/ v = "failed"
    \/ v = "notFound" /\ Nameless(c)
    \/ \E i \in live :
          Named(c, i) /\ v = IF MayRead(c, i) THEN "allowed" ELSE "denied"

\* Only ErrAccessDenied ends the handler, in a listing ErrBucketNotFound too:
\* after any other error it goes on.
CheckAccess(c) ==
    /\ At(c, "checkAccess")
    /\ \E v \in {"allowed", "denied", "notFound", "failed"} :
          /\ Verdict(c, v)
          /\ access' = [access EXCEPT ![c] = v]
          /\ \/ v = "denied" /\ Reply(c, "denied")
             \/ v = "notFound" /\ op(c) = "list" /\ Reply(c, "notFound")
             \/ v # "denied" /\ op(c) \in {"info", "head"} /\ Reply(c, "ok")
             \/ v # "denied" /\ op(c) = "get" /\ Goto(c, "download")
             \/ v \notin {"denied", "notFound"} /\ op(c) = "list"
                   /\ Goto(c, "listObjects")
    /\ UNCHANGED <<tables, backends, request, seen, found, listing>>

\* The fan-out to the backends is Balancer's; a 404 is also the answer when
\* they fail.
downloadByHash(c) ==
    /\ At(c, "download")
    /\ \/ found[c] \in content /\ Reply(c, "ok")
       \/ Reply(c, "notFound")
    /\ UNCHANGED <<tables, backends, request, locals, listing>>

-----------------------------------------------------------------------------
(* ListObjects: ... AND id > ? ORDER BY key LIMIT maxKeys+1.  The row too  *)
(* many gives the cursor and is not returned; the client asks on with it.  *)

BeyondCursor(c, i) == {o \in ObjectsOf(i) : o.id > cursor[c]}

\* The rows of S with fewer than n rows before them in key order
FirstRows(S, n) == {o \in S : Cardinality({s \in S : s.key < o.key}) < n}

ListObjects(c) ==
    /\ At(c, "listObjects")
    /\ \/ Nameless(c) /\ Reply(c, "notFound") /\ UNCHANGED listing
       \/ \E i \in live :
             /\ Named(c, i)
             /\ LET rows == BeyondCursor(c, i)
                    page == FirstRows(rows, MaxKeys)
                    extra == FirstRows(rows, MaxKeys + 1) \ page
                IN  /\ listed' = [listed EXCEPT ![c] = @ \cup {o.id : o \in page}]
                    /\ \/ extra = {} /\ Reply(c, "ok") /\ UNCHANGED cursor
                       \/ \E o \in extra :
                             /\ cursor' = [cursor EXCEPT ![c] = o.id]
                             /\ Goto(c, "checkAccess")
             /\ expected' = IF cursor[c] # 0 THEN expected
                            ELSE [expected EXCEPT ![c] = {o.id : o \in ObjectsOf(i)}]
    /\ UNCHANGED <<tables, backends, request, locals>>

-----------------------------------------------------------------------------
(* Clients of /file, past the buckets                                      *)

UploadFile(h) ==
    /\ h \notin content
    /\ content' = content \cup {h} /\ removed' = removed \ {h}
    /\ UNCHANGED <<tables, pc, request, locals, listing, answer>>

DeleteFile(h) ==
    /\ h \in content
    /\ content' = content \ {h} /\ removed' = removed \cup {h}
    /\ UNCHANGED <<tables, pc, request, locals, listing, answer>>

Handler(c) ==
    \/ Start(c) \/ Return(c) \/ Fails(c)
    \/ CreateBucket(c) \/ GetBucket(c) \/ DeleteBucket(c)
    \/ performCASUpload(c) \/ PutObject(c) \/ DeleteObject(c)
    \/ GetObject(c) \/ CheckAccess(c) \/ downloadByHash(c) \/ ListObjects(c)

BNext ==
    \/ \E c \in Clients : Handler(c)
    \/ \E h \in Hashes : UploadFile(h) \/ DeleteFile(h)

BSpec == BInit /\ [][BNext]_vars

-----------------------------------------------------------------------------
(* Properties                                                              *)

\* Every object lies in a bucket that is there, and neither a name nor a key of
\* a bucket is taken twice: a put that has checked its bucket races the bucket's
\* deletion and re-creation.  It does not rest on PRAGMA foreign_keys, which
\* NewStore turns on for one connection of the pool only.
ObjectHasBucket ==
    /\ \A o \in objects : o.bucket \in live
    /\ \A i, j \in live : row[i].name = row[j].name => i = j
    /\ \A o, p \in objects : o.bucket = p.bucket /\ o.key = p.key => o = p

\* Behind every object lies its content, unless a client removed it by hash:
\* the content is there before the record, whoever fails in between, and no
\* deletion of an object takes content that others refer to.
ContentBehindObjects == \A o \in objects : o.hash \in content \cup removed

\* An object leaves only when its key is deleted: no deletion of a bucket, no
\* overwriting and no failed request takes it away.
ObjectsLeaveByTheirKey ==
    [][\A o \in objects :
          \/ \E p \in objects' : p.id = o.id /\ p.bucket = o.bucket /\ p.key = o.key
          \/ \E c \in Clients :
                pc[c] = "deleteObject" /\ pc'[c] = "reply" /\ Named(c, o.bucket)
                    /\ request[c].key = o.key]_vars

\* Objects and buckets change in requests of their owner, though the handlers
\* check the owner in one call and write in another: unless the name has passed
\* to another bucket in between.
ChangesAreOwned ==
    [][\A i \in live :
          i \notin live' \/ ObjectsOf(i) # ObjectsOf(i)' =>
              \E c \in Clients :
                  /\ pc[c] \in {"putObject", "deleteObject", "deleteBucket"}
                  /\ pc'[c] = "reply"
                  /\ row[i].owner = owner(c) \/ seen[c] # i]_vars

\* What a request has read it may read: the access check, which comes after the
\* read, speaks of the bucket that was read, unless it failed or the name has
\* lost that bucket in between.
ReadsAreChecked ==
    \A c \in Clients :
        answer[c] = "ok" /\ op(c) \in {"get", "head", "info"} =>
            \/ MayRead(c, seen[c])
            \/ access[c] = "failed"
            \/ seen[c] \notin live

\* "Returns a paginated list of objects in the bucket" (web/swagger.yml:608):
\* a listing that has ended has returned every object that was in the bucket
\* from its beginning to its end.
ListingComplete ==
    \A c \in Clients :
        answer[c] = "ok" /\ op(c) = "list" =>
            expected[c] \cap {o.id : o \in objects} \subseteq listed[c]
=============================================================================
