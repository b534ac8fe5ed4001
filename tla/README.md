# loopfs in TLA+

loopfs stores files by their SHA-256 in ext4 images that are mounted through
loop devices on demand (`casd`), behind a balancer that spreads requests over
several `casd` processes (`cas-balancer`), which also keeps buckets of named objects in
a SQLite database.  This directory models the life of a mounted image, its
resize, the files on it and the room they take, the requests of the balancer,
and the buckets.  `PROJECT.json` lists runs, mutants, the map from definitions to
source lines, findings, hazards and theorems.

## The system

| Part | State | Operations | Hard about it |
|---|---|---|---|
| Loop store, mounts (`pkg/store/loop/loop.go`, `download.go`) | per mount point: reference counter, mount status, idle timer, mount lock; the mount itself | `withMountedLoop`, `withMountedLoopUnlocked`, `DownloadStream` .. `Close`, `handleMountTimeout`, `UnmountAll` | five shared objects under four different locks, timers that fire while they are stopped |
| Loop store, resize (`resize.go`) | per image: a resize lock; the files `image`, `image.new`, `image.backup` | `ResizeBlock` | mounts without a reference; its lock is deleted while in use; renames that fail half-way |
| Loop store, file operations (`upload.go`, `delete.go`, `exists.go`, ...) | deduplication mutex per hash, creation mutex per image, temporary files | `Upload`, `Delete`, `Exists`, `GetFileInfo`, `GetDiskUsage` | check-then-create, locks dropped from their maps, partial files |
| casd server (`pkg/server/casd`) | none but the store | HTTP handlers, `Shutdown` | draining against timers |
| Manager (`pkg/manager`) and casd's upload handler | none but the request's temporary file | look-up, `VerifyBlock`, `UploadWithHash` | a measurement that is stale when it is used |
| Backend manager (`pkg/server/balancer/backend.go`) | per backend: online, consecutive failures, space | health rounds, `MarkBackendDead`, choices | checks that fetch without the lock and apply what they fetched later |
| Balancer requests (`balancer.go`, `download.go`, `info.go`, `delete.go`, `upload.go`, `bucket_object.go`) | per request: a goroutine and a context per backend, a channel of results | the handlers | any order of results, lost replies, retries, cancellation |
| Bucket store (`pkg/bucket`), bucket handlers (`bucket.go`, `bucket_object.go`) | SQLite: buckets and objects; per request a bucket, a hash and a verdict | CRUD, access checks, listing | two or three calls per request, references to content that others delete, pages by id in the order of keys |

Interactions: the HTTP handlers call the manager, the manager the store; all
goroutines of a store meet in its maps and locks.  A resize and the operations
meet in the resize lock and in the mount.  The balancer calls `casd` over HTTP;
its requests and its health checks meet in `BackendManager.mu`.  The bucket
handlers call the bucket store and, for the content, the backends.

What makes each part correct: an operation's callback runs on the mounted image
and the image is mounted once; a resize runs alone and loses no file, wherever
it fails or dies; content under its hash is whole, is there once and leaves by
a delete only; an upload that made sure of its room has it; an answer of the
balancer is true of the backends, and every request is answered; an object has
its bucket and its content, and is read and changed by whom the handlers have
checked.

## The modules

| Module | Models |
|---|---|
| `MountLifecycle` | the mount of one image; one action per point where another goroutine can be observed |
| `MountLifecycle_proofs` | its theorems |
| `MountWindows` | `MountLifecycle` with a history variable: the race windows gone through |
| `MountWindows_proofs` | its theorems |
| `ResizeBlock` | `MountLifecycle` with the resize lock, `ResizeBlock` and the files on the images |
| `ResizeWindows` | the same with restarts of the process and a history variable: three incidents |
| `ResizeWindows_proofs` | its theorems |
| `ContentStore` | what a store of content promises: the abstract specification |
| `FileStore` | uploads, downloads, deletes and look-ups of one image, its creation, crashes; implements `ContentStore` |
| `FileStore_proofs` | its theorems, the refinement among them |
| `BlockSpace` | casd's upload handler with `VerifyBlock`, and the room on one image |
| `BlockSpace_proofs` | its theorems |
| `BackendManager` | health checks and the status of the backends |
| `Balancer` | the requests, on top of `BackendManager` |
| `Balancer_proofs` | theorems about both |
| `BucketStore` | the two tables, the bucket handlers call by call, the content as far as they use it |
| `BucketStore_proofs` | its theorems |
| `MC...` | instances for TLC: symmetry, views, constraints |

### MountLifecycle

Mount points share only Go mutexes, so one is the whole of it.  `pc[o]` is the
next step of an operation; `ctr[o]` is the counter it has loaded from the
`sync.Map` and not yet added to, which is what makes the deletion in
`decrementRefCount` visible: counters are addresses with values, and so are
mount statuses.  `withMountedLoop`, `withMountedLoopUnlocked` and
`DownloadStream`..`Close` run the same steps.  An operation opens a file
(`OpenFile`, `CloseFile`; it stays on the file system where it was opened) or
uses a path (`UsePath`).  `mkdir`, `mount` and `umount` may fail for any reason
(`MountMayFail`), and `umount` does while a file of the image is open.

One step each: the two loads of `getCurrentRefCount`; the mount command with the
deferred `Unlock`; a mutex section.  `mountTTL` is never 0 (`NewWithOptions`),
so the branch that unmounts at once is dead and left out.  Addresses that nobody
points to are reused (`FreshCounter`, `FreshStatus`): `ASSUME EnoughAddrs` says
one per operation is enough.  `Timers` bounds the timers that exist at one time
(a goroutine waits for a free one, which no property counts as progress).

### ResizeBlock

Adds the image files as inodes with the sets of files on them, and in the bare
directory under the mount point.  An operation that opens a file writes the file
named after it.  `getResizeLock` and `RLock` are two steps, as in the code; the
resize's deferred calls run in Go's order: unmount `.new` again, delete the map
entry, unmount, remove `.new`, `Unlock`.  `newMounts` are the images mounted on
`mountPoint.new`: a umount that fails leaves its image there, where the next
resize mounts over it and where the `RemoveAll` of the way out (`removeNew`)
deletes what it finds.  Left out: a reader that is held back by a waiting writer
(one that has got in before `Lock` is the same to the properties), a second
goroutine that resizes.  Taken to succeed: the rename that undoes a rename.  The
creation of a missing image is one step.

`ResizeWindows` adds `Restart`: at any step the process dies and is started
again, with new maps, the images as they were and the mount still in place.
Nothing at start-up unmounts or renames, so the next operation or resize meets
what the last one left.

### ContentStore and FileStore

`ContentStore` is the promise: an operation takes effect at one instant between
call and answer; only an upload takes two, because its content arrives under its
final name, so that who looks meanwhile may get a part and a crash may leave one.
`FileStore` is the code: the deduplication mutex and the creation mutex are
addresses that a map names until it is deleted from it, whoever still waits; `dd`
and `mkfs` are two steps that fail with what they leave; the file is created,
then written, synced or removed.  An `os.Remove` that fails after a failed write is
only logged: the file `remains`, whole or not, answers a download and makes a later
upload a conflict.  Any call of a callback may fail (`CallbackFails`), and so may
each `os.Stat` before it.  `Crash` empties the maps and leaves of each
file that was not synced nothing, a part or all.  An upload begins when its
temporary file and its hash are there.

The mount is that of `MountLifecycle` outside its windows: a callback runs on the
mounted image, a mount can fail for any reason.  The read lock of the resize and the counter are
left out here.  `SoundSpec` is `FSpec` without two windows, in which a map gives
out a new mutex while somebody still has the old one: `DedupForgotten` and
`CreationForgotten`.  The second matters only while there is no image.

The refinement maps `file` to `content` (`cached` and `saved` are `stored`) and
shows the answer of an upload as "storing" while it copies:
`Promise == INSTANCE ContentStore WITH ...`, `KeepsPromise == Promise!CSpec`.
A torn file, and the part that a failed upload could not remove, which the code
takes for the content at every later upload, are part of the promise because they
are what the code does.

### BlockSpace

Sizes are units, `MB` of them a megabyte, and a content is its size.  A handler
looks its content up, measures (`VerifyBlock`), asks for a resize by what it has
measured, and uploads; it may fail at each of these steps.  `ResizeBlock` and the
upload's check are one step each, because a resize runs alone (`ResizeWindows`)
and the uploads of a content one at a time (`FileStore`); writing goes unit by
unit and meets the end of the file system.  An upload that fails removes its file
or, when the removal fails, leaves it with its room (`room`); a delete of a file
that is being written frees the room when that upload closes it (`unlinked`).
`Overhead(s)` is what mkfs takes of an image of size `s`, any function of the
size, and `Reserve` what statfs hides of the free blocks and root, which casd is,
may use.  `Covered(s)` says that the buffer makes up for the overhead and for a
megabyte less a unit: the default of 128 MB does so for images up to a few
gigabytes, and no code looks whether it does.  `excuse` is a history variable: what
there was besides the upload's own measurement, a new image beyond `Covered`
among it ("overhead").  `RoomIsAccounted` counts the room in units, each of which
belongs to one file, so that it is a cardinality and not a sum.

### BucketStore

A method of `bucket.Store` is one step, since it runs under its mutex; a handler
is two or three of them with other requests in between, and each finds its bucket
by name.  A row keeps its id for ever (`AUTOINCREMENT`), and the row of a deleted
bucket is remembered for the properties only.  `Fails` ends a handler with an
error at any call: a full disk, or the database that `Server.Shutdown` closes
before it drains.  `UploadFile` and `DeleteFile` are clients of `/file`, who
share the content: `removed` remembers what they took, as nothing counts
references.  Keys are numbers, for their order; a listing is one request per
page, with the cursor and the pages in `cursor` and `listed`.

### BackendManager and Balancer

`health` is the environment: a backend is up, sick (answers, with an error),
broken (its connections end in an error that `isTimeoutOrConnectionError` does not
know, so that a failed check is not counted) or down.  A check is `fetchNodeInfo`, without the lock, and one of three sections
under it.  A request fixes its backends (`Ask`), each goroutine sends, loses the
reply, sends again (`RetryMax` is 1 here), gives up, reports the backend dead or
not (the error text decides, so both) and delivers.  The channel is buffered and
keeps order, so delivering and taking a result are one step (`Take`).  A finished
request frees its slot (`Finish`).  A backend does what it is asked in one step,
when it is asked or, with a write whose request was given up, any time later
(`late`, `LateServe`); `has` says whether it stores the one file in question.
`disturbed` is a history variable: where others, or a late write, stored or removed
the file meanwhile.

## The runs

All bounds are in the `.cfg` files.

| Run | Question | Bounds |
|---|---|---|
| `mount_lifecycle` | Is the image mounted at most once, is no status left behind, do timers and shutdown end? | 2 operations, 1 timer, mkdir, mount and umount may fail, shutdown, fairness |
| `mount_windows` | Which races lead to a callback on an unmounted image? | 3 operations, 2 timers, up to the first lost counter |
| `resize_windows` | Is a resize exclusive and safe for the files, wherever it fails or dies? | 2 operations, 1 timer, failures, restarts, 6 images, up to the first incident; 1 image left on `.new`, met by one operation at a time |
| `file_store` | Do the file operations keep the promise of `ContentStore`? | 3 goroutines, 1 hash, 3 mutexes, failures, crashes, outside the windows |
| `block_space` | Who may run out of room, when may an image shrink? | 2 uploads, contents of 1, 2 and 4 units, images of 4 to 14, an overhead of 1 and, from 12 on, 6 |
| `balancer` | Are the answers true? | 2 backends, 2 requests; a late write meets one of them |
| `balancer_health` | Does the status follow the facts, is everything answered? | 1 backend, 1 request of each kind, health rounds, fairness |
| `buckets` | Have objects their bucket and content, and who reads and changes them? | 2 clients, 1 name, 2 owners, 2 keys, 1 hash, 2 buckets and 2 objects ever |

Two operations show every pairwise race of the counter and of the status; the
third of `mount_windows` is there for a status that is overwritten while someone
waits. One timer can be armed again and again; the second lets a fired handler
meet a newer timer. Three locks are one more than the two operations can hold,
so that a resize always finds a new one; six images are one for each name at a
time (`image`, `.new`, `.backup`, the source of the mount, one that an earlier
resize left mounted) and a fresh one. Two
backends are the smallest number with a mixed result; two requests the smallest
with interference. `file_store` needs three goroutines for one that holds a
mutex, one that waits for it and one that comes after the deletion from the map;
hashes share only the image, so one shows every race but the theorems are for
all. In `block_space` a content of 4 units does not fit a new image, one of 1
fits two times, two resizes can follow on one measurement each, and the second
can ask for an image of which mkfs takes more than the buffer. `buckets`
needs two buckets of one name, one after the other, and two owners, for a name
that passes on between two calls; two keys are a listing of two pages.

`mount_windows` names four windows: `CounterLost` (the counter's entry is deleted
while another goroutine has it), `UnmountOnItsWay` (a timer has seen zero and is
not done), `StatusNotYetThere` and `FailureForgotten` (a later operation finds no
status, before it is published or after it is withdrawn).  The run shows that the
list is complete: with none of them hit, a callback runs on the mounted image.
`resize_windows` does the same for three incidents: `LockDropped` (the lock's
map entry is deleted while an operation waits for it, and that operation then
runs beside the next resize), `SourceUnmounted` (the idle timer unmounts what is
to be copied) and `NameLost` (the process dies between the two renames: the
backup has every file, but no code looks for it and the next upload makes an
empty image).  `block_space` names why an upload may lack room in `excuse`; of
these "missing" and "overhead" need nobody else.  The first: a block that is not there is not measured,
and is made with `loopFileSize` though the first content may be larger
(`manager.go:66-72`), so that its upload fails and the next try, which measures,
resizes and succeeds.  The second: `SizeFor` starts from what the file system
offers, not from the size of the image, and leaves the file system's own part to
the buffer, so that a large image may even shrink in a resize
(`ShrinksForAReason`).

`balancer` leaves the health rounds out (`BetweenRounds`: no check under way, at
most one backend down and one request suffering from it, no sick or broken backend,
late writes beside one request only, and one read, a download when it meets an upload and an info when it meets a delete:
their handlers look for a success alike); `balancer_health` has them with one
backend, and the theorems hold with all of it.

Every run checks for deadlock.  In `resize_windows`, where a restart is always
possible, `NothingToWaitFor` takes its place: `waitForQuiescence` can miss a
broadcast that does not take its mutex, and would sleep with the write lock held,
but it sleeps at all only after a dropped lock.  After an incident that run
explores only the way of one operation and of the next resize (`Explored`).

Symmetry is over operations, timers, requests or backends, never in a run with
liveness.  The views drop the names of addresses and inodes (only who points
where matters) and, in the balancer, what no step and no property reads any more.

### Violations

| Run | What the code does | What it says |
|---|---|---|
| `premature_unmount` | a timer that saw zero unmounts under a new operation | `loop.go:671` |
| `resize_loses_files` | the timer unmounts the source; rsync copies an empty directory | `resize.go:308`, `:310` |
| `get_cut_short` | a bucket download cancels its own body | `bucket_object.go:246`, `download.go:41` |
| `listing` | a page excludes objects that no page has returned: it goes on by id, in the order of keys | `web/swagger.yml:608`, `:1094` |

### Fairness

`FairSpec`: a runnable goroutine runs, a command ends, a client ends its
transfer, an armed timer that nobody stops fires (weak fairness); a Go mutex
hands over to a waiter that starves (strong fairness on the mount lock).  No
request and no signal has to come.  `FairBSpec`: the ticker ticks, checks and
calls have timeouts, a handler that has something to take takes it; nothing is
assumed of a backend.  `BackendRecovers` and `BackendGivenUp` assume that the
backend's health stops changing; they are about the balancer's reaction.

## What is proved

Every invariant of the passing runs is a theorem, and so is every action property.

`MountLifecycle_proofs`, for all operations, timers and addresses:

- `TypeCorrect`.  `TypeOK` is not inductive: `mounts` must not fall below 0, and
  a goroutine about to add to a counter must have one.  `PointerInv` says so.
  That there is a fresh counter or status is a pigeonhole argument (`FreeObject`),
  the main use of `EnoughAddrs`.
- `MountedOnce`.  `LockInv`: whoever is between `Lock` and `Unlock` holds the
  mount lock.  `MountInv`: whoever is about to mount has seen the image
  unmounted, and holds the lock since, so that it still is.
- `LockIsGivenBack`.  `HeldInside` is the converse of `LockInv`: who holds the lock
  is in its section, so no failure leaves it taken.
- `NoStatusLeftBehind`.  `StatusInv`: a published status has an operation between
  its announcement and its signal, which clears the map.
- `NoCountLeftBehind`.  `CountBound`: the counter in the map is at most the number
  of operations that hold a reference, also after counters were lost, so that it
  is not positive once all have returned and keeps no timer from unmounting.

`MountWindows_proofs`, for all operations and timers, in three layers of which each
needs the one before:

- `CountExact`.  `Exact`: until `CounterLost`, who has loaded a counter has the one
  in the map, and its value is the number of references.  `QuietShutdown` is
  there because the shutdown clears the map.
- `WaiterServed`.  `MounterInv`: an exact counter lets one operation at a time see
  the first reference, so that one announces a status, and whoever waits, waits
  for that one.
- `WindowsAreAll`.  `WindowInv`: with no window hit no timer is on its way
  while there are references, and what an operation relies on is mounted: inside its
  callback, before it with a mount that succeeded, or after finding no status.

`ResizeWindows_proofs`, for all operations, timers, locks and images, with failures
of each command and a crash at every step:

- `ResizeTypeCorrect` and `ResizeMountsOnce` hold whatever happens.  Their
  invariant `AnyTimeInv` has what `MountLifecycle` keeps, with the resize as one more
  holder of the mount lock (`ProtocolInv`; its steps are shown to be steps of that
  protocol, so that the lemmas are used again), the types of the rest, and
  `ScratchInv`: neither the image nor its backup is ever mounted on
  `mountPoint.new`, so that what is removed through it is not theirs.
- `ResizeExclusive`, `NeverParks`, `MountIsImage` and `NoFileLost` hold until an
  incident; `SafeUntilIncident` has three parts.  `SharedInv`: all locks in use are
  the one in the map, so that a resize that holds it for writing has no operation
  beside it and nothing to wait for.  `MountedInv` needs that: with nobody else at
  work the mount shows the image, and the image's name is free between the two
  renames only.  `CopyInv` needs both: what `rsync` copied is all that is stored,
  and from then on the new image, the backup or the image has it.
- A crash keeps all this, outside `NameLost`: at every step but the one between the
  renames the image has its name and every file.

`Balancer_proofs`, for all backends and requests, all kinds at once, with sick
backends and health rounds:

- `BTypeCorrect`.
- `OfflineOnlyIfFailed`: inductive with the types, because each section under the
  lock writes flag and count together.
- `NotFoundIsTrue`.  A 404 is a number compared with the number of configured
  backends.  `CountedOnce` bounds it by the size of the set of backends that have
  been handled with a 404, so that equality makes that set all of them;
  `RepliedRight` says each of these has no file or was disturbed since; `Idle`
  says that a slot starts empty.
- `HeldFileServed`, `DeletedEverywhereAsked`, `UploadStored`.  `OutcomeInv`, on top of
  that: `ResultRight` ties each result to what its backend held or did, through lost
  replies and retries, and `AnswerFits` the answer to the results that were taken
  (a refusal to read comes after the last of them, and none was a success).

`FileStore_proofs`, for all goroutines, hashes and crashes, outside the windows:

- `TypeCorrect`, `UploadsExclude`, `OneCreator`, `ContentStays`, and `Refinement`
  (`SoundSpec => KeepsPromise`).
- The invariant is `Inv1` (types, and `Shape`: what the next step says of request,
  answer and mutexes), `Dedup` and `Creation` (all who have a mutex of one hash,
  or of a missing image, have the same one, which is what a window breaks) and
  `Files` (only the upload that holds the mutex has its file open, and there is no
  file without an image).
- For the refinement every action maps to one of `ContentStore` or to a stutter:
  `createTarget` is `BeginUpload`, `copyAndSyncFile` is `FinishUpload`, an error is
  `Fail`, which may leave a part; making an image changes nothing because no file was there (`Creation`).

`BlockSpace_proofs`, for all uploads, contents, sizes and every function `Overhead`
within `Sizes`:

- `SpaceTypeCorrect`, `MeasuredHasRoom`, `ShrinksRarely`, `RoomAccounted`.
- The arithmetic is in two lemmas: rounding loses less than a megabyte
  (`RoundedFacts`), so what is asked for covers all that is there and the content
  when the new size is `Covered` (`GrownEnough`), and is excused otherwise.  `AskedFor` keeps the request tied to the image until another
  resize, `RoomLeft` the rest of the content within the free room until another
  write.  `OwnStep` and `OthersStep` split every action: what an upload does to
  itself, and what it does to another, which it leaves as it is or excuses.
- `RoomAccounted` needs `Separate`: no content is copied by two uploads at a time, or
  while it is stored.  Only then has every unit one owner, and a write adds one, a
  failure takes away those of its upload or leaves them to its file, and so does the
  end of an upload.

`BucketStore_proofs`, for all clients, names, owners, keys and contents:

- `BucketTypeCorrect`, `NoObjectLeftBehind`, `ContentIsStored`, `ReadsPassed`,
  `ObjectsStay`, `OwnersChange`.
- `Inv1` is the types with `Rows` (ids in use were given out) and `Shape`; `Inv2`
  says what a handler still knows of the bucket that an earlier call found: it had
  the name, and who goes on to write owned it; `Inv3` that a put records only
  content that has been stored.

Assumptions: the named `ASSUME`s of the modules.  They are distinct names, finite
sets, more addresses and locks than goroutines that can have one (Go allocates
as many as it needs; a bound is TLC's need), some image, a count that goes past the
limit, and the sizes of `BlockSpace`, where a new image is larger than its
overhead.

Only model-checked: what is temporal under fairness, which TLAPS cannot prove
(`HandlerFinishes`, `ShutdownCompletes`, `RequestAnswered`, `BackendRecovers`,
`BackendGivenUp`), and the four violations, which are facts about one behaviour.

## Not modelled

Node info, swagger, logging, models, commands and hash validation have no state
worth a model.  Of modelled parts these are left out:

- a drain that times out, and what a process leaves mounted when it exits;
- two resizing goroutines at once (`WriteLock` holds the second off; after a dropped
  lock they may meet), and an undo of a failed rename that fails itself;
- a `mount` or `umount` that is killed by its timeout after it took effect;
- an error of `isMounted`'s `Statfs`, which the code takes for "not mounted"
  (`loop.go:656-664`), on a directory that `MkdirAll` has just made or found;
- what goes on inside the windows `DedupForgotten` and `CreationForgotten`, and
  after the incident `LockDropped`: the runs and the theorems say that these are the
  only ways to two uploads, two creators or an operation beside a resize, not what
  comes of it;
- what a change of a bucket does whose name has passed to another bucket between two
  calls, of which `ChangesAreOwned` makes an exception;
- whether the system recovers what a crash leaves: a torn file that later uploads
  meet as a conflict, a raw image that cannot be mounted.  `ContentStore` and
  `CreationFails` have the states, no code handles them;
- prefix and delimiter of a listing, `ListBuckets`, metadata, the quota (stored,
  never enforced) and hash references (no caller) of the bucket store.

## Plan

1. Proofs: `FileStore` with its windows, as `ResizeWindows` has its incidents (which
   of its theorems survive them); that a retried delete or upload is answered alike.
2. The exit of a process: `Shutdown` with a drain that times out, what stays
   mounted, and what the next start makes of it.
3. `BlockSpace` on top of `ResizeBlock`, so that a dropped lock meets two resizes.
