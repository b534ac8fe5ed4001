---------------------------- MODULE ResizeWindows ----------------------------
(***************************************************************************)
(* ResizeBlock observed, in a process that may die and be started again at *)
(* every step: the history variable remembers the three incidents after    *)
(* which a resize is no longer safe.  Before them a resize is exclusive    *)
(* and no interruption of it loses a file.                                 *)
(***************************************************************************)
EXTENDS ResizeBlock

VARIABLE incidents

\* The process dies and is started again: its memory is new, the images keep
\* their names and content, and what was mounted stays mounted.
Restart ==
    /\ pc' = [o \in Ops |-> "idle"]
    /\ ctr' = [o \in Ops |-> None]
    /\ result' = [o \in Ops |-> "ok"]
    /\ waiting' = [o \in Ops |-> None]
    /\ file' = [o \in Ops |-> "none"]
    /\ refCounts' = None /\ count' = [a \in Addrs |-> 0]
    /\ mountStatuses' = None /\ status' = [a \in Addrs |-> "open"]
    /\ mountTimers' = None /\ timer' = [t \in Timers |-> "unused"]
    /\ mountLock' = None
    /\ resizeLock' = None
    /\ lockRef' = [p \in Ops \cup {Resizer} |-> None]
    /\ step' = "idle"
    /\ UNCHANGED <<mounts, shutdown, diskVars>>

\* A successful resize deletes the map entry of its lock while another goroutine
\* has looked that lock up and waits for it.
LockDropped ==
    /\ step = "dropLock" /\ step' # "dropLock"
    /\ \E o \in Ops : lockRef[o] = lockRef[Resizer]

\* An idle timer took the source away while it was to be copied.
SourceUnmounted ==
    /\ step \in {"create", "rsync"}
    /\ \E t \in Timers : timer[t] = "unmount" /\ mounts' < mounts

\* The process died between the two renames: nothing that looks for the image
\* at or after the start looks for the backup.
NameLost == Restart /\ ImageIsGone

Seen == (IF LockDropped THEN {"LockDropped"} ELSE {})
        \cup (IF SourceUnmounted THEN {"SourceUnmounted"} ELSE {})
        \cup (IF NameLost THEN {"NameLost"} ELSE {})

WInit == RInit /\ incidents = {}
WNext == (RNext \/ Restart) /\ incidents' = incidents \cup Seen
WSpec == WInit /\ [][WNext]_<<allVars, incidents>>

-----------------------------------------------------------------------------

\* "We must ensure no operations are using the filesystem before proceeding"
\* (resize.go:327).  Until an incident, a resize runs alone from its Lock to the
\* deletion of the map entry, or to its Unlock when it fails: no operation is
\* under way, not even a streaming download or the return of a reference.  After
\* LockDropped an operation under the deleted lock may run next to a resize.
ExclusiveWhileLockShared ==
    incidents = {} /\ Writing(resizeLock) =>
        \A o \in Ops : pc[o] = "idle"

\* Until an incident, every stored file is, at every step of a resize and
\* wherever it fails or the process dies, on the image or on the backup kept
\* while the image has no name: copy, renames and cleanup are ordered so that
\* one of the two names is always complete.
FilesAlwaysOnDisk ==
    incidents = {} =>
        IF ImageIsGone THEN backup # None /\ stored \subseteq files[backup]
                       ELSE stored \subseteq files[image]

\* Until an incident, what the mount point shows is the image with its name:
\* no operation reads or writes the replaced inode.
MountShowsImage ==
    incidents = {} =>
        \A o \in Ops : pc[o] \in {"body", "open"} /\ isMounted => source = image

\* Until an incident, waitForQuiescence finds nothing to wait for: references
\* are returned before the read lock is, and the broadcast that a resize can
\* miss is never needed.
NothingToWaitFor ==
    incidents = {} => step \notin {"parking", "asleep"}
=============================================================================
