--------------------------- MODULE BackendManager ---------------------------
(***************************************************************************)
(* The balancer's view of its backends (pkg/server/balancer/backend.go):   *)
(* rounds of concurrent health checks, each of which fetches without the   *)
(* lock and applies what it fetched under it, and MarkBackendDead, called  *)
(* by requests.  How the backends really are is the environment's choice.  *)
(***************************************************************************)
EXTENDS Integers

CONSTANTS
    Backends,       \* the configured URLs
    Spaces,         \* what a backend may report as its available space
    FailCap         \* where the model stops counting ConsecFails

maxConsecutiveFailures == 3

ASSUME CountsPastTheLimit == FailCap \in Nat /\ FailCap >= maxConsecutiveFailures
ASSUME SpacesAreSizes == Spaces \subseteq Nat

VARIABLES
    online,         \* BackendStatus.Online
    fails,          \* BackendStatus.ConsecFails
    space,          \* BackendStatus.AvailableSpace
    probe,          \* probe[b]: the health check of b in the current round
    health          \* health[b]: "up", "down" (does not answer in time), "broken"
                    \* (breaks connections off: an EOF, a reset) or "sick"
                    \* (answers, but not with a node info)

status == <<online, fails, space>>
bmVars == <<status, probe, health>>

Healths == {"up", "sick", "broken", "down"}
Probes == {"none", "fetching", "info", "timeout", "error"}

BMTypeOK ==
    /\ online \in [Backends -> BOOLEAN]
    /\ fails \in [Backends -> 0..FailCap]
    /\ space \in [Backends -> Spaces \cup {0}]
    /\ probe \in [Backends -> Probes]
    /\ health \in [Backends -> Healths]

\* "Assume online until proven otherwise"; Start then runs one round of checks
\* before the balancer serves anybody.
BMInit ==
    /\ online = [b \in Backends |-> TRUE]
    /\ health \in [Backends -> Healths]
    /\ fails = [b \in Backends |-> IF health[b] = "down" THEN 1 ELSE 0]
    /\ space \in [Backends -> Spaces \cup {0}]
    /\ \A b \in Backends : space[b] \in IF health[b] = "up" THEN Spaces ELSE {0}
    /\ probe = [b \in Backends |-> "none"]

-----------------------------------------------------------------------------
(* checkAllBackends: a tick starts a round once the last one has ended.    *)

checkAllBackends ==
    /\ \A b \in Backends : probe[b] = "none"
    /\ probe' = [b \in Backends |-> "fetching"]
    /\ UNCHANGED <<status, health>>

\* fetchNodeInfo, and isTimeoutOrConnectionError of its error, whose patterns do
\* not include an EOF or a reset: a broken backend looks like a sick one.
fetchNodeInfo(b) ==
    /\ probe[b] = "fetching"
    /\ probe' = [probe EXCEPT ![b] = CASE health[b] = "up"   -> "info"
                                       [] health[b] = "down" -> "timeout"
                                       [] health[b] \in {"sick", "broken"} -> "error"]
    /\ UNCHANGED <<status, health>>

\* The sections of checkBackend under the lock.
CheckDone(b) == probe' = [probe EXCEPT ![b] = "none"]

\* Mutants: a success clears the record and no more; one failure is enough; a
\* failure is not counted.
RecordCleared(b) ==
    /\ probe[b] = "info"
    /\ CheckDone(b)
    /\ fails' = [fails EXCEPT ![b] = 0]
    /\ space' \in {[space EXCEPT ![b] = s] : s \in Spaces}
    /\ UNCHANGED <<online, health>>
OfflineAtOnce(b) ==
    /\ probe[b] = "timeout"
    /\ CheckDone(b)
    /\ fails' = [fails EXCEPT ![b] = IF @ < FailCap THEN @ + 1 ELSE @]
    /\ online' = [online EXCEPT ![b] = FALSE]
    /\ UNCHANGED <<space, health>>
FailureNotCounted(b) ==
    /\ probe[b] = "timeout"
    /\ CheckDone(b)
    /\ online' = [online EXCEPT ![b] = @ /\ fails[b] + 1 < maxConsecutiveFailures]
    /\ UNCHANGED <<fails, space, health>>

CheckSucceeded(b) ==
    /\ probe[b] = "info"
    /\ CheckDone(b)
    /\ online' = [online EXCEPT ![b] = TRUE]
    /\ fails' = [fails EXCEPT ![b] = 0]
    /\ space' \in {[space EXCEPT ![b] = s] : s \in Spaces}
    /\ UNCHANGED health

CheckTimedOut(b) ==
    /\ probe[b] = "timeout"
    /\ CheckDone(b)
    /\ fails' = [fails EXCEPT ![b] = IF @ < FailCap THEN @ + 1 ELSE @]
    /\ online' = [online EXCEPT ![b] = @ /\ fails[b] + 1 < maxConsecutiveFailures]
    /\ UNCHANGED <<space, health>>

\* Whatever it answered, and however it broke off: neither better nor worse.
CheckAnswered(b) ==
    /\ probe[b] = "error"
    /\ CheckDone(b)
    /\ UNCHANGED <<status, health>>

MarkBackendDead(b) ==
    /\ online' = [online EXCEPT ![b] = FALSE]
    /\ fails' = [fails EXCEPT ![b] = maxConsecutiveFailures]
    /\ UNCHANGED <<space, probe, health>>

HealthChanges(b) ==
    /\ health' \in {[health EXCEPT ![b] = h] : h \in Healths \ {health[b]}}
    /\ UNCHANGED <<status, probe>>

checkBackend(b) == fetchNodeInfo(b) \/ CheckSucceeded(b) \/ CheckTimedOut(b)
                   \/ CheckAnswered(b)

-----------------------------------------------------------------------------
(* What the handlers ask.                                                  *)

GetOnlineBackends == {b \in Backends : online[b]}

\* The online backend with the most space, if the file fits.
GetBackendForUpload(size) ==
    {b \in GetOnlineBackends :
        /\ space[b] > 0 /\ space[b] >= size
        /\ \A c \in GetOnlineBackends : space[c] <= space[b]}
=============================================================================
