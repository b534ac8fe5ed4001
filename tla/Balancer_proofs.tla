--------------------------- MODULE Balancer_proofs ---------------------------
(***************************************************************************)
(* What Balancer guarantees for any number of backends and requests: when  *)
(* a backend counts as offline, and what a 404 means.  A 404 is a count    *)
(* compared with the number of configured backends; the invariant ties the *)
(* count to the set of backends that said so, and each of them to what it  *)
(* stores.                                                                 *)
(***************************************************************************)
EXTENDS Balancer, FiniteSetTheorems, TLAPS

HealthActions ==
    \/ Tick
    \/ \E b \in Backends :
           HealthCheck(b) \/ (HealthChanges(b) /\ UNCHANGED <<backVars, rVars>>)

LEMMA NextCases ==
    ASSUME BNext
    PROVE  \/ HealthActions
           \/ \E b \in Backends : LateServe(b)
           \/ \E r \in Requests : AskAll(r) \/ UploadHandler(r) \/ Handler(r)
           \/ \E r \in Requests, b \in Backends : Goroutine(r, b)
BY DEF BNext, HealthActions, Environment

LEMMA CapFacts == FailCap \in Nat /\ FailCap >= 3 /\ Spaces \subseteq Nat
BY CountsPastTheLimit, SpacesAreSizes DEF maxConsecutiveFailures

-----------------------------------------------------------------------------

LEMMA BInitType == BInit => BTypeOK
BY CapFacts DEF BInit, BMInit, BTypeOK, BMTypeOK, Healths, Probes, Calls, Replies, Answers

\* The health checks touch the manager's variables only.
LEMMA HealthType == ASSUME BTypeOK, HealthActions PROVE BTypeOK'
<1> USE DEF rVars, callVars, answerVars, backVars
<1>1. UNCHANGED <<backVars, rVars>>
  BY DEF HealthActions, Tick, HealthCheck
<1>2. CASE Tick
  BY <1>2, <1>1 DEF BTypeOK, BMTypeOK, Tick, checkAllBackends, status, Probes
<1>3. ASSUME NEW b \in Backends, HealthCheck(b) PROVE BMTypeOK'
  <2>1. CASE fetchNodeInfo(b)
    BY <2>1 DEF BTypeOK, BMTypeOK, fetchNodeInfo, status, Probes, Healths
  <2>2. CASE CheckSucceeded(b)
    <3>1. PICK s \in Spaces : space' = [space EXCEPT ![b] = s]
      BY <2>2 DEF CheckSucceeded
    <3>2. QED
      BY <2>2, <3>1, CapFacts DEF BTypeOK, BMTypeOK, CheckSucceeded, CheckDone, Probes
  <2>3. CASE CheckTimedOut(b)
    BY <2>3, CapFacts DEF BTypeOK, BMTypeOK, CheckTimedOut, CheckDone, Probes,
       maxConsecutiveFailures
  <2>4. CASE CheckAnswered(b)
    BY <2>4 DEF BTypeOK, BMTypeOK, CheckAnswered, CheckDone, status, Probes
  <2>5. QED
    BY <1>3, <2>1, <2>2, <2>3, <2>4 DEF HealthCheck, checkBackend
<1>4. ASSUME NEW b \in Backends, HealthChanges(b) PROVE BMTypeOK'
  BY <1>4 DEF BTypeOK, BMTypeOK, HealthChanges, status
<1>5. QED
  BY <1>1, <1>2, <1>3, <1>4 DEF HealthActions, BTypeOK

LEMMA LateType == ASSUME BTypeOK, NEW b \in Backends, LateServe(b) PROVE BTypeOK'
<1>1. PICK k \in late[b] :
          /\ late' = [late EXCEPT ![b] = @ \ {k}]
          /\ has' = [has EXCEPT ![b] = StoredAfter(k, @)]
  BY DEF LateServe
<1>2. StoredAfter(k, has[b]) \in BOOLEAN
  BY DEF BTypeOK, StoredAfter
<1>3. late' \in [Backends -> SUBSET Writes] /\ has' \in [Backends -> BOOLEAN]
  BY <1>1, <1>2 DEF BTypeOK
<1>4. disturbed' \in [Requests -> SUBSET Backends] /\ UNCHANGED <<bmVars, rVars>>
  BY DEF LateServe, BTypeOK
<1>5. QED
  BY <1>3, <1>4 DEF BTypeOK, BMTypeOK, bmVars, status, rVars, callVars, answerVars

LEMMA ArrivalType ==
    ASSUME BTypeOK, NEW r \in Requests, AskAll(r) \/ UploadHandler(r)
    PROVE  BTypeOK'
<1>1. ASSUME NEW k \in Kinds, NEW targets, Ask(r, k, targets) PROVE BTypeOK'
  BY <1>1 DEF BTypeOK, BMTypeOK, Ask, bmVars, status, backVars, Calls, Answers
<1>2. QED
  BY <1>1 DEF AskAll, UploadHandler

LEMMA GoroutineType ==
    ASSUME BTypeOK, NEW r \in Requests, NEW b \in Backends, Goroutine(r, b)
    PROVE  BTypeOK'
<1> USE DEF BTypeOK, BMTypeOK, bmVars, status, backVars, answerVars
<1>1. CASE Serve(r, b)
  <2>1. Status(kind[r], has[b]) \in Replies /\ StoredAfter(kind[r], has[b]) \in BOOLEAN
    BY DEF Status, StoredAfter, Replies
  <2>2. /\ call' \in [Requests -> [Backends -> Calls]]
        /\ reply' \in [Requests -> [Backends -> Replies]]
        /\ has' \in [Backends -> BOOLEAN]
        /\ disturbed' \in [Requests -> SUBSET Backends]
    BY <1>1, <2>1 DEF Serve, Replied, Calls
  <2>3. QED
    BY <1>1, <2>2 DEF Serve
<1>2. CASE ServeSick(r, b)
  BY <1>2 DEF ServeSick, Replied, Calls, Replies
<1>3. CASE LoseReply(r, b)
  BY <1>3 DEF LoseReply, Calls, Replies
<1>4. CASE GiveUp(r, b)
  <2>1. late' \in [Backends -> SUBSET Writes]
    BY <1>4 DEF GiveUp
  <2>2. QED
    BY <1>4, <2>1 DEF GiveUp, Calls
<1>5. CASE Report(r, b)
  <2>1. UNCHANGED bmVars \/ MarkBackendDead(b)
    BY <1>5 DEF Report
  <2>2. BMTypeOK'
    <3>1. CASE UNCHANGED bmVars
      BY <3>1
    <3>2. CASE MarkBackendDead(b)
      <4>1. maxConsecutiveFailures \in 0..FailCap
        BY CapFacts DEF maxConsecutiveFailures
      <4>2. QED
        BY <3>2, <4>1 DEF MarkBackendDead
    <3>3. QED
      BY <2>1, <3>1, <3>2
  <2>3. QED
    BY <1>5, <2>2 DEF Report, Calls, Replies
<1>6. CASE Abort(r, b)
  BY <1>6 DEF Abort, Calls, Replies
<1>7. CASE LoseBody(r, b)
  <2>1. PICK s \in Replies : reply' = [reply EXCEPT ![r][b] = s]
    BY <1>7 DEF LoseBody, Replies
  <2>2. QED
    BY <1>7, <2>1 DEF LoseBody, Calls
<1>8. QED
  BY <1>1, <1>2, <1>3, <1>4, <1>5, <1>6, <1>7 DEF Goroutine

LEMMA HandlerType ==
    ASSUME BTypeOK, NEW r \in Requests, Handler(r)
    PROVE  BTypeOK'
<1> USE DEF BTypeOK, BMTypeOK, bmVars, status, backVars, callVars, answerVars
<1>1. ASSUME NEW b \in Backends, Drain(r, b) PROVE BTypeOK'
  BY <1>1 DEF Drain, Take, Calls
<1>2. ASSUME NEW b \in Backends, Count(r, b) PROVE BTypeOK'
  BY <1>2 DEF Count, Take, Calls
<1>3. ASSUME NEW b \in Backends, FirstSuccess(r, b) PROVE BTypeOK'
  BY <1>3 DEF FirstSuccess, Take, Calls, Answers
<1>4. ASSUME NEW b \in Backends, ForwardUpload(r, b) PROVE BTypeOK'
  BY <1>4 DEF ForwardUpload, Take, Calls, Answers, Replies
<1>5. CASE CancelOthers(r)
  BY <1>5 DEF CancelOthers
<1>6. CASE Copied(r) \/ CopyFailed(r)
  BY <1>6 DEF Copied, CopyFailed, Answers
<1>7. CASE Respond(r)
  <2>1. ErrorResponse(r) \in Answers
    BY DEF ErrorResponse, Answers
  <2>2. QED
    BY <1>7, <2>1 DEF Respond
<1>8. CASE Finish(r)
  BY <1>8 DEF Finish, Calls, Replies, Answers
<1>9. QED
  BY <1>1, <1>2, <1>3, <1>4, <1>5, <1>6, <1>7, <1>8 DEF Handler

LEMMA BNextType == BTypeOK /\ [BNext]_bVars => BTypeOK'
<1> SUFFICES ASSUME BTypeOK, [BNext]_bVars PROVE BTypeOK'
  OBVIOUS
<1>1. CASE BNext
  BY <1>1, NextCases, HealthType, LateType, ArrivalType, GoroutineType, HandlerType
<1>2. CASE UNCHANGED bVars
  BY <1>2 DEF bVars, bmVars, status, backVars, rVars, callVars, answerVars, BTypeOK, BMTypeOK
<1>3. QED
  BY <1>1, <1>2

\* Type correctness of the balancer.
THEOREM BTypeCorrect == BSpec => []BTypeOK
BY BInitType, BNextType, PTL DEF BSpec

-----------------------------------------------------------------------------

LEMMA OfflineInit == BInit => OfflineIffFailed
<1> SUFFICES ASSUME BInit, NEW b \in Backends
             PROVE  online[b] <=> fails[b] < maxConsecutiveFailures
  BY DEF OfflineIffFailed
<1>1. online[b]
  BY Zenon DEF BInit, BMInit
<1>2. fails[b] < maxConsecutiveFailures
  BY DEF BInit, BMInit, maxConsecutiveFailures
<1>3. QED
  BY <1>1, <1>2

LEMMA OfflineNext == BTypeOK /\ OfflineIffFailed /\ [BNext]_bVars => OfflineIffFailed'
<1> SUFFICES ASSUME BTypeOK, OfflineIffFailed, [BNext]_bVars PROVE OfflineIffFailed'
  OBVIOUS
<1> USE CapFacts DEF BTypeOK, BMTypeOK, OfflineIffFailed, maxConsecutiveFailures
<1>1. CASE UNCHANGED status
  BY <1>1 DEF status
<1>2. ASSUME NEW b \in Backends, CheckSucceeded(b) PROVE OfflineIffFailed'
  <2>1. online'[b] /\ fails'[b] = 0
    BY <1>2 DEF CheckSucceeded
  <2>2. \A c \in Backends \ {b} : online'[c] = online[c] /\ fails'[c] = fails[c]
    BY <1>2 DEF CheckSucceeded
  <2>3. online'[b] <=> fails'[b] < 3
    BY <2>1
  <2>4. QED
    BY <2>2, <2>3
<1>3. ASSUME NEW b \in Backends, CheckTimedOut(b) PROVE OfflineIffFailed'
  <2>1. online'[b] <=> online[b] /\ fails[b] + 1 < 3
    BY <1>3 DEF CheckTimedOut
  <2>2. fails[b] + 1 < 3 <=> fails'[b] < 3
    BY <1>3 DEF CheckTimedOut
  <2>3. fails'[b] < 3 => fails[b] < 3
    BY <1>3 DEF CheckTimedOut
  <2>4. online[b] <=> fails[b] < 3
    OBVIOUS
  <2>5. online'[b] <=> fails'[b] < 3
    BY <2>1, <2>2, <2>3, <2>4
  <2>6. \A c \in Backends \ {b} : online'[c] = online[c] /\ fails'[c] = fails[c]
    BY <1>3 DEF CheckTimedOut
  <2>7. QED
    BY <2>5, <2>6
<1>4. ASSUME NEW b \in Backends, MarkBackendDead(b) PROVE OfflineIffFailed'
  <2>1. online'[b] = FALSE /\ fails'[b] = 3
    BY <1>4 DEF MarkBackendDead
  <2>2. \A c \in Backends \ {b} : online'[c] = online[c] /\ fails'[c] = fails[c]
    BY <1>4 DEF MarkBackendDead
  <2>3. QED
    BY <2>1, <2>2
<1>5. CASE HealthActions \/ \E b \in Backends : LateServe(b)
  BY <1>1, <1>2, <1>3, <1>5 DEF HealthActions, Tick, checkAllBackends, HealthCheck,
     checkBackend, fetchNodeInfo, CheckAnswered, HealthChanges, LateServe, bmVars
<1>6. ASSUME NEW r \in Requests, NEW b \in Backends, Goroutine(r, b)
      PROVE  OfflineIffFailed'
  <2>1. UNCHANGED status \/ MarkBackendDead(b)
    BY <1>6 DEF Goroutine, Serve, ServeSick, LoseReply, GiveUp, Report, LoseBody, Abort, bmVars
  <2>2. QED
    BY <2>1, <1>1, <1>4
<1>7. ASSUME NEW r \in Requests, AskAll(r) \/ UploadHandler(r) \/ Handler(r)
      PROVE  OfflineIffFailed'
  <2>1. UNCHANGED status
    BY <1>7 DEF AskAll, UploadHandler, Ask, Handler, Drain, Count, FirstSuccess,
       ForwardUpload, Take, CancelOthers, Copied, CopyFailed, Respond, Finish, bmVars
  <2>2. QED
    BY <2>1, <1>1
<1>8. CASE UNCHANGED bVars
  BY <1>8, <1>1 DEF bVars, bmVars
<1>9. QED
  BY <1>5, <1>6, <1>7, <1>8, NextCases

\* However requests and checks that fetched earlier write the status of a
\* backend over each other: it is offline exactly when three failures in a row,
\* or a request's verdict, are on record.
THEOREM OfflineOnlyIfFailed == BSpec => []OfflineIffFailed
BY BInitType, BNextType, OfflineInit, OfflineNext, PTL DEF BSpec

-----------------------------------------------------------------------------
(* What a 404 means.                                                       *)

\* A free slot carries nothing over to the next request.
Idle == \A r \in Requests : kind[r] = "none" =>
    /\ \A b \in Backends : call[r][b] = "none" /\ reply[r][b] = "none"
    /\ notFound[r] = 0
    /\ answer[r] = "none"

\* A backend that said 404 has no file, or another request has been there since.
RepliedRight == \A r \in Requests, b \in Backends :
    reply[r][b] = "404" => ~has[b] \/ b \in disturbed[r]

SaidNotFound(r) == {b \in Backends : call[r][b] = "handled" /\ reply[r][b] = "404"}

\* No backend is counted twice.
CountedOnce == \A r \in Requests : notFound[r] <= Cardinality(SaidNotFound(r))

AnsweredRight == \A r \in Requests :
    answer[r] = "404" /\ kind[r] \in {"download", "info", "delete"}
    => notFound[r] = Cardinality(Backends)

NotFoundInv == Idle /\ RepliedRight /\ CountedOnce /\ AnsweredRight

LEMMA SaidFinite ==
    ASSUME NEW r \in Requests
    PROVE  /\ IsFiniteSet(SaidNotFound(r))
           /\ Cardinality(SaidNotFound(r)) \in Nat
BY FiniteBackends, FS_Subset, FS_CardinalityType DEF SaidNotFound

\* The invariant says what the theorem needs: as many as there are is all.
LEMMA InvNowhere == BTypeOK /\ NotFoundInv => NotFoundMeansNowhere
<1> SUFFICES ASSUME BTypeOK, NotFoundInv, NEW r \in Requests,
                    answer[r] = "404", kind[r] \in {"download", "info", "delete"},
                    NEW b \in Backends, has[b]
             PROVE  b \in disturbed[r]
  BY DEF NotFoundMeansNowhere
<1>1. Cardinality(Backends) <= Cardinality(SaidNotFound(r))
  BY DEF NotFoundInv, AnsweredRight, CountedOnce
<1>2. SaidNotFound(r) = Backends
  <2>1. SaidNotFound(r) \subseteq Backends
    BY DEF SaidNotFound
  <2>2. /\ Cardinality(SaidNotFound(r)) <= Cardinality(Backends)
        /\ Cardinality(SaidNotFound(r)) = Cardinality(Backends) => SaidNotFound(r) = Backends
    BY <2>1, FiniteBackends, FS_Subset
  <2>3. Cardinality(SaidNotFound(r)) \in Nat /\ Cardinality(Backends) \in Nat
    BY SaidFinite, FiniteBackends, FS_CardinalityType
  <2>4. QED
    BY <1>1, <2>2, <2>3
<1>3. reply[r][b] = "404"
  BY <1>2 DEF SaidNotFound
<1>4. QED
  BY <1>3 DEF NotFoundInv, RepliedRight

LEMMA NotFoundInit == BInit => NotFoundInv
<1> SUFFICES ASSUME BInit PROVE NotFoundInv
  OBVIOUS
<1>1. Idle /\ RepliedRight /\ AnsweredRight
  BY DEF BInit, Idle, RepliedRight, AnsweredRight
<1>2. CountedOnce
  BY SaidFinite DEF BInit, CountedOnce
<1>3. QED
  BY <1>1, <1>2 DEF NotFoundInv

\* The health checks and a stuttering step leave all of it alone.
LEMMA NotFoundElsewhere ==
    ASSUME NotFoundInv, UNCHANGED <<has, kind, call, reply, notFound, answer, disturbed>>
    PROVE  NotFoundInv'
BY DEF NotFoundInv, Idle, RepliedRight, CountedOnce, AnsweredRight, SaidNotFound

\* A write that was given up changes files where every request takes note of it.
LEMMA LateStep ==
    ASSUME BTypeOK, NEW b \in Backends, LateServe(b)
    PROVE  /\ UNCHANGED rVars
           /\ \A q \in Requests : disturbed[q] \subseteq disturbed'[q]
           /\ \A q \in Requests, c \in Backends :
                  kind[q] = "none" \/ has'[c] = has[c] \/ c \in disturbed'[q]
<1>1. /\ UNCHANGED rVars
      /\ \A c \in Backends \ {b} : has'[c] = has[c]
  BY DEF LateServe, BTypeOK
<1>2. \A q \in Requests :
          disturbed'[q] = IF has'[b] # has[b] /\ kind[q] # "none"
                          THEN disturbed[q] \cup {b} ELSE disturbed[q]
  BY DEF LateServe
<1>3. QED
  BY <1>1, <1>2

LEMMA NotFoundLate ==
    ASSUME BTypeOK, NotFoundInv, NEW b \in Backends, LateServe(b)
    PROVE  NotFoundInv'
<1>1. /\ UNCHANGED <<kind, call, reply, notFound, answer>>
      /\ \A q \in Requests : disturbed[q] \subseteq disturbed'[q]
      /\ \A q \in Requests, c \in Backends :
             kind[q] = "none" \/ has'[c] = has[c] \/ c \in disturbed'[q]
  BY LateStep DEF rVars, callVars, answerVars
<1>2. RepliedRight'
  BY <1>1 DEF RepliedRight, Idle, NotFoundInv
<1>3. QED
  BY <1>1, <1>2 DEF NotFoundInv, Idle, CountedOnce, AnsweredRight, SaidNotFound

LEMMA NotFoundArrival ==
    ASSUME BTypeOK, NotFoundInv, NEW r \in Requests, AskAll(r) \/ UploadHandler(r)
    PROVE  NotFoundInv'
<1>1. PICK k \in Kinds, targets \in SUBSET Backends : Ask(r, k, targets)
  BY DEF AskAll, UploadHandler, GetOnlineBackends, GetBackendForUpload
<1>2. Idle'
  BY <1>1, KnownKinds DEF backVars, Ask, Idle, BTypeOK, NotFoundInv, Reads, Writes
<1>3. RepliedRight'
  BY <1>1 DEF backVars, Ask, RepliedRight, BTypeOK, NotFoundInv
<1>4. CountedOnce'
  <2>1. SUFFICES ASSUME NEW q \in Requests
                 PROVE  notFound'[q] <= Cardinality(SaidNotFound(q)')
    BY DEF CountedOnce
  <2>2. CASE q = r
    <3>1. SaidNotFound(q)' = {}
      BY <1>1, <2>2 DEF Ask, SaidNotFound, Idle, BTypeOK, NotFoundInv
    <3>2. notFound'[q] = 0
      BY <1>1, <2>2 DEF Ask, Idle, NotFoundInv
    <3>3. QED
      BY <3>1, <3>2, FS_EmptySet
  <2>3. CASE q # r
    <3>1. SaidNotFound(q)' = SaidNotFound(q)
      BY <1>1, <2>3 DEF Ask, SaidNotFound, BTypeOK
    <3>2. QED
      BY <1>1, <3>1 DEF Ask, CountedOnce, NotFoundInv
  <2>4. QED
    BY <2>2, <2>3
<1>5. AnsweredRight'
  BY <1>1 DEF Ask, AnsweredRight, BTypeOK, NotFoundInv
<1>6. QED
  BY <1>2, <1>3, <1>4, <1>5 DEF NotFoundInv

\* A goroutine is not done with a backend whose result has been handled, so
\* the count and the answer stay as they are; only Serve touches the files.
LEMMA NotFoundGoroutine ==
    ASSUME BTypeOK, NotFoundInv, NEW r \in Requests, NEW b \in Backends, Goroutine(r, b)
    PROVE  NotFoundInv'
<1>1. /\ UNCHANGED <<kind, notFound, answer>>
      /\ call[r][b] \in {"sent", "replied", "lost"}
      /\ call'[r][b] \in {"sent", "replied", "lost", "failed"}
      /\ \A q \in Requests, c \in Backends : q # r \/ c # b =>
            call'[q][c] = call[q][c] /\ reply'[q][c] = reply[q][c]
  BY DEF Goroutine, Serve, ServeSick, LoseReply, GiveUp, Report, LoseBody, Abort, Replied,
     answerVars, BTypeOK
<1>2. Idle'
  BY <1>1 DEF Idle, NotFoundInv
<1>3. RepliedRight'
  <2>1. CASE Serve(r, b)
    <3>1. \A q \in Requests, c \in Backends : reply[q][c] = "404" => kind[q] # "none"
      BY DEF Idle, NotFoundInv
    <3>2. \A c \in Backends \ {b} : has'[c] = has[c]
      BY <2>1 DEF Serve, BTypeOK
    <3>3. \A q \in Requests : disturbed[q] \subseteq disturbed'[q]
      BY <2>1 DEF Serve, BTypeOK
    <3>4. reply'[r][b] = "404" => ~has'[b]
      <4>1. reply'[r][b] = Status(kind[r], has[b])
        BY <2>1 DEF Serve, Replied, BTypeOK
      <4>2. has'[b] = StoredAfter(kind[r], has[b])
        BY <2>1 DEF Serve, BTypeOK
      <4>3. ASSUME Status(kind[r], has[b]) = "404" PROVE ~StoredAfter(kind[r], has[b])
        BY <4>3 DEF Status, StoredAfter
      <4>4. QED
        BY <4>1, <4>2, <4>3
    <3>5. ASSUME NEW q \in Requests \ {r}, reply'[q][b] = "404"
          PROVE  ~has'[b] \/ b \in disturbed'[q]
      <4>1. reply[q][b] = "404" /\ kind[q] # "none"
        BY <1>1, <3>1, <3>5
      <4>2. CASE has'[b] # has[b]
        BY <2>1, <4>1, <4>2 DEF Serve
      <4>3. CASE has'[b] = has[b]
        BY <3>3, <4>1, <4>3 DEF RepliedRight, NotFoundInv
      <4>4. QED
        BY <4>2, <4>3
    <3>6. QED
      BY <1>1, <3>2, <3>3, <3>4, <3>5 DEF RepliedRight, NotFoundInv
  <2>2. CASE ~Serve(r, b)
    <3>1. UNCHANGED <<has, disturbed>> /\ (reply'[r][b] = "404" => reply[r][b] = "404")
      BY <2>2 DEF backVars, Goroutine, ServeSick, LoseReply, GiveUp, Report,
     LoseBody, Abort, Replied, BTypeOK
    <3>2. QED
      BY <1>1, <3>1 DEF RepliedRight, NotFoundInv
  <2>3. QED
    BY <2>1, <2>2
<1>4. CountedOnce'
  <2>1. \A q \in Requests : SaidNotFound(q)' = SaidNotFound(q)
    BY <1>1 DEF SaidNotFound
  <2>2. QED
    BY <1>1, <2>1 DEF CountedOnce, NotFoundInv
<1>5. AnsweredRight'
  BY <1>1 DEF AnsweredRight, NotFoundInv
<1>6. QED
  BY <1>2, <1>3, <1>4, <1>5 DEF NotFoundInv

\* A handled result joins the set of its request, if it was a 404.
LEMMA TakeCounts ==
    ASSUME BTypeOK, NEW r \in Requests, NEW b \in Backends, Take(r, b)
    PROVE  /\ kind[r] # "none" \/ ~Idle
           /\ \A q \in Requests \ {r} : SaidNotFound(q)' = SaidNotFound(q)
           /\ Cardinality(SaidNotFound(r)') =
                Cardinality(SaidNotFound(r)) + IF reply[r][b] = "404" THEN 1 ELSE 0
<1>1. kind[r] # "none" \/ ~Idle
  BY DEF Take, Idle
<1>2. \A q \in Requests \ {r} : SaidNotFound(q)' = SaidNotFound(q)
  BY DEF Take, SaidNotFound, BTypeOK
<1>3. CASE reply[r][b] = "404"
  <2>1. SaidNotFound(r)' = SaidNotFound(r) \cup {b} /\ b \notin SaidNotFound(r)
    BY <1>3 DEF Take, SaidNotFound, BTypeOK
  <2>2. QED
    BY <1>1, <1>2, <1>3, <2>1, SaidFinite, FS_AddElement
<1>4. CASE reply[r][b] # "404"
  <2>1. SaidNotFound(r)' = SaidNotFound(r)
    BY <1>4 DEF Take, SaidNotFound, BTypeOK
  <2>2. QED
    BY <1>1, <1>2, <1>4, <2>1, SaidFinite
<1>5. QED
  BY <1>3, <1>4

LEMMA NotFoundHandled ==
    ASSUME BTypeOK, NotFoundInv, NEW r \in Requests, NEW b \in Backends,
           Drain(r, b) \/ Count(r, b) \/ FirstSuccess(r, b) \/ ForwardUpload(r, b)
    PROVE  NotFoundInv'
<1>1. Take(r, b)
  BY DEF Drain, Count, FirstSuccess, ForwardUpload
<1>2. /\ UNCHANGED <<has, kind, reply, disturbed>>
      /\ kind[r] # "none"
      /\ \A q \in Requests \ {r} : /\ call'[q] = call[q]
                                   /\ notFound'[q] = notFound[q]
                                   /\ answer'[q] = answer[q]
  <2>1. kind[r] # "none"
    BY <1>1, TakeCounts DEF NotFoundInv
  <2>2. QED
    BY <2>1 DEF backVars, Drain, Count, FirstSuccess, ForwardUpload, Take,
     answerVars, BTypeOK
<1>3. Idle' /\ RepliedRight'
  BY <1>2 DEF Idle, RepliedRight, NotFoundInv
<1>4. CountedOnce'
  <2>1. notFound'[r] <= Cardinality(SaidNotFound(r)')
    <3>1. notFound'[r] <= notFound[r] + IF reply[r][b] = "404" THEN 1 ELSE 0
      BY DEF Drain, Count, FirstSuccess, ForwardUpload, answerVars, BTypeOK
    <3>2. notFound[r] <= Cardinality(SaidNotFound(r))
      BY DEF CountedOnce, NotFoundInv
    <3>3. notFound[r] \in Nat /\ notFound'[r] \in Nat
      BY DEF Drain, Count, FirstSuccess, ForwardUpload, answerVars, BTypeOK
    <3>4. QED
      BY <1>1, <3>1, <3>2, <3>3, TakeCounts, SaidFinite
  <2>2. \A q \in Requests \ {r} : notFound'[q] <= Cardinality(SaidNotFound(q)')
    BY <1>1, <1>2, TakeCounts DEF CountedOnce, NotFoundInv
  <2>3. QED
    BY <2>1, <2>2 DEF CountedOnce
<1>5. AnsweredRight'
  <2>1. answer'[r] = "404" /\ kind[r] \in {"download", "info", "delete"}
        => notFound'[r] = Cardinality(Backends)
    BY DEF Drain, Count, FirstSuccess, ForwardUpload, answerVars, AnsweredRight,
       NotFoundInv, BTypeOK
  <2>2. QED
    BY <1>2, <2>1 DEF AnsweredRight, NotFoundInv
<1>6. QED
  BY <1>3, <1>4, <1>5 DEF NotFoundInv

LEMMA NotFoundAnswered ==
    ASSUME BTypeOK, NotFoundInv, NEW r \in Requests,
           CancelOthers(r) \/ Copied(r) \/ CopyFailed(r) \/ Respond(r)
    PROVE  NotFoundInv'
<1>1. /\ UNCHANGED <<has, kind, call, reply, notFound, disturbed>>
      /\ \A q \in Requests \ {r} : answer'[q] = answer[q]
  BY DEF backVars, CancelOthers, Copied, CopyFailed, Respond, callVars, answerVars,
     BTypeOK
<1>2. kind[r] = "none" => answer'[r] = "none"
  BY DEF CancelOthers, Copied, CopyFailed, Respond, CancelOnSuccess, answerVars, Idle,
     NotFoundInv, BTypeOK
<1>3. answer'[r] = "404" /\ kind[r] \in {"download", "info", "delete"}
      => notFound[r] = Cardinality(Backends)
  <2>1. CASE Respond(r)
    BY <2>1 DEF Respond, ErrorResponse, BTypeOK
  <2>2. CASE ~Respond(r)
    BY <2>2 DEF CancelOthers, Copied, CopyFailed, answerVars, AnsweredRight,
       NotFoundInv, BTypeOK
  <2>3. QED
    BY <2>1, <2>2
<1>4. QED
  BY <1>1, <1>2, <1>3 DEF NotFoundInv, Idle, RepliedRight, CountedOnce, AnsweredRight,
     SaidNotFound

LEMMA NotFoundFinish ==
    ASSUME BTypeOK, NotFoundInv, NEW r \in Requests, Finish(r)
    PROVE  NotFoundInv'
<1>1. /\ UNCHANGED has
      /\ notFound'[r] = 0 /\ answer'[r] = "none"
      /\ \A b \in Backends : call'[r][b] = "none" /\ reply'[r][b] = "none"
      /\ \A q \in Requests \ {r} :
            /\ kind'[q] = kind[q] /\ call'[q] = call[q] /\ reply'[q] = reply[q]
            /\ notFound'[q] = notFound[q] /\ answer'[q] = answer[q]
            /\ disturbed'[q] = disturbed[q]
  BY DEF Finish, BTypeOK
<1>2. Idle' /\ RepliedRight' /\ AnsweredRight'
  BY <1>1 DEF NotFoundInv, Idle, RepliedRight, AnsweredRight
<1>3. CountedOnce'
  <2>1. SaidNotFound(r)' = {}
    BY <1>1 DEF SaidNotFound
  <2>2. \A q \in Requests \ {r} : SaidNotFound(q)' = SaidNotFound(q)
    BY <1>1 DEF SaidNotFound
  <2>3. notFound'[r] <= Cardinality(SaidNotFound(r)')
    BY <1>1, <2>1, FS_EmptySet
  <2>4. QED
    BY <1>1, <2>2, <2>3 DEF CountedOnce, NotFoundInv
<1>4. QED
  BY <1>2, <1>3 DEF NotFoundInv

LEMMA NotFoundNext == BTypeOK /\ NotFoundInv /\ [BNext]_bVars => NotFoundInv'
<1> SUFFICES ASSUME BTypeOK, NotFoundInv, [BNext]_bVars PROVE NotFoundInv'
  OBVIOUS
<1>1. CASE HealthActions \/ UNCHANGED bVars
  <2>1. UNCHANGED <<has, kind, call, reply, notFound, answer, disturbed>>
    BY <1>1 DEF HealthActions, Tick, HealthCheck, bVars, backVars, rVars, callVars,
       answerVars
  <2>2. QED
    BY <2>1, NotFoundElsewhere
<1>2. ASSUME NEW r \in Requests, Handler(r) PROVE NotFoundInv'
  BY <1>2, NotFoundHandled, NotFoundAnswered, NotFoundFinish DEF Handler
<1>3. QED
  BY <1>1, <1>2, NextCases, NotFoundLate, NotFoundArrival, NotFoundGoroutine

\* A client that is told "not found" by a download, an info or a delete is told
\* the truth about every configured backend, offline ones included: none has
\* the file, unless another request was there in between.
THEOREM NotFoundIsTrue == BSpec => []NotFoundMeansNowhere
BY BInitType, BNextType, NotFoundInit, NotFoundNext, InvNowhere, PTL DEF BSpec

-----------------------------------------------------------------------------
(* What the other answers mean.  A result is tied to what its backend      *)
(* stores from the moment the call is served until the client has its      *)
(* answer, and an answer is tied to the results it was made from.          *)

\* A call has a result once it has ended, and the result says what the backend
\* stores: a deleted file is gone, an uploaded one is there, unless another
\* request has been there since.
ResultRight(r, b) ==
    /\ reply[r][b] = "none" <=> call[r][b] \in {"none", "sent", "lost"}
    /\ reply[r][b] = "409" => kind[r] = "upload"
    /\ reply[r][b] = "404" => kind[r] # "upload"
    /\ kind[r] = "delete" /\ reply[r][b] = "200" => ~has[b] \/ b \in disturbed[r]
    /\ kind[r] = "upload" /\ reply[r][b] \in {"200", "409"} =>
           has[b] \/ b \in disturbed[r]

\* A read takes no success for granted that it has not answered with, and it
\* is given up, like a delete is answered, after the last result only.
AnswerFits(r) ==
    /\ answer[r] = "streaming" => kind[r] \in Streams
    /\ kind[r] \in Reads /\ answer[r] \in {"none", "404", "503"} =>
           \A b \in Backends : call[r][b] = "handled" => reply[r][b] # "200"
    /\ \/ kind[r] = "delete" /\ answer[r] # "none"
       \/ kind[r] \in Reads /\ answer[r] \in {"404", "503"}
       => NoMoreResults(r)
    /\ kind[r] = "upload" /\ answer[r] \in {"200", "409"} =>
           \E b \in Backends : call[r][b] = "handled" /\ reply[r][b] \in {"200", "409"}
    /\ cancelled[r] => kind[r] \in CancelOnSuccess

OutcomeInv == \A r \in Requests : AnswerFits(r) /\ \A b \in Backends : ResultRight(r, b)

AnswerInv == NotFoundInv /\ OutcomeInv

LEMMA InvServed == BTypeOK /\ AnswerInv => HeldFileIsServed
<1> SUFFICES ASSUME BTypeOK, AnswerInv, NEW r \in Requests, NEW b \in Backends,
                    kind[r] \in Reads, answer[r] \in {"404", "503"},
                    has[b], b \notin disturbed[r], call[r][b] # "none"
             PROVE  reply[r][b] \in {"500", "error"}
  BY DEF HeldFileIsServed
<1>1. call[r][b] = "handled" /\ reply[r][b] # "200"
  BY DEF AnswerInv, OutcomeInv, AnswerFits, NoMoreResults
<1>2. reply[r][b] \notin {"none", "409"}
  BY <1>1 DEF AnswerInv, OutcomeInv, ResultRight, Reads
<1>3. reply[r][b] # "404"
  BY DEF AnswerInv, NotFoundInv, RepliedRight
<1>4. reply[r][b] \in Replies
  BY DEF BTypeOK
<1>5. QED
  BY <1>1, <1>2, <1>3, <1>4 DEF Replies

LEMMA InvDeleted == BTypeOK /\ AnswerInv => DeletedWhereAsked
<1> SUFFICES ASSUME BTypeOK, AnswerInv, NEW r \in Requests, NEW b \in Backends,
                    kind[r] = "delete", Answered(r),
                    has[b], b \notin disturbed[r], call[r][b] # "none"
             PROVE  reply[r][b] \in {"500", "error"}
  BY DEF DeletedWhereAsked
<1>1. call[r][b] = "handled"
  BY DEF AnswerInv, OutcomeInv, AnswerFits, NoMoreResults, Answered
<1>2. reply[r][b] \notin {"none", "200", "409"}
  BY <1>1 DEF AnswerInv, OutcomeInv, ResultRight
<1>3. reply[r][b] # "404"
  BY DEF AnswerInv, NotFoundInv, RepliedRight
<1>4. reply[r][b] \in Replies
  BY DEF BTypeOK
<1>5. QED
  BY <1>2, <1>3, <1>4 DEF Replies

LEMMA InvStored == AnswerInv => UploadIsStored
<1> SUFFICES ASSUME AnswerInv, NEW r \in Requests,
                    kind[r] = "upload", answer[r] \in {"200", "409"}
             PROVE  \E b \in Backends : call[r][b] # "none"
                                        /\ (has[b] \/ b \in disturbed[r])
  BY DEF UploadIsStored
<1>1. PICK b \in Backends : call[r][b] = "handled" /\ reply[r][b] \in {"200", "409"}
  BY DEF AnswerInv, OutcomeInv, AnswerFits
<1>2. has[b] \/ b \in disturbed[r]
  BY <1>1 DEF AnswerInv, OutcomeInv, ResultRight
<1>3. QED
  BY <1>1, <1>2

LEMMA OutcomeInit == BInit => OutcomeInv
BY DEF BInit, OutcomeInv, AnswerFits, ResultRight

\* A request keeps its part of the invariant when its own variables stay and
\* what is stored changes only where the change is recorded.
Stands(r) ==
    /\ kind'[r] = kind[r] /\ call'[r] = call[r] /\ reply'[r] = reply[r]
    /\ answer'[r] = answer[r] /\ cancelled'[r] = cancelled[r]
    /\ disturbed[r] \subseteq disturbed'[r]
    /\ \A b \in Backends :
           kind[r] = "none" \/ has'[b] = has[b] \/ b \in disturbed'[r]

LEMMA StandsOutcome ==
    ASSUME OutcomeInv, Idle, NEW r \in Requests, Stands(r)
    PROVE  AnswerFits(r)' /\ \A b \in Backends : ResultRight(r, b)'
<1>1. AnswerFits(r)'
  BY DEF OutcomeInv, AnswerFits, NoMoreResults, Stands
<1>2. ASSUME NEW b \in Backends PROVE ResultRight(r, b)'
  BY DEF OutcomeInv, ResultRight, Stands
<1>3. QED
  BY <1>1, <1>2

LEMMA OutcomeArrival ==
    ASSUME BTypeOK, Idle, OutcomeInv, NEW r \in Requests, AskAll(r) \/ UploadHandler(r)
    PROVE  OutcomeInv'
<1>1. PICK k \in Kinds, targets \in SUBSET Backends : Ask(r, k, targets)
  BY DEF AskAll, UploadHandler, GetOnlineBackends, GetBackendForUpload
<1>2. \A q \in Requests \ {r} : Stands(q)
  BY <1>1 DEF backVars, Ask, Stands, BTypeOK
<1>3. /\ \A b \in Backends : reply'[r][b] = "none" /\ call'[r][b] \in {"none", "sent"}
      /\ \/ answer'[r] = "none"
         \/ answer'[r] = "503" /\ \A b \in Backends : call'[r][b] = "none"
  <2>1. UNCHANGED reply /\ \A b \in Backends : reply[r][b] = "none"
    BY <1>1 DEF Ask, Idle
  <2>2. /\ answer'[r] = IF targets = {} THEN "503" ELSE "none"
        /\ \A b \in Backends : call'[r][b] = IF b \in targets THEN "sent" ELSE "none"
    BY <1>1 DEF Ask, BTypeOK
  <2>3. QED
    BY <2>1, <2>2
<1>4. ~cancelled'[r]
  <2>1. kind[r] = "none" /\ UNCHANGED cancelled
    BY <1>1 DEF Ask
  <2>2. ~cancelled[r]
    BY <2>1 DEF OutcomeInv, AnswerFits, CancelOnSuccess
  <2>3. QED
    BY <2>1, <2>2
<1>5. AnswerFits(r)' /\ \A b \in Backends : ResultRight(r, b)'
  BY <1>3, <1>4 DEF AnswerFits, ResultRight, NoMoreResults
<1>6. QED
  BY <1>2, <1>5, StandsOutcome DEF OutcomeInv

\* Only the served call can change what is stored.
LEMMA OutcomeGoroutine ==
    ASSUME BTypeOK, Idle, OutcomeInv, NEW r \in Requests, NEW b \in Backends,
           Goroutine(r, b)
    PROVE  OutcomeInv'
<1>1. /\ UNCHANGED <<kind, answer, cancelled>>
      /\ call[r][b] \in {"sent", "replied", "lost"}
      /\ call'[r][b] \in {"sent", "replied", "lost", "failed"}
      /\ \A q \in Requests, c \in Backends : q # r \/ c # b =>
            call'[q][c] = call[q][c] /\ reply'[q][c] = reply[q][c]
  BY DEF Goroutine, Serve, ServeSick, LoseReply, GiveUp, Report, LoseBody, Abort, Replied,
     answerVars, BTypeOK
<1>2. \A q \in Requests \ {r} : call'[q] = call[q] /\ reply'[q] = reply[q]
  BY DEF Goroutine, Serve, ServeSick, LoseReply, GiveUp, Report, LoseBody, Abort, Replied, BTypeOK
<1>3. /\ \A q \in Requests : disturbed[q] \subseteq disturbed'[q]
      /\ \A c \in Backends \ {b} : has'[c] = has[c]
      /\ \A q \in Requests \ {r} : kind[q] = "none" \/ has'[b] = has[b] \/ b \in disturbed'[q]
  <2>1. CASE Serve(r, b)
    BY <2>1 DEF Serve, BTypeOK
  <2>2. CASE ~Serve(r, b)
    <3>1. UNCHANGED <<has, disturbed>>
      BY <2>2 DEF backVars, Goroutine, ServeSick, LoseReply, GiveUp, Report,
     LoseBody, Abort
    <3>2. QED
      BY <3>1
  <2>3. QED
    BY <2>1, <2>2
<1>4. \A q \in Requests \ {r} : Stands(q)
  BY <1>1, <1>2, <1>3 DEF Stands
<1>5. \A c \in Backends \ {b} : ResultRight(r, c)'
  BY <1>1, <1>3 DEF ResultRight, OutcomeInv
<1>6. kind[r] # "none"
  BY <1>1 DEF Idle
<1>7. ResultRight(r, b)'
  <2>1. CASE Serve(r, b)
    <3>1. /\ call'[r][b] = "replied"
          /\ reply'[r][b] = Status(kind[r], has[b])
          /\ has'[b] = StoredAfter(kind[r], has[b])
      BY <2>1 DEF Serve, Replied, BTypeOK
    <3>2. /\ Status(kind[r], has[b]) # "none"
          /\ Status(kind[r], has[b]) = "409" => kind[r] = "upload"
          /\ Status(kind[r], has[b]) = "404" => kind[r] # "upload"
          /\ kind[r] = "delete" => ~StoredAfter(kind[r], has[b])
          /\ kind[r] = "upload" => StoredAfter(kind[r], has[b])
      BY DEF Status, StoredAfter
    <3>3. QED
      BY <1>1, <3>1, <3>2 DEF ResultRight
  <2>2. CASE LoseReply(r, b) \/ GiveUp(r, b)
    <3>1. call'[r][b] \in {"sent", "lost"} /\ reply'[r][b] = "none"
      BY <2>2 DEF LoseReply, GiveUp, OutcomeInv, ResultRight, BTypeOK
    <3>2. QED
      BY <3>1 DEF ResultRight
  <2>3. CASE ServeSick(r, b) \/ Report(r, b) \/ LoseBody(r, b) \/ Abort(r, b)
    <3>1. call'[r][b] \in {"replied", "failed"} /\ reply'[r][b] \in {"500", "error"}
      BY <2>3 DEF ServeSick, Report, LoseBody, Abort, Replied, BTypeOK
    <3>2. QED
      BY <3>1 DEF ResultRight
  <2>4. QED
    BY <2>1, <2>2, <2>3 DEF Goroutine
<1>8. AnswerFits(r)'
  <2>1. \A c \in Backends : call'[r][c] = "handled" =>
            call[r][c] = "handled" /\ reply'[r][c] = reply[r][c]
    BY <1>1
  <2>2. \A c \in Backends : call[r][c] = "handled" =>
            call'[r][c] = "handled" /\ reply'[r][c] = reply[r][c]
    BY <1>1
  <2>3. ~NoMoreResults(r)
    BY <1>1 DEF NoMoreResults
  <2>4. QED
    BY <1>1, <2>1, <2>2, <2>3 DEF AnswerFits, OutcomeInv
<1>9. QED
  BY <1>4, <1>5, <1>7, <1>8, StandsOutcome DEF OutcomeInv

LEMMA OutcomeHandled ==
    ASSUME BTypeOK, Idle, OutcomeInv, NEW r \in Requests, NEW b \in Backends,
           Drain(r, b) \/ Count(r, b) \/ FirstSuccess(r, b) \/ ForwardUpload(r, b)
    PROVE  OutcomeInv'
<1>1. /\ Take(r, b)
      /\ \A q \in Requests \ {r} : answer'[q] = answer[q]
  BY DEF Drain, Count, FirstSuccess, ForwardUpload, answerVars, BTypeOK
<1>2. /\ UNCHANGED <<has, kind, reply, cancelled, disturbed>>
      /\ call[r][b] \in {"replied", "failed"}
      /\ call'[r][b] = "handled"
      /\ \A c \in Backends \ {b} : call'[r][c] = call[r][c]
      /\ \A q \in Requests \ {r} : call'[q] = call[q]
  BY <1>1 DEF backVars, Take, BTypeOK
<1>3. \A q \in Requests \ {r} : Stands(q)
  BY <1>1, <1>2 DEF Stands
<1>4. \A c \in Backends : ResultRight(r, c)'
  BY <1>2 DEF ResultRight, OutcomeInv
<1>5. AnswerFits(r)'
  <2>1. ~NoMoreResults(r)
    BY <1>2 DEF NoMoreResults
  <2>2. CASE Drain(r, b)
    <3>1. answer'[r] = answer[r] /\ answer[r] # "none"
      BY <2>2 DEF Drain, answerVars
    <3>2. QED
      BY <1>2, <2>1, <3>1 DEF AnswerFits, OutcomeInv
  <2>3. CASE Count(r, b)
    <3>1. /\ answer'[r] = "none" /\ answer[r] = "none" /\ kind[r] # "upload"
          /\ reply[r][b] = "200" => kind[r] = "delete"
      BY <2>3 DEF Count
    <3>2. QED
      BY <1>2, <3>1 DEF AnswerFits, OutcomeInv, Reads
  <2>4. CASE FirstSuccess(r, b)
    <3>1. /\ kind[r] \in Reads /\ answer[r] = "none"
          /\ answer'[r] = IF kind[r] \in Streams THEN "streaming" ELSE "200"
      BY <2>4 DEF FirstSuccess, BTypeOK
    <3>2. QED
      BY <1>2, <3>1 DEF AnswerFits, OutcomeInv, Reads
  <2>5. CASE ForwardUpload(r, b)
    <3>1. /\ kind[r] = "upload"
          /\ answer'[r] = IF reply[r][b] = "error" THEN "503" ELSE reply[r][b]
      BY <2>5 DEF ForwardUpload, BTypeOK
    <3>2. reply[r][b] \in Replies
      BY DEF BTypeOK
    <3>3. QED
      BY <1>2, <3>1, <3>2 DEF AnswerFits, OutcomeInv, Reads, Replies
  <2>6. QED
    BY <2>2, <2>3, <2>4, <2>5
<1>6. QED
  BY <1>3, <1>4, <1>5, StandsOutcome DEF OutcomeInv

LEMMA OutcomeAnswered ==
    ASSUME BTypeOK, Idle, OutcomeInv, NEW r \in Requests,
           CancelOthers(r) \/ Copied(r) \/ CopyFailed(r) \/ Respond(r)
    PROVE  OutcomeInv'
<1>1. /\ UNCHANGED <<has, kind, call, reply, disturbed>>
      /\ \A q \in Requests \ {r} : answer'[q] = answer[q] /\ cancelled'[q] = cancelled[q]
  BY DEF backVars, CancelOthers, Copied, CopyFailed, Respond, callVars, answerVars,
     BTypeOK
<1>2. \A q \in Requests \ {r} : Stands(q)
  BY <1>1 DEF Stands
<1>3. \A c \in Backends : ResultRight(r, c)'
  BY <1>1 DEF ResultRight, OutcomeInv
<1>4. AnswerFits(r)'
  <2>1. CASE CancelOthers(r)
    <3>1. kind[r] \in CancelOnSuccess /\ answer'[r] = answer[r]
      BY <2>1 DEF CancelOthers, answerVars
    <3>2. QED
      BY <1>1, <3>1 DEF AnswerFits, OutcomeInv, NoMoreResults
  <2>2. CASE Copied(r) \/ CopyFailed(r)
    <3>1. /\ answer[r] = "streaming" /\ answer'[r] \in {"200", "truncated"}
          /\ cancelled'[r] = cancelled[r]
      BY <2>2 DEF Copied, CopyFailed, BTypeOK
    <3>2. kind[r] \in Streams
      BY <3>1 DEF OutcomeInv, AnswerFits
    <3>3. QED
      BY <1>1, <3>1, <3>2 DEF AnswerFits, OutcomeInv, Streams
  <2>3. CASE Respond(r)
    <3>1. /\ kind[r] # "upload" /\ answer[r] = "none" /\ NoMoreResults(r)
          /\ answer'[r] \in {"200", "404", "503"} /\ cancelled'[r] = cancelled[r]
      BY <2>3 DEF Respond, ErrorResponse, BTypeOK
    <3>2. NoMoreResults(r)'
      BY <1>1, <3>1 DEF NoMoreResults
    <3>3. QED
      BY <1>1, <3>1, <3>2 DEF AnswerFits, OutcomeInv
  <2>4. QED
    BY <2>1, <2>2, <2>3
<1>5. QED
  BY <1>2, <1>3, <1>4, StandsOutcome DEF OutcomeInv

LEMMA OutcomeFinish ==
    ASSUME BTypeOK, Idle, OutcomeInv, NEW r \in Requests, Finish(r)
    PROVE  OutcomeInv'
<1>1. /\ UNCHANGED has
      /\ kind'[r] = "none" /\ answer'[r] = "none" /\ cancelled'[r] = FALSE
      /\ \A b \in Backends : call'[r][b] = "none" /\ reply'[r][b] = "none"
  BY DEF Finish, BTypeOK
<1>2. AnswerFits(r)' /\ \A b \in Backends : ResultRight(r, b)'
  BY <1>1 DEF AnswerFits, ResultRight, Reads
<1>3. \A q \in Requests \ {r} : Stands(q)
  BY DEF Finish, Stands, BTypeOK
<1>4. QED
  BY <1>2, <1>3, StandsOutcome DEF OutcomeInv

LEMMA OutcomeNext == BTypeOK /\ AnswerInv /\ [BNext]_bVars => AnswerInv'
<1> SUFFICES ASSUME BTypeOK, NotFoundInv, OutcomeInv, Idle, [BNext]_bVars
             PROVE  OutcomeInv'
  BY NotFoundNext DEF AnswerInv, NotFoundInv
<1>1. CASE HealthActions \/ UNCHANGED bVars
  <2>1. UNCHANGED <<has, kind, call, reply, answer, cancelled, disturbed>>
    BY <1>1 DEF HealthActions, Tick, HealthCheck, bVars, backVars, rVars, callVars,
       answerVars
  <2>2. \A r \in Requests : Stands(r)
    BY <2>1 DEF Stands
  <2>3. QED
    BY <2>2, StandsOutcome DEF OutcomeInv
<1>2. ASSUME NEW r \in Requests, Handler(r) PROVE OutcomeInv'
  BY <1>2, OutcomeHandled, OutcomeAnswered, OutcomeFinish DEF Handler
<1>3. ASSUME NEW b \in Backends, LateServe(b) PROVE OutcomeInv'
  <2>1. \A r \in Requests : Stands(r)
    BY <1>3, LateStep DEF Stands, rVars, callVars, answerVars
  <2>2. QED
    BY <2>1, StandsOutcome DEF OutcomeInv
<1>4. QED
  BY <1>1, <1>2, <1>3, NextCases, OutcomeArrival, OutcomeGoroutine

LEMMA AnswersInvariant == BSpec => [](BTypeOK /\ AnswerInv)
<1>1. BInit => AnswerInv
  BY NotFoundInit, OutcomeInit DEF AnswerInv
<1>2. QED
  BY <1>1, BInitType, BNextType, OutcomeNext, PTL DEF BSpec

\* A download, an info or a get that is refused was not refused by a backend
\* that held the file all along, in whatever order results, failures, retries
\* and cancellations came: such a backend was not asked or its call failed.
THEOREM HeldFileServed == BSpec => []HeldFileIsServed
BY AnswersInvariant, InvServed, PTL

\* An answered delete has left no copy on any backend it asked, also where the
\* first reply was lost and the retry found nothing to delete, except where
\* the call failed or another request stored the file again.
THEOREM DeletedEverywhereAsked == BSpec => []DeletedWhereAsked
BY AnswersInvariant, InvDeleted, PTL

\* An upload that was answered with success, or with "exists" because a retry
\* met the file of its own first attempt, is stored on the backend it asked,
\* unless another request has deleted it since.
THEOREM UploadStored == BSpec => []UploadIsStored
BY AnswersInvariant, InvStored, PTL
=============================================================================
