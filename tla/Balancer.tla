------------------------------ MODULE Balancer ------------------------------
(***************************************************************************)
(* The balancer's requests for one file (pkg/server/balancer): a handler   *)
(* asks one backend (upload) or all that are online now, each in its own   *)
(* goroutine with retries, and answers from the results in the order they  *)
(* come.  executeBackendRequests may cancel the losers after a success.    *)
(* Requests run next to each other and to the health checks.               *)
(*                                                                         *)
(* A call takes effect on a casd backend in one step.  One that goes down  *)
(* or breaks off loses what it was answering: done, but never known, and   *)
(* asked again.  What was given up there may still be done later.          *)
(***************************************************************************)
EXTENDS BackendManager, FiniteSets

CONSTANTS
    Requests,       \* requests in flight (a finished one makes room)
    Kinds           \* the kinds of request that clients make

Reads == {"download", "info", "get"}    \* get: downloadByHash of a bucket object
Streams == {"download", "get"}
Writes == {"upload", "delete"}
CancelOnSuccess == {"info", "get"}

ASSUME KnownKinds == Kinds \subseteq Reads \cup Writes
ASSUME FiniteBackends == IsFiniteSet(Backends)

VARIABLES
    has,            \* has[b]: backend b stores the file (external)
    late,           \* late[b]: what b may still do, though nobody waits for it
    kind,           \* kind[r]: what r is, "none" when the slot is free
    call,           \* call[r][b]: how far r's goroutine for b is
    reply,          \* reply[r][b]: the result it has, or is about to have
    retried,        \* retried[r]: the backends asked a second time (RetryMax = 1)
    found,          \* found[r]: results with status 200
    notFound,       \* notFound[r]: results with status 404
    answer,         \* answer[r]: what the client gets
    cancelled,      \* cancelled[r]: the context of r's calls
    disturbed       \* history: the backends where another request, or one that was
                    \* given up, has stored or deleted the file since r began

callVars   == <<call, reply, retried>>
answerVars == <<found, notFound, answer>>
rVars == <<kind, callVars, answerVars, cancelled>>
backVars == <<has, late, disturbed>>
bVars == <<bmVars, backVars, rVars>>

Calls == {"none", "sent", "replied", "lost", "failed", "handled"}
Replies == {"none", "200", "404", "409", "500", "error"}
Answers == {"none", "streaming", "200", "404", "409", "500", "503", "truncated"}

BTypeOK ==
    /\ BMTypeOK
    /\ has \in [Backends -> BOOLEAN]
    /\ late \in [Backends -> SUBSET Writes]
    /\ kind \in [Requests -> Kinds \cup {"none"}]
    /\ call \in [Requests -> [Backends -> Calls]]
    /\ reply \in [Requests -> [Backends -> Replies]]
    /\ retried \in [Requests -> SUBSET Backends]
    /\ found \in [Requests -> Nat]
    /\ notFound \in [Requests -> Nat]
    /\ answer \in [Requests -> Answers]
    /\ cancelled \in [Requests -> BOOLEAN]
    /\ disturbed \in [Requests -> SUBSET Backends]

BInit ==
    /\ BMInit
    /\ has \in [Backends -> BOOLEAN]
    /\ late = [b \in Backends |-> {}]
    /\ kind = [r \in Requests |-> "none"]
    /\ call = [r \in Requests |-> [b \in Backends |-> "none"]]
    /\ reply = [r \in Requests |-> [b \in Backends |-> "none"]]
    /\ retried = [r \in Requests |-> {}]
    /\ found = [r \in Requests |-> 0]
    /\ notFound = [r \in Requests |-> 0]
    /\ answer = [r \in Requests |-> "none"]
    /\ cancelled = [r \in Requests |-> FALSE]
    /\ disturbed = [r \in Requests |-> {}]

-----------------------------------------------------------------------------
(* A request arrives.  The set of backends is fixed here.                  *)

Ask(r, k, targets) ==
    /\ kind[r] = "none"
    /\ kind' = [kind EXCEPT ![r] = k]
    /\ call' = [call EXCEPT ![r] =
                   [b \in Backends |-> IF b \in targets THEN "sent" ELSE "none"]]
    /\ answer' = [answer EXCEPT ![r] = IF targets = {} THEN "503" ELSE "none"]
    /\ UNCHANGED <<bmVars, backVars, reply, retried, found, notFound, cancelled>>

AskAll(r) ==
    \E k \in Kinds \ {"upload"} : Ask(r, k, GetOnlineBackends)

\* No backend with room is answered like no backend online.
UploadHandler(r) ==
    /\ "upload" \in Kinds
    /\ \/ \E b \in GetBackendForUpload(1) : Ask(r, "upload", {b})
       \/ GetBackendForUpload(1) = {} /\ Ask(r, "upload", {})

-----------------------------------------------------------------------------
(* The goroutine of one backend: client.Do with its retries.               *)

\* What casd answers, and whether it then stores the file.
Status(k, stored) ==
    CASE k = "upload" -> IF stored THEN "409" ELSE "200"
      [] OTHER        -> IF stored THEN "200" ELSE "404"
StoredAfter(k, stored) ==
    CASE k = "upload" -> TRUE
      [] k = "delete" -> FALSE
      [] OTHER        -> stored

Replied(r, b, s) ==
    /\ call' = [call EXCEPT ![r][b] = "replied"]
    /\ reply' = [reply EXCEPT ![r][b] = s]

Serve(r, b) ==
    /\ call[r][b] = "sent" /\ health[b] = "up"
    /\ Replied(r, b, Status(kind[r], has[b]))
    /\ has' = [has EXCEPT ![b] = StoredAfter(kind[r], @)]
    /\ disturbed' = [q \in Requests |->
           IF has'[b] # has[b] /\ q # r /\ kind[q] # "none"
           THEN disturbed[q] \cup {b} ELSE disturbed[q]]
    /\ UNCHANGED <<bmVars, late, kind, retried, answerVars, cancelled>>

ServeSick(r, b) ==
    /\ call[r][b] = "sent" /\ health[b] = "sick"
    /\ Replied(r, b, "500")
    /\ UNCHANGED <<bmVars, backVars, kind, retried, answerVars, cancelled>>

Unreachable(b) == health[b] \in {"broken", "down"}

LoseReply(r, b) ==
    /\ call[r][b] = "replied" /\ Unreachable(b)
    /\ call' = [call EXCEPT ![r][b] = IF b \in retried[r] THEN "lost" ELSE "sent"]
    /\ reply' = [reply EXCEPT ![r][b] = "none"]
    /\ retried' = [retried EXCEPT ![r] = @ \cup {b}]
    /\ UNCHANGED <<bmVars, backVars, kind, answerVars, cancelled>>

\* Retries or time used up; a backend that is only slow may have the call yet.
\* (Mutant: a client without a time limit.)
NeverGiveUp(r, b) == FALSE

GiveUp(r, b) ==
    /\ call[r][b] = "sent" /\ Unreachable(b)
    /\ call' = [call EXCEPT ![r][b] = "lost"]
    /\ \/ UNCHANGED late
       \/ late' = [late EXCEPT ![b] = @ \cup ({kind[r]} \cap Writes)]
    /\ UNCHANGED <<bmVars, has, disturbed, kind, reply, retried, answerVars, cancelled>>

\* Not every error is recognised as one of the connection, and downloadByHash
\* reports none.
Report(r, b) ==
    /\ call[r][b] = "lost"
    /\ call' = [call EXCEPT ![r][b] = "failed"]
    /\ reply' = [reply EXCEPT ![r][b] = "error"]
    /\ \/ kind[r] # "get" /\ MarkBackendDead(b)
       \/ UNCHANGED bmVars
    /\ UNCHANGED <<backVars, kind, retried, answerVars, cancelled>>

\* The status arrived and the body does not: decoding an info fails, an upload is
\* answered with a 500, a delete does not care.
LoseBody(r, b) ==
    /\ call[r][b] = "replied" /\ Unreachable(b)
    /\ call' = [call EXCEPT ![r][b] = "failed"]
    /\ \/ kind[r] = "info" /\ reply[r][b] = "200"
          /\ reply' = [reply EXCEPT ![r][b] = "error"]
       \/ kind[r] = "upload" /\ reply' = [reply EXCEPT ![r][b] = "500"]
    /\ UNCHANGED <<bmVars, backVars, kind, retried, answerVars, cancelled>>

\* context.Canceled: not an error of the backend
Abort(r, b) ==
    /\ cancelled[r] /\ call[r][b] \in {"sent", "replied"}
    /\ call' = [call EXCEPT ![r][b] = "failed"]
    /\ reply' = [reply EXCEPT ![r][b] = "error"]
    /\ UNCHANGED <<bmVars, backVars, kind, retried, answerVars, cancelled>>

\* A write that was given up takes effect after all.
LateServe(b) ==
    \E k \in late[b] :
        /\ late' = [late EXCEPT ![b] = @ \ {k}]
        /\ has' = [has EXCEPT ![b] = StoredAfter(k, @)]
        /\ disturbed' = [q \in Requests |->
               IF has'[b] # has[b] /\ kind[q] # "none"
               THEN disturbed[q] \cup {b} ELSE disturbed[q]]
        /\ UNCHANGED <<bmVars, rVars>>

-----------------------------------------------------------------------------
(* The handler takes the results one by one.                               *)

Take(r, b) ==
    /\ call[r][b] \in {"replied", "failed"}
    /\ call' = [call EXCEPT ![r][b] = "handled"]
    /\ UNCHANGED <<bmVars, backVars, kind, reply, retried, cancelled>>

\* After the answer the rest is drained.
Drain(r, b) ==
    /\ Take(r, b)
    /\ answer[r] # "none"
    /\ UNCHANGED answerVars

Count(r, b) ==
    /\ Take(r, b)
    /\ answer[r] = "none" /\ kind[r] # "upload"
    /\ reply[r][b] = "200" => kind[r] = "delete"
    /\ found' = [found EXCEPT ![r] = @ + IF reply[r][b] = "200" THEN 1 ELSE 0]
    /\ notFound' = [notFound EXCEPT ![r] = @ + IF reply[r][b] = "404" THEN 1 ELSE 0]
    /\ UNCHANGED answer

FirstSuccess(r, b) ==
    /\ Take(r, b)
    /\ answer[r] = "none" /\ kind[r] \in Reads /\ reply[r][b] = "200"
    /\ answer' = [answer EXCEPT ![r] = IF kind[r] \in Streams THEN "streaming" ELSE "200"]
    /\ UNCHANGED <<found, notFound>>

\* cancel() by the goroutine whose result was the success: the context is the
\* parent of its own request's too.
CancelOthers(r) ==
    /\ kind[r] \in CancelOnSuccess /\ answer[r] \in {"streaming", "200"}
    /\ ~cancelled[r]
    /\ cancelled' = [cancelled EXCEPT ![r] = TRUE]
    /\ UNCHANGED <<bmVars, backVars, kind, callVars, answerVars>>

\* io.Copy of the body
Copied(r) ==
    /\ answer[r] = "streaming"
    /\ answer' = [answer EXCEPT ![r] = "200"]
    /\ UNCHANGED <<bmVars, backVars, kind, callVars, found, notFound, cancelled>>

\* The backend fails, the client is slower than requestTimeout, which covers the
\* body too, or the context was cancelled.
CopyFailed(r) ==
    /\ answer[r] = "streaming"
    /\ answer' = [answer EXCEPT ![r] = "truncated"]
    /\ UNCHANGED <<bmVars, backVars, kind, callVars, found, notFound, cancelled>>

\* Mutants: an error is forwarded as a status; an error goes unnoticed.
ForwardError(r, b) ==
    /\ Take(r, b)
    /\ kind[r] = "upload"
    /\ answer' = [answer EXCEPT ![r] = reply[r][b]]
    /\ UNCHANGED <<found, notFound>>
ForwardSuccess(r, b) ==
    /\ Take(r, b)
    /\ kind[r] = "upload"
    /\ answer' = [answer EXCEPT ![r] = IF reply[r][b] = "error" THEN "200" ELSE reply[r][b]]
    /\ UNCHANGED <<found, notFound>>

ForwardUpload(r, b) ==
    /\ Take(r, b)
    /\ kind[r] = "upload"
    /\ answer' = [answer EXCEPT ![r] = IF reply[r][b] = "error" THEN "503" ELSE reply[r][b]]
    /\ UNCHANGED <<found, notFound>>

\* Mutant: one result is enough.
OneResult(r) == \E b \in Backends : call[r][b] = "handled"

NoMoreResults(r) == \A b \in Backends : call[r][b] \in {"none", "handled"}

\* buildDownloadErrorResponse, buildInfoErrorResponse, buildDeleteResponse
\* (Mutant: "all backends" are the ones that were asked.)
AskedNotFound(r) ==
    CASE found[r] > 0 -> "200"
      [] found[r] = 0 /\ notFound[r] = Cardinality({b \in Backends : call[r][b] # "none"}) -> "404"
      [] OTHER -> IF kind[r] = "get" THEN "404" ELSE "503"

ErrorResponse(r) ==
    CASE found[r] > 0 -> "200"
      [] found[r] = 0 /\ notFound[r] = Cardinality(Backends) -> "404"
      [] OTHER -> IF kind[r] = "get" THEN "404" ELSE "503"

Respond(r) ==
    /\ kind[r] \notin {"none", "upload"} /\ answer[r] = "none" /\ NoMoreResults(r)
    /\ answer' = [answer EXCEPT ![r] = ErrorResponse(r)]
    /\ UNCHANGED <<bmVars, backVars, kind, callVars, found, notFound, cancelled>>

\* The client has its answer and the last goroutine has ended.
Answered(r) == answer[r] \notin {"none", "streaming"}

Finish(r) ==
    /\ Answered(r) /\ NoMoreResults(r)
    /\ kind' = [kind EXCEPT ![r] = "none"]
    /\ call' = [call EXCEPT ![r] = [b \in Backends |-> "none"]]
    /\ reply' = [reply EXCEPT ![r] = [b \in Backends |-> "none"]]
    /\ retried' = [retried EXCEPT ![r] = {}]
    /\ found' = [found EXCEPT ![r] = 0]
    /\ notFound' = [notFound EXCEPT ![r] = 0]
    /\ answer' = [answer EXCEPT ![r] = "none"]
    /\ cancelled' = [cancelled EXCEPT ![r] = FALSE]
    /\ disturbed' = [disturbed EXCEPT ![r] = {}]
    /\ UNCHANGED <<bmVars, has, late>>

-----------------------------------------------------------------------------

Goroutine(r, b) == Serve(r, b) \/ ServeSick(r, b) \/ LoseReply(r, b) \/ GiveUp(r, b)
                   \/ Report(r, b) \/ LoseBody(r, b) \/ Abort(r, b)
Handler(r) ==
    \/ \E b \in Backends : Drain(r, b) \/ Count(r, b) \/ FirstSuccess(r, b)
                           \/ ForwardUpload(r, b)
    \/ CancelOthers(r) \/ Copied(r) \/ CopyFailed(r) \/ Respond(r) \/ Finish(r)

HealthCheck(b) == checkBackend(b) /\ UNCHANGED <<backVars, rVars>>
Tick == checkAllBackends /\ UNCHANGED <<backVars, rVars>>
Environment(b) ==
    (HealthChanges(b) /\ UNCHANGED <<backVars, rVars>>) \/ LateServe(b)

BNext ==
    \/ \E r \in Requests : AskAll(r) \/ UploadHandler(r) \/ Handler(r)
                           \/ \E b \in Backends : Goroutine(r, b)
    \/ Tick
    \/ \E b \in Backends : HealthCheck(b) \/ Environment(b)

BSpec == BInit /\ [][BNext]_bVars

\* The ticker ticks, checks and calls end (both have timeouts), handlers run.
FairBSpec ==
    /\ BSpec
    /\ WF_bVars(Tick)
    /\ \A b \in Backends : WF_bVars(HealthCheck(b))
    /\ \A r \in Requests : WF_bVars(Handler(r))
    /\ \A r \in Requests, b \in Backends : WF_bVars(Goroutine(r, b))

-----------------------------------------------------------------------------
(* Properties                                                              *)

\* Requests and health checks write the same status from several goroutines, a
\* check with what it fetched earlier: a backend is offline exactly when three
\* failures in a row, or a request's verdict, are on record.
OfflineIffFailed == \A b \in Backends : online[b] <=> fails[b] < maxConsecutiveFailures

\* "If all backends returned not found, return 404" (download.go:153): no
\* backend, offline ones included, has the file when the client is told so,
\* unless another request stored it meanwhile, also one that had been given up
\* before.  A retried delete that removed
\* the file itself counts as not found.
NotFoundMeansNowhere ==
    \A r \in Requests : answer[r] = "404" /\ kind[r] \in {"download", "info", "delete"} =>
        {b \in Backends : has[b]} \subseteq disturbed[r]

\* A download or info that is not answered with the file was not refused it by
\* any backend that held it all along: it was not asked (offline) or its call
\* failed, whatever order the other results came in.
HeldFileIsServed ==
    \A r \in Requests, b \in Backends :
        /\ kind[r] \in Reads /\ answer[r] \in {"404", "503"}
        /\ has[b] /\ b \notin disturbed[r]
        => call[r][b] = "none" \/ reply[r][b] \in {"500", "error"}

\* "Delete from all backends" (delete.go:40) as far as it goes: an answered
\* delete left no copy on a backend it asked, lost replies and retries
\* included, except where the call failed.
DeletedWhereAsked ==
    \A r \in Requests, b \in Backends :
        /\ kind[r] = "delete" /\ Answered(r)
        /\ has[b] /\ b \notin disturbed[r]
        => call[r][b] = "none" \/ reply[r][b] \in {"500", "error"}

\* An upload answered "stored" or "exists" is stored, also when the answer
\* is that of a retry which met the file its first attempt had stored.
UploadIsStored ==
    \A r \in Requests : kind[r] = "upload" /\ answer[r] \in {"200", "409"} =>
        \E b \in Backends : call[r][b] # "none" /\ (has[b] \/ b \in disturbed[r])

\* The cancellation is for the "other requests" (balancer.go:49,
\* bucket_object.go:246): no copy to a client breaks off because the balancer
\* cancelled it.
CopyNotCancelled ==
    [][\A r \in Requests :
         answer[r] = "streaming" /\ answer'[r] = "truncated" => ~cancelled[r]]_bVars

\* Every request is answered, whatever becomes of the backends.
RequestAnswered == \A r \in Requests : kind[r] # "none" ~> Answered(r)

\* A backend that is up for good is online for good, whatever calls failed
\* before and report it late.
BackendRecovers ==
    \A b \in Backends : <>[](health[b] = "up") => <>[]online[b]

\* A backend that is down for good is not asked any more.  One that breaks every
\* connection off for good may be asked for ever.
BackendGivenUp ==
    \A b \in Backends : <>[](health[b] = "down") => <>[]~online[b]
=============================================================================
