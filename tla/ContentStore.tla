---------------------------- MODULE ContentStore ----------------------------
(***************************************************************************)
(* What a store of content promises its callers: each operation takes      *)
(* effect at one instant between its call and its answer.  An upload alone *)
(* takes two, because its content arrives under its final name: who looks  *)
(* meanwhile may find half of it, who deletes meanwhile undoes the upload, *)
(* a crash meanwhile leaves what has arrived, and an upload that fails may *)
(* leave it too.                                                           *)
(***************************************************************************)
CONSTANTS
    Procs,      \* callers, one operation at a time each
    Hashes,     \* the names of contents
    Durable     \* whether stored content survives a crash of the machine

Operations == {"upload", "delete", "download", "exists"}
NoRequest == [op |-> "none"]
Requests == [op : Operations, hash : Hashes]

VARIABLES
    content,    \* content[h]: absent, stored, torn by a crash, remains of a failed
                \* upload, or the caller whose upload brings it
    request,    \* request[p]: what p has asked for
    answer      \* answer[p]: "none", "storing" while p's content arrives, or its answer

cVars == <<content, request, answer>>

CInit ==
    /\ content = [h \in Hashes |-> "absent"]
    /\ request = [p \in Procs |-> NoRequest]
    /\ answer = [p \in Procs |-> "none"]

Asked(p, o) == request[p].op = o /\ answer[p] = "none"
Answer(p, a) == answer' = [answer EXCEPT ![p] = a] /\ UNCHANGED request
Becomes(p, c) == content' = [content EXCEPT ![request[p].hash] = c]
The(p) == content[request[p].hash]

Call(p) ==
    /\ request[p] = NoRequest
    /\ \E r \in Requests : request' = [request EXCEPT ![p] = r]
    /\ UNCHANGED <<content, answer>>

Reply(p) ==
    /\ answer[p] \notin {"none", "storing"}
    /\ request' = [request EXCEPT ![p] = NoRequest]
    /\ answer' = [answer EXCEPT ![p] = "none"]
    /\ UNCHANGED content

BeginUpload(p) ==
    /\ Asked(p, "upload") /\ The(p) = "absent"
    /\ Becomes(p, p) /\ Answer(p, "storing")

\* What was deleted while it arrived stays deleted.
FinishUpload(p) ==
    /\ answer[p] = "storing"
    /\ Becomes(p, IF The(p) = p THEN "stored" ELSE The(p))
    /\ Answer(p, "created")

RefuseUpload(p) ==
    /\ Asked(p, "upload") /\ The(p) \in {"stored", "torn", "remains"}
    /\ Answer(p, "conflict") /\ UNCHANGED content

Delete(p) ==
    /\ Asked(p, "delete") /\ The(p) # "absent"
    /\ Becomes(p, "absent") /\ Answer(p, "deleted")

Download(p) ==
    /\ Asked(p, "download")
    /\ \/ The(p) \notin {"absent", "torn"} /\ Answer(p, "whole")
       \/ The(p) \notin {"absent", "stored"} /\ Answer(p, "part")
    /\ UNCHANGED content

Exists(p) ==
    /\ Asked(p, "exists") /\ The(p) # "absent"
    /\ Answer(p, "found") /\ UNCHANGED content

NotFound(p) ==
    /\ request[p] # NoRequest /\ answer[p] = "none"
    /\ request[p].op # "upload" /\ The(p) = "absent"
    /\ Answer(p, "notFound") /\ UNCHANGED content

\* A failed upload takes back what has arrived of it, or leaves it: then it is
\* found, served and in the way of the next upload like content.
Fail(p) ==
    /\ request[p] # NoRequest /\ answer[p] \in {"none", "storing"}
    /\ \/ The(p) = p /\ \E c \in {"absent", "remains"} : Becomes(p, c)
       \/ The(p) # p /\ UNCHANGED content
    /\ Answer(p, "error")

Survives(c) ==
    IF c \in {"absent", "torn"} \/ (c = "stored" /\ Durable)
    THEN {c} ELSE {"absent", "torn", "stored"}

Crash ==
    /\ content' \in [Hashes -> {"absent", "torn", "stored"}]
    /\ \A h \in Hashes : content'[h] \in Survives(content[h])
    /\ request' = [p \in Procs |-> NoRequest]
    /\ answer' = [p \in Procs |-> "none"]

CNext ==
    \/ \E p \in Procs :
          \/ Call(p) \/ Reply(p) \/ BeginUpload(p) \/ FinishUpload(p)
          \/ RefuseUpload(p) \/ Delete(p) \/ Download(p) \/ Exists(p)
          \/ NotFound(p) \/ Fail(p)
    \/ Crash

CSpec == CInit /\ [][CNext]_cVars
=============================================================================
