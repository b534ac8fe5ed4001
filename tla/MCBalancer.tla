---- MODULE MCBalancer ----
EXTENDS Balancer, TLC
CONSTANTS b1, b2, b3, r1, r2
Symm == Permutations(Requests) \cup Permutations(Backends)

\* Between two rounds of health checks one backend is down at a time, and one
\* of the requests suffers from it.  What comes late meets one request at a
\* time.  An upload meets a download and a delete meets an info: the handlers
\* of the two reads look for a success alike.
Suffers(r) == \E b \in Backends :
    b \in retried[r] \/ call[r][b] = "lost" \/ reply[r][b] = "error"
BetweenRounds ==
    /\ \A b \in Backends : probe[b] = "none" /\ health[b] \in {"up", "down"}
    /\ Cardinality({b \in Backends : health[b] = "down"}) <= 1
    /\ (\E b \in Backends : late[b] # {}) =>
           Cardinality({r \in Requests : kind[r] # "none"}) <= 1
    /\ Cardinality({r \in Requests : Suffers(r)}) <= 1
    /\ Cardinality({r \in Requests : kind[r] \in Reads}) <= 1
    /\ \A q, r \in Requests : <<kind[q], kind[r]>> \notin
                               {<<"download", "delete">>, <<"info", "upload">>}

\* What no step and no property reads any more does not tell states apart.
Waiting(r) == answer[r] = "none"
Result(r, b) == IF kind[r] \in Reads /\ answer[r] \in {"200", "streaming", "truncated"}
                THEN "" ELSE reply[r][b]
LiveRequest(r) ==
    <<kind[r], answer[r], cancelled[r], disturbed[r], Suffers(r),
      [b \in Backends |-> <<call[r][b], Result(r, b),
                            call[r][b] \in {"sent", "replied"} /\ b \in retried[r]>>],
      IF Waiting(r) THEN <<found[r], notFound[r]>> ELSE <<>>>>
LiveState == <<online, space, health, has, late, [r \in Requests |-> LiveRequest(r)]>>
====
