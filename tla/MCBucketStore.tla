---- MODULE MCBucketStore ----
EXTENDS BucketStore, TLC
CONSTANTS c1, c2, u1, u2, n1, h1
Symm == Permutations(Clients) \cup Permutations(Owners)

(* What a listing has returned decides nothing, nor does anything of a request *)
(* that was answered, but for what the reads have read.                        *)
HandlerOf(c) ==
    IF pc[c] = "reply" /\ ~(answer[c] = "ok" /\ op(c) \in {"get", "head", "info"})
    THEN <<"reply">>
    ELSE <<pc[c], request[c], seen[c], found[c], access[c], cursor[c]>>
LiveState == <<tables, backends, [c \in Clients |-> HandlerOf(c)]>>
====
