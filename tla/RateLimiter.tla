---------------------------- MODULE RateLimiter -----------------------------
(***************************************************************************)
(* The sliding-window rate limiter that the API puts before every request  *)
(* but the health checks, as operators on a limiter record: windows maps a *)
(* client to the ages, in seconds, of the requests it was allowed, oldest  *)
(* first; count numbers the calls and redis says whether Redis is still    *)
(* tried.                                                                  *)
(***************************************************************************)
EXTENDS Integers, FiniteSets, SequencesExt

CONSTANTS
    WindowSeconds, MaxPerWindow,   \* the sliding window and what it admits
    MaxBuckets, CleanupInterval

ASSUME LimiterSettings ==
    /\ WindowSeconds \in Nat \ {0} /\ MaxPerWindow \in Nat \ {0}
    /\ MaxBuckets \in Nat \ {0} /\ CleanupInterval \in Nat \ {0}

Limiter == [windows |-> <<>>, count |-> 0, redis |-> TRUE]

Bucket(l, client) == IF client \in DOMAIN l.windows THEN l.windows[client] ELSE <<>>

SetBucket(l, client, ages) ==
    [l EXCEPT !.windows = [c \in DOMAIN @ \union {client} |-> IF c = client THEN ages ELSE @[c]]]

\* Every CleanupInterval-th call forgets the clients whose last request is two windows old.
Cleanup(l) ==
    LET counted == [l EXCEPT !.count = (@ + 1) % CleanupInterval]
        Stale(c) == l.windows[c] = <<>> \/ Last(l.windows[c]) > 2 * WindowSeconds
    IN  IF counted.count # 0 THEN counted
        ELSE [counted EXCEPT !.windows = [c \in {d \in DOMAIN @ : ~ Stale(d)} |-> @[c]]]


InMemoryIsAllowed(l, client) ==
    LET cleaned == Cleanup(l)
        recent == SelectSeq(Bucket(cleaned, client), LAMBDA age : age <= WindowSeconds)
    IN  CASE client \notin DOMAIN cleaned.windows
             /\ Cardinality(DOMAIN cleaned.windows) >= MaxBuckets ->
                 [allowed |-> FALSE, limiter |-> cleaned]
          [] Len(recent) >= MaxPerWindow ->
                 [allowed |-> FALSE, limiter |-> SetBucket(cleaned, client, recent)]
          [] OTHER ->
                 [allowed |-> TRUE, limiter |-> SetBucket(cleaned, client, Append(recent, 0))]

\* The Redis limiter reads a field its class does not have before it reaches Redis; the
\* exception switches the limiter to its in-process fallback for good.
RedisIsAllowed(l, client) == InMemoryIsAllowed([l EXCEPT !.redis = FALSE], client)

\* A second passes; ages beyond the cleanup horizon are not told apart.
LimiterAges(l) ==
    LET Older(age) == IF age > 2 * WindowSeconds THEN age ELSE age + 1
    IN  [l EXCEPT !.windows = [c \in DOMAIN @ |-> [i \in DOMAIN @[c] |-> Older(@[c][i])]]]
=============================================================================
