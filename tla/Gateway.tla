------------------------------ MODULE Gateway ------------------------------
(***************************************************************************)
(* The rate_limit and request_meta middlewares (api/main.py): counters in   *)
(* Redis shared by the API processes, over-limit hits and shadow bans in     *)
(* the memory of each.  INCR and EXPIRE are two calls.                       *)
(***************************************************************************)
EXTENDS Naturals, FiniteSets

CONSTANTS
    Exchanges,      \* HTTP requests in progress
    Apis,           \* API processes
    Addresses,      \* client addresses
    Buckets,        \* the key of a counter is an address (or a user) and a bucket
    Limit,          \* the rule's limit for a window
    BanHits,        \* over-limit hits within a minute that ban an address
    MaxCount        \* bound: a counter stops here

ASSUME GatewayAssumption ==
    Limit \in Nat \ {0} /\ BanHits \in Nat \ {0} /\ MaxCount \in Nat

CounterKeys == Addresses \X Buckets
Away == [at |-> "away"]

VARIABLES
    counter,    \* [CounterKeys -> [n, ttl]]
    hits,       \* [Apis -> [Addresses -> over-limit hits of the last minute]]
    banned,     \* [Apis -> SUBSET Addresses]
    exchange,   \* [Exchanges -> where the request is, its count; old: of a window that ended]
    inflight,   \* [Apis -> _inflight_count]
    \* history
    passed,     \* [CounterKeys -> requests the counter has let in since it started]
    immortal    \* counters left without an expiry by a failure between the two calls

gatewayVars == <<counter, hits, banned, exchange, inflight, passed, immortal>>

GatewayInit ==
    /\ counter = [k \in CounterKeys |-> [n |-> 0, ttl |-> FALSE]]
    /\ hits = [p \in Apis |-> [a \in Addresses |-> 0]]
    /\ banned = [p \in Apis |-> {}]
    /\ exchange = [e \in Exchanges |-> Away]
    /\ inflight = [p \in Apis |-> 0]
    /\ passed = [k \in CounterKeys |-> 0]
    /\ immortal = {}

At(e, l) == exchange[e] # Away /\ exchange[e].at = l

\* The limit the request is held to: the load of the machine divides it by up to four.
Limits == {IF (Limit * q) \div 4 > 1 THEN (Limit * q) \div 4 ELSE 1 : q \in 1..4}

\* A banned address gets its 429 here; other paths than the skipped ones go on to INCR.
Arrive(e, p, a, b) ==
    /\ exchange[e] = Away /\ a \notin banned[p]
    /\ exchange' = [exchange EXCEPT ![e] = [at |-> "incr", api |-> p, key |-> <<a, b>>, n |-> 0,
                                           old |-> FALSE]]
    /\ UNCHANGED <<counter, hits, banned, inflight, passed, immortal>>

\* The request goes to the handler; request_meta counts it there.
LetIn(e) ==
    /\ exchange' = [exchange EXCEPT ![e].at = "inside"]
    /\ inflight' = [inflight EXCEPT ![exchange[e].api] = @ + 1]

Increment(e) ==
    LET k == exchange[e].key
        n == counter[k].n + 1
    IN  /\ At(e, "incr") /\ n <= MaxCount
        /\ counter' = [counter EXCEPT ![k].n = n]
        /\ exchange' = [exchange EXCEPT ![e].n = n,
                                        ![e].at = IF n = 1 THEN "expire" ELSE "decide"]
        /\ UNCHANGED <<hits, banned, inflight, passed, immortal>>

SetExpiry(e) ==
    LET k == exchange[e].key IN
    /\ At(e, "expire")
    /\ counter' = [counter EXCEPT ![k].ttl = TRUE]
    /\ exchange' = [exchange EXCEPT ![e].at = "decide"]
    /\ UNCHANGED <<hits, banned, inflight, passed, immortal>>

\* Redis does not answer: fail open.
RedisFails(e) ==
    LET k == exchange[e].key IN
    /\ At(e, "incr") \/ At(e, "expire")
    /\ immortal' = IF At(e, "expire") THEN immortal \cup {k} ELSE immortal
    /\ LetIn(e)
    /\ UNCHANGED <<counter, hits, banned, passed>>

\* Mutant: the request over the limit is still let in.
DecideOffByOne(e) ==
    /\ At(e, "decide")
    /\ exchange[e].n <= Limit + 1
    /\ LetIn(e)
    /\ passed' = [passed EXCEPT ![exchange[e].key] = IF exchange[e].old THEN @ ELSE @ + 1]
    /\ UNCHANGED <<counter, hits, banned, immortal>>

Decide(e) ==
    LET p == exchange[e].api
        k == exchange[e].key
        a == k[1]
    IN  /\ At(e, "decide")
        /\ \E limit \in Limits :
            \/ /\ exchange[e].n <= limit
               /\ LetIn(e)
               /\ passed' = [passed EXCEPT ![k] = IF exchange[e].old THEN @ ELSE @ + 1]
               /\ UNCHANGED <<hits, banned>>
            \/ /\ exchange[e].n > limit
               /\ exchange' = [exchange EXCEPT ![e] = Away]
               /\ hits' = [hits EXCEPT ![p][a] = IF @ < BanHits THEN @ + 1 ELSE @]
               /\ banned' = IF hits'[p][a] >= BanHits
                            THEN [banned EXCEPT ![p] = @ \cup {a}] ELSE banned
               /\ UNCHANGED <<inflight, passed>>
        /\ UNCHANGED <<counter, immortal>>

\* Mutant: the count is not taken back.
RespondForgets(e) ==
    /\ At(e, "inside")
    /\ exchange' = [exchange EXCEPT ![e] = Away]
    /\ UNCHANGED <<counter, hits, banned, inflight, passed, immortal>>

Respond(e) ==
    /\ At(e, "inside")
    /\ inflight' = [inflight EXCEPT ![exchange[e].api] = @ - 1]
    /\ exchange' = [exchange EXCEPT ![e] = Away]
    /\ UNCHANGED <<counter, hits, banned, passed, immortal>>

\* The key expires in Redis.
WindowEnds(k) ==
    /\ counter[k].ttl
    /\ counter' = [counter EXCEPT ![k] = [n |-> 0, ttl |-> FALSE]]
    /\ passed' = [passed EXCEPT ![k] = 0]
    /\ exchange' = [e \in Exchanges |->
                      IF At(e, "decide") /\ exchange[e].key = k
                      THEN [exchange[e] EXCEPT !.old = TRUE] ELSE exchange[e]]
    /\ UNCHANGED <<hits, banned, inflight, immortal>>

\* The oldest hit is more than a minute old.
HitAges(p, a) ==
    /\ hits[p][a] > 0
    /\ hits' = [hits EXCEPT ![p][a] = @ - 1]
    /\ UNCHANGED <<counter, banned, exchange, inflight, passed, immortal>>

BanEnds(p, a) ==
    /\ a \in banned[p]
    /\ banned' = [banned EXCEPT ![p] = @ \ {a}]
    /\ UNCHANGED <<counter, hits, exchange, inflight, passed, immortal>>

ApiDies(p) ==
    LET lost == {e \in Exchanges : exchange[e] # Away /\ exchange[e].api = p} IN
    /\ exchange' = [e \in Exchanges |-> IF e \in lost THEN Away ELSE exchange[e]]
    /\ immortal' = immortal \cup {exchange[e].key : e \in {x \in lost : At(x, "expire")}}
    /\ hits' = [hits EXCEPT ![p] = [a \in Addresses |-> 0]]
    /\ banned' = [banned EXCEPT ![p] = {}]
    /\ inflight' = [inflight EXCEPT ![p] = 0]
    /\ UNCHANGED <<counter, passed>>

GatewayNext ==
    \/ \E e \in Exchanges :
        \/ \E p \in Apis, a \in Addresses, b \in Buckets : Arrive(e, p, a, b)
        \/ Increment(e) \/ SetExpiry(e) \/ RedisFails(e) \/ Decide(e) \/ Respond(e)
    \/ \E k \in CounterKeys : WindowEnds(k)
    \/ \E p \in Apis : ApiDies(p) \/ \E a \in Addresses : HitAges(p, a) \/ BanEnds(p, a)

GatewaySpec == GatewayInit /\ [][GatewayNext]_gatewayVars

-----------------------------------------------------------------------------
Exchange == [at : {"incr", "expire", "decide", "inside"}, api : Apis, key : CounterKeys,
             n : 0..MaxCount, old : BOOLEAN]

GatewayTypeOK ==
    /\ counter \in [CounterKeys -> [n : 0..MaxCount, ttl : BOOLEAN]]
    /\ hits \in [Apis -> [Addresses -> 0..BanHits]]
    /\ banned \in [Apis -> SUBSET Addresses]
    /\ exchange \in [Exchanges -> {Away} \cup Exchange]
    /\ \A p \in Apis : inflight[p] =
            Cardinality({e \in Exchanges : At(e, "inside") /\ exchange[e].api = p})
    /\ passed \in [CounterKeys -> 0..MaxCount]
    /\ immortal \subseteq CounterKeys

\* A counter lets in no more requests than its rule allows between its start and its
\* expiry, however many processes share it and however late each decides (rate_limit).
\* Requests during an outage of Redis pass without it.
WindowLimitKept == \A k \in CounterKeys : passed[k] <= Limit

\* A counter in use expires: INCR and EXPIRE are two calls, and the request that started
\* it is between the two unless it failed or died there.  After such a failure the key
\* never expires and its address is refused for ever once the limit is reached.
CountersExpire ==
    \A k \in CounterKeys : counter[k].n > 0 /\ ~counter[k].ttl =>
        k \in immortal \/ \E e \in Exchanges : At(e, "expire") /\ exchange[e].key = k
=============================================================================
