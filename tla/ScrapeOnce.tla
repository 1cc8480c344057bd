----------------------------- MODULE ScrapeOnce -----------------------------
(***************************************************************************)
(* scrape_once (api/scraping/service.py): the in-flight key, the result     *)
(* cache, the retries and the circuit breaker of a domain, shared by        *)
(* requests and workers of several processes.  A store call that fails goes *)
(* to the memory of the calling process instead of Redis (store.py).        *)
(***************************************************************************)
EXTENDS Naturals, FiniteSets

CONSTANTS
    Scrapers,      \* coroutines that run scrape_once
    Processes,     \* their processes
    HostOf,        \* [Scrapers -> Processes]
    Pages,         \* normalized URLs, all of one domain
    Shared,        \* the place of every store call that succeeds: Redis
    Nobody,
    MaxAttempts,   \* SCRAPING_RETRY_MAX_ATTEMPTS
    Threshold,     \* SCRAPING_CIRCUIT_FAIL_THRESHOLD
    MaxFailures,   \* bound: how often a fetch fails in a behaviour
    MaxOutages     \* bound: how many Redis calls fail in a behaviour

ASSUME ScrapeOnceAssumption ==
    /\ MaxAttempts \in Nat \ {0} /\ Threshold \in Nat \ {0}
    /\ MaxFailures \in Nat /\ MaxOutages \in Nat
    /\ IsFiniteSet(Scrapers) /\ HostOf \in [Scrapers -> Processes]
    /\ Shared \notin Processes /\ Nobody \notin Scrapers \cup Pages

Stores == {Shared} \cup Processes

VARIABLES
    step,       \* [Scrapers -> control state]
    page,       \* [Scrapers -> the URL being scraped, or Nobody]
    tries,      \* [Scrapers -> attempts so far]
    count,      \* [Scrapers -> the failure count last read]
    inflight,   \* [Stores -> [Pages -> who set the key, or Nobody]]
    cache,      \* [Stores -> SUBSET Pages]: results not yet expired
    circuit,    \* [Stores -> [failures, open]]: scrape:circuit:<domain>
    outages,    \* Redis calls that have failed
    \* history
    failed,     \* fetches that have failed
    streak,     \* failures recorded since the last success, as if one by one
    serial,     \* no two updates of the circuit have overlapped, none was local
    overrun     \* scrapers whose in-flight key has expired under them

onceVars == <<step, page, tries, count, inflight, cache, circuit, outages,
              failed, streak, serial, overrun>>

Fetching == {"fetch", "store", "success", "failRead", "failWrite"}
Scraping == {"cache", "lock", "taken"} \cup Fetching

OnceInit ==
    /\ step = [t \in Scrapers |-> "idle"]
    /\ page = [t \in Scrapers |-> Nobody]
    /\ tries = [t \in Scrapers |-> 0]
    /\ count = [t \in Scrapers |-> 0]
    /\ inflight = [s \in Stores |-> [u \in Pages |-> Nobody]]
    /\ cache = [s \in Stores |-> {}]
    /\ circuit = [s \in Stores |-> [failures |-> 0, open |-> FALSE]]
    /\ outages = 0
    /\ failed = 0 /\ streak = 0 /\ serial = TRUE /\ overrun = {}

-----------------------------------------------------------------------------
\* The store a call of t works on: Redis, or its process's own when Redis fails.
Calls(t, s) ==
    \/ s = Shared /\ UNCHANGED outages
    \/ s = HostOf[t] /\ outages < MaxOutages /\ outages' = outages + 1

Leave(t) ==
    /\ step' = [step EXCEPT ![t] = "idle"]
    /\ page' = [page EXCEPT ![t] = Nobody]
    /\ tries' = [tries EXCEPT ![t] = 0]
    /\ count' = [count EXCEPT ![t] = 0]
    /\ overrun' = overrun \ {t}

Move(t, l) ==
    /\ step' = [step EXCEPT ![t] = l]
    /\ UNCHANGED <<page, tries, count, overrun>>

\* _check_circuit is the last test before the cache; rules, limits and quotas may also
\* refuse the URL, which ends the scrape here.
Enter(t, u, force) ==
    /\ step[t] = "idle"
    /\ \E s \in Stores : Calls(t, s) /\ ~circuit[s].open
    /\ step' = [step EXCEPT ![t] = IF force THEN "lock" ELSE "cache"]
    /\ page' = [page EXCEPT ![t] = u]
    /\ UNCHANGED <<tries, count, inflight, cache, circuit,
                   failed, streak, serial, overrun>>

\* _read_cache before the in-flight key.
ReadCache(t) ==
    /\ step[t] = "cache"
    /\ \E s \in Stores :
        /\ Calls(t, s)
        /\ \/ page[t] \in cache[s] /\ Leave(t)
           \/ page[t] \notin cache[s] /\ Move(t, "lock")
    /\ UNCHANGED <<inflight, cache, circuit, failed, streak, serial>>

\* Mutant: SET without NX.
TakeInflightAlways(t) ==
    /\ step[t] = "lock"
    /\ \E s \in Stores :
        /\ Calls(t, s)
        /\ inflight' = [inflight EXCEPT ![s][page[t]] = t]
    /\ step' = [step EXCEPT ![t] = "fetch"]
    /\ tries' = [tries EXCEPT ![t] = 1]
    /\ UNCHANGED <<page, count, cache, circuit, failed, streak, serial, overrun>>

\* SET NX of the in-flight key.  Nobody ever deletes it: it expires.
TakeInflight(t) ==
    /\ step[t] = "lock"
    /\ \E s \in Stores :
        /\ Calls(t, s)
        /\ \/ /\ inflight[s][page[t]] = Nobody
              /\ inflight' = [inflight EXCEPT ![s][page[t]] = t]
              /\ step' = [step EXCEPT ![t] = "fetch"]
              /\ tries' = [tries EXCEPT ![t] = 1]
              /\ UNCHANGED <<page, count, overrun>>
           \/ /\ inflight[s][page[t]] # Nobody
              /\ Move(t, "taken")
              /\ UNCHANGED inflight
    /\ UNCHANGED <<cache, circuit, failed, streak, serial>>

\* The key was there: the cache once more, else 409 "Duplicate scrape in progress".
FoundTaken(t) ==
    /\ step[t] = "taken"
    /\ \E s \in Stores : Calls(t, s)
    /\ Leave(t)
    /\ UNCHANGED <<inflight, cache, circuit, failed, streak, serial>>

\* fetch_url returns a page.
FetchOk(t) ==
    /\ step[t] = "fetch"
    /\ Move(t, "store")
    /\ UNCHANGED <<inflight, cache, circuit, outages, failed, streak, serial>>

\* fetch_url raises: an HTTPException is not retried, as if it were the last attempt.
FetchFails(t) ==
    /\ step[t] = "fetch"
    /\ failed < MaxFailures
    /\ failed' = failed + 1
    /\ step' = [step EXCEPT ![t] = "failRead"]
    /\ \E n \in {tries[t], MaxAttempts} : tries' = [tries EXCEPT ![t] = n]
    /\ UNCHANGED <<page, count, inflight, cache, circuit, outages,
                   streak, serial, overrun>>

WriteCache(t) ==
    /\ step[t] = "store"
    /\ \E s \in Stores :
        /\ Calls(t, s)
        /\ cache' = [cache EXCEPT ![s] = @ \cup {page[t]}]
    /\ Move(t, "success")
    /\ UNCHANGED <<inflight, circuit, failed, streak, serial>>

\* Scrapers that have read the failure count and not yet written it back.
Recording == {t \in Scrapers : step[t] = "failWrite"}

\* _record_success.
RecordSuccess(t) ==
    /\ step[t] = "success"
    /\ \E s \in Stores :
        /\ Calls(t, s)
        /\ circuit' = [circuit EXCEPT ![s] = [failures |-> 0, open |-> FALSE]]
        /\ serial' = (serial /\ s = Shared /\ Recording = {})
    /\ streak' = 0
    /\ Leave(t)
    /\ UNCHANGED <<inflight, cache, failed>>

\* _record_failure, the read.  The process-local circuit forgets its count when it is read
\* while closed: circuit_get takes an opened_until of zero for one that has passed.
ReadFailures(t) ==
    /\ step[t] = "failRead"
    /\ \E s \in Stores :
        LET forgets == s # Shared /\ ~circuit[s].open IN
        /\ Calls(t, s)
        /\ count' = [count EXCEPT ![t] = IF forgets THEN 0 ELSE circuit[s].failures]
        /\ circuit' = IF forgets THEN [circuit EXCEPT ![s].failures = 0] ELSE circuit
        /\ serial' = (serial /\ s = Shared /\ Recording = {})
    /\ step' = [step EXCEPT ![t] = "failWrite"]
    /\ UNCHANGED <<page, tries, inflight, cache, failed, streak, overrun>>

\* Mutant: the failed attempt counts once per attempt made so far.
CountsTries(t) ==
    /\ step[t] = "failWrite"
    /\ \E s \in Stores :
        /\ Calls(t, s)
        /\ circuit' = [circuit EXCEPT ![s] = [failures |-> count[t] + tries[t],
                                              open |-> count[t] + tries[t] >= Threshold]]
        /\ serial' = (serial /\ s = Shared)
    /\ streak' = streak + 1
    /\ Leave(t)
    /\ UNCHANGED <<inflight, cache, failed>>

\* _record_failure, the write, and the loop: another attempt, or the end.
WriteFailures(t) ==
    LET failures == count[t] + 1 IN
    /\ step[t] = "failWrite"
    /\ \E s \in Stores :
        /\ Calls(t, s)
        /\ circuit' = [circuit EXCEPT ![s] = [failures |-> failures,
                                              open |-> failures >= Threshold]]
        /\ serial' = (serial /\ s = Shared)
    /\ streak' = streak + 1
    /\ \/ /\ tries[t] < MaxAttempts
          /\ step' = [step EXCEPT ![t] = "fetch"]
          /\ tries' = [tries EXCEPT ![t] = @ + 1]
          /\ count' = [count EXCEPT ![t] = 0]
          /\ UNCHANGED <<page, overrun>>
       \/ tries[t] >= MaxAttempts /\ Leave(t)
    /\ UNCHANGED <<inflight, cache, failed>>

-----------------------------------------------------------------------------
\* The client goes away, or the worker's deadline cancels the coroutine where it waits.
Cancel(t) ==
    /\ step[t] # "idle"
    /\ Leave(t)
    /\ UNCHANGED <<inflight, cache, circuit, outages, failed, streak, serial>>

\* A process dies with its coroutines and its own store.
Die(p) ==
    LET dead == {t \in Scrapers : HostOf[t] = p} IN
    /\ \E t \in dead : step[t] # "idle"
    /\ step' = [t \in Scrapers |-> IF t \in dead THEN "idle" ELSE step[t]]
    /\ page' = [t \in Scrapers |-> IF t \in dead THEN Nobody ELSE page[t]]
    /\ tries' = [t \in Scrapers |-> IF t \in dead THEN 0 ELSE tries[t]]
    /\ count' = [t \in Scrapers |-> IF t \in dead THEN 0 ELSE count[t]]
    /\ inflight' = [inflight EXCEPT ![p] = [u \in Pages |-> Nobody]]
    /\ cache' = [cache EXCEPT ![p] = {}]
    /\ circuit' = [circuit EXCEPT ![p] = [failures |-> 0, open |-> FALSE]]
    /\ overrun' = overrun \ dead
    /\ UNCHANGED <<outages, failed, streak, serial>>

InflightExpires(s, u) ==
    LET t == inflight[s][u] IN
    /\ t # Nobody
    /\ inflight' = [inflight EXCEPT ![s][u] = Nobody]
    /\ overrun' = IF step[t] \in Fetching /\ page[t] = u THEN overrun \cup {t} ELSE overrun
    /\ UNCHANGED <<step, page, tries, count, cache, circuit, outages,
                   failed, streak, serial>>

CacheExpires(s, u) ==
    /\ u \in cache[s]
    /\ cache' = [cache EXCEPT ![s] = @ \ {u}]
    /\ UNCHANGED <<step, page, tries, count, inflight, circuit, outages,
                   failed, streak, serial, overrun>>

\* opened_until passes; in Redis the whole key expires later.
CircuitCloses(s) ==
    /\ circuit[s].open
    /\ circuit' = [circuit EXCEPT ![s].open = FALSE]
    /\ UNCHANGED <<step, page, tries, count, inflight, cache, outages,
                   failed, streak, serial, overrun>>

CircuitExpires ==
    /\ circuit[Shared].failures > 0 /\ ~circuit[Shared].open
    /\ circuit' = [circuit EXCEPT ![Shared].failures = 0]
    /\ streak' = 0
    /\ serial' = (serial /\ Recording = {})
    /\ UNCHANGED <<step, page, tries, count, inflight, cache, outages,
                   failed, overrun>>

Scrape(t) ==
    \/ ReadCache(t) \/ TakeInflight(t) \/ FoundTaken(t)
    \/ FetchOk(t) \/ FetchFails(t) \/ WriteCache(t)
    \/ RecordSuccess(t) \/ ReadFailures(t) \/ WriteFailures(t)

OnceNext ==
    \/ \E t \in Scrapers, u \in Pages, force \in BOOLEAN : Enter(t, u, force)
    \/ \E t \in Scrapers : Scrape(t) \/ Cancel(t)
    \/ \E p \in Processes : Die(p)
    \/ \E s \in Stores, u \in Pages : InflightExpires(s, u) \/ CacheExpires(s, u)
    \/ \E s \in Stores : CircuitCloses(s)
    \/ CircuitExpires

OnceSpec == OnceInit /\ [][OnceNext]_onceVars

-----------------------------------------------------------------------------
(* Properties.                                                              *)

OnceTypeOK ==
    /\ step \in [Scrapers -> {"idle"} \cup Scraping]
    /\ page \in [Scrapers -> Pages \cup {Nobody}]
    /\ tries \in [Scrapers -> 0..MaxAttempts]
    /\ count \in [Scrapers -> Nat]
    /\ inflight \in [Stores -> [Pages -> Scrapers \cup {Nobody}]]
    /\ cache \in [Stores -> SUBSET Pages]
    /\ circuit \in [Stores -> [failures : Nat, open : BOOLEAN]]
    /\ outages \in 0..MaxOutages
    /\ failed \in 0..MaxFailures /\ streak \in Nat
    /\ serial \in BOOLEAN /\ overrun \in SUBSET Scrapers

\* The in-flight key keeps two coroutines from fetching one URL at once, across processes,
\* cancellations and crashes, as long as Redis answers and the key does not expire under
\* the first of them.
OneFetchPerUrl ==
    outages = 0 =>
        \A t1, t2 \in Scrapers :
            (/\ t1 # t2 /\ page[t1] = page[t2]
             /\ step[t1] \in Fetching /\ step[t2] \in Fetching)
            => t1 \in overrun \/ t2 \in overrun

\* The circuit breaker's count is read and written in two steps and shared by all
\* coroutines: it never shows more failures than there were, whatever old count is written
\* back, and it is exact while no two updates overlap, so that it opens at its threshold.
CircuitCountsFailures ==
    /\ \A s \in Stores : circuit[s].failures <= failed
    /\ serial => circuit[Shared].failures = streak
=============================================================================
