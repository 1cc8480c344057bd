----------------------------- MODULE ScrapeJobs -----------------------------
(***************************************************************************)
(* Queued scrapes of Nanovia OS: the requests that enqueue jobs, the worker *)
(* that runs them, and the Redis keys of queue, job states and              *)
(* deduplication (api/scraping/service.py, worker.py, store.py).  Every     *)
(* call of store.py goes to Redis or, when that fails, to the memory of the *)
(* calling process: a "place".  What happens inside a scrape is the subject *)
(* of ScrapeOnce; here it ends well or not.                                 *)
(***************************************************************************)
EXTENDS Naturals, FiniteSets, SequencesExt

CONSTANTS
    Requests,      \* slots for HTTP requests to GET /scrape in mode "async"
    Workers,       \* scrape workers, one job at a time each
    Urls,          \* normalized URLs
    Jobs,          \* job identifiers (uuid4), never reused
    Api, Wrk,      \* the API process and the worker's, the same if it runs in the API
    Redis,         \* the place of every store call that succeeds
    None,
    MaxDepth,      \* SCRAPING_QUEUE_MAX_DEPTH
    MaxFaults      \* bound: how many Redis calls fail in a behaviour

ASSUME ScrapeJobsAssumption ==
    /\ MaxDepth \in Nat \ {0} /\ MaxFaults \in Nat
    /\ IsFiniteSet(Requests) /\ Requests \cap Workers = {}
    /\ None \notin Jobs \cup Urls
    /\ Redis # Api /\ Redis # Wrk

Clients == Requests \cup Workers
Places == {Redis, Api, Wrk}
ProcessOf(t) == IF t \in Requests THEN Api ELSE Wrk

Pending == {"queued", "processing"}
Finished == {"done", "failed"}

VARIABLES
    queue,      \* [Places -> Seq(Jobs)]: LPUSH at the end, BRPOP at the front
    jobs,       \* [Places -> [Jobs -> status or "none"]]: scrape:job:<id>
    made,       \* [Jobs -> the URL of the request stored with the job, or None]
    dedupe,     \* [Places -> [Urls -> Jobs or None]]: scrape:jobdedupe:<hash>
    pc, work,   \* [Clients -> control state], [Clients -> url, force, job]
    seen,       \* [Clients -> the job last read from the deduplication entry]
    faults,     \* Redis calls that have failed
    \* history
    lost,       \* jobs whose carrier died, or one of whose store calls failed
    shared,     \* clients whose enqueue or clear overlapped another such
    tainted,    \* jobs announced or cleared under such an overlap, or forgotten too early
    newest      \* [Urls -> the job last written to the deduplication entry]

jobVars == <<queue, jobs, made, dedupe, pc, work, seen, faults, lost, shared, tainted, newest>>

NoWork == [url |-> None, force |-> FALSE, job |-> None]

\* Control states of enqueue_scrape, of clear_dedupe_job, and of the worker.
Enqueuing == {"dedupe", "existing", "depth", "create", "announce", "push"}
Clearing == {"clear", "clearing"}
Working == {"start", "scrape", "timedOut"} \cup Clearing

JobsInit ==
    /\ queue = [p \in Places |-> <<>>]
    /\ jobs = [p \in Places |-> [j \in Jobs |-> "none"]]
    /\ made = [j \in Jobs |-> None]
    /\ dedupe = [p \in Places |-> [u \in Urls |-> None]]
    /\ pc = [t \in Clients |-> "idle"]
    /\ work = [t \in Clients |-> NoWork]
    /\ seen = [t \in Clients |-> None]
    /\ faults = 0
    /\ lost = {} /\ shared = {} /\ tainted = {}
    /\ newest = [u \in Urls |-> None]

-----------------------------------------------------------------------------
(* The store.  One call of a client works on one place.                     *)

At(t) == {Redis} \cup (IF faults < MaxFaults THEN {ProcessOf(t)} ELSE {})

\* Counts the failure of a call, and remembers which job it was about.
Use(p, j) ==
    /\ faults' = IF p = Redis THEN faults ELSE faults + 1
    /\ lost' = IF p = Redis \/ j = None THEN lost ELSE lost \cup {j}

\* The end of a request, or of a worker's round.
Rest(t) ==
    /\ pc' = [pc EXCEPT ![t] = "idle"]
    /\ work' = [work EXCEPT ![t] = NoWork]
    /\ seen' = [seen EXCEPT ![t] = None]
    /\ shared' = shared \ {t}

Goto(t, l) ==
    /\ pc' = [pc EXCEPT ![t] = l]
    /\ seen' = [seen EXCEPT ![t] = None]
    /\ UNCHANGED <<work, shared>>

\* Clients between the first read and the last write of a deduplication entry.
InDedupe == {t \in Clients : pc[t] \in Enqueuing \cup Clearing}

Overlap(t) == IF InDedupe = {} THEN shared ELSE shared \cup InDedupe \cup {t}

-----------------------------------------------------------------------------
(* enqueue_scrape.                                                          *)

\* A job identifier no job and no request has.
Fresh(j) == made[j] = None /\ \A t \in Clients : work[t].job # j

\* GET /scrape up to the deduplication.  A refusal (URL rules, risk score, rate limit,
\* quota, open circuit) ends the request and changes nothing modelled here.
Submit(r, u, force) ==
    /\ pc[r] = "idle"
    /\ \E j \in Jobs :
        /\ Fresh(j)
        /\ work' = [work EXCEPT ![r] = [url |-> u, force |-> force, job |-> j]]
    /\ pc' = [pc EXCEPT ![r] = IF force THEN "depth" ELSE "dedupe"]
    /\ shared' = Overlap(r)
    /\ UNCHANGED <<queue, jobs, made, dedupe, seen, faults, lost, tainted, newest>>

\* get_dedupe_job: no entry, and the request goes on to create a job.
ReadDedupe(r) ==
    /\ pc[r] = "dedupe"
    /\ \E p \in At(r) :
        LET j == dedupe[p][work[r].url] IN
        /\ Use(p, None)
        /\ pc' = [pc EXCEPT ![r] = IF j = None THEN "depth" ELSE "existing"]
        /\ seen' = [seen EXCEPT ![r] = j]
    /\ UNCHANGED <<queue, jobs, made, dedupe, work, shared, tainted, newest>>

\* Mutant: a job that is being processed is not taken for a pending one.
OnlyQueuedIsPending(r) ==
    /\ pc[r] = "existing"
    /\ \E p \in At(r) :
        /\ Use(p, None)
        /\ IF jobs[p][seen[r]] = "queued" THEN Rest(r) ELSE Goto(r, "depth")
    /\ UNCHANGED <<queue, jobs, made, dedupe, tainted, newest>>

\* get_job_state of the job found: a pending one is the answer.
ReadExisting(r) ==
    /\ pc[r] = "existing"
    /\ \E p \in At(r) :
        /\ Use(p, None)
        /\ \/ jobs[p][seen[r]] \in Pending /\ Rest(r)
           \/ jobs[p][seen[r]] \notin Pending /\ Goto(r, "depth")
    /\ UNCHANGED <<queue, jobs, made, dedupe, tainted, newest>>

\* Mutant: the depth of the queue is not checked.
DepthUnchecked(r) ==
    /\ pc[r] = "depth"
    /\ Goto(r, "create")
    /\ UNCHANGED <<queue, jobs, made, dedupe, faults, lost, tainted, newest>>

\* queue_depth: a full queue refuses the request.
CheckDepth(r) ==
    /\ pc[r] = "depth"
    /\ \E p \in At(r) :
        /\ Use(p, None)
        /\ \/ Len(queue[p]) >= MaxDepth /\ Rest(r)
           \/ Len(queue[p]) < MaxDepth /\ Goto(r, "create")
    /\ UNCHANGED <<queue, jobs, made, dedupe, tainted, newest>>

\* set_job_state with the payload of a new job.
Create(r) ==
    LET j == work[r].job IN
    /\ pc[r] = "create"
    /\ \E p \in At(r) :
        /\ Use(p, j)
        /\ jobs' = [jobs EXCEPT ![p][j] = "queued"]
    /\ made' = [made EXCEPT ![j] = work[r].url]
    /\ Goto(r, "announce")
    /\ UNCHANGED <<queue, dedupe, tainted, newest>>

\* set_dedupe_job: from here on other requests are answered with this job.
Announce(r) ==
    LET j == work[r].job IN
    /\ pc[r] = "announce"
    /\ \E p \in At(r) :
        /\ Use(p, j)
        /\ dedupe' = [dedupe EXCEPT ![p][work[r].url] = j]
    /\ newest' = [newest EXCEPT ![work[r].url] = j]
    /\ Goto(r, "push")
    /\ UNCHANGED <<queue, jobs, made, tainted>>

\* enqueue_job, and the answer.
Push(r) ==
    LET j == work[r].job IN
    /\ pc[r] = "push"
    /\ \E p \in At(r) :
        /\ Use(p, j)
        /\ queue' = [queue EXCEPT ![p] = Append(@, j)]
    /\ tainted' = IF r \in shared THEN tainted \cup {j} ELSE tainted
    /\ Rest(r)
    /\ UNCHANGED <<jobs, made, dedupe, newest>>

-----------------------------------------------------------------------------
(* The worker.  Its own circuit breaker per domain never acts: it looks for *)
(* a field "url" of the job, which set_job_state does not write.            *)

\* BRPOP: the job leaves the queue before anything is done about it.
Dequeue(w) ==
    /\ pc[w] = "idle"
    /\ \E p \in At(w) :
        /\ queue[p] # <<>>
        /\ LET j == Head(queue[p]) IN
           /\ Use(p, j)
           /\ queue' = [queue EXCEPT ![p] = Tail(@)]
           /\ work' = [work EXCEPT ![w] = [url |-> made[j], force |-> FALSE, job |-> j]]
    /\ pc' = [pc EXCEPT ![w] = "start"]
    /\ UNCHANGED <<jobs, made, dedupe, seen, shared, tainted, newest>>

\* process_job up to the scrape: a job whose state has expired is dropped.
Start(w) ==
    LET j == work[w].job IN
    /\ pc[w] = "start"
    /\ \E p \in At(w) :
        /\ Use(p, j)
        /\ \/ jobs[p][j] = "none" /\ Rest(w) /\ UNCHANGED jobs
           \/ /\ jobs[p][j] # "none"
              /\ jobs' = [jobs EXCEPT ![p][j] = "processing"]
              /\ Goto(w, "scrape")
    /\ UNCHANGED <<queue, made, dedupe, tainted, newest>>

\* Mutant: an exception of scrape_once leaves process_job without a final state.
ErrorUnhandled(w) ==
    LET j == work[w].job IN
    /\ pc[w] = "scrape"
    /\ \/ /\ \E p \in At(w) :
              /\ Use(p, j)
              /\ jobs' = [jobs EXCEPT ![p][j] = "done"]
          /\ pc' = [pc EXCEPT ![w] = "clear"]
          /\ shared' = Overlap(w)
          /\ UNCHANGED <<work, seen>>
       \/ Rest(w) /\ UNCHANGED <<jobs, faults, lost>>
    /\ UNCHANGED <<queue, made, dedupe, tainted, newest>>

\* scrape_once returned or raised: the final state of the job.
FinishJob(w) ==
    LET j == work[w].job IN
    /\ pc[w] = "scrape"
    /\ \E p \in At(w), how \in Finished :
        /\ Use(p, j)
        /\ jobs' = [jobs EXCEPT ![p][j] = how]
    /\ pc' = [pc EXCEPT ![w] = "clear"]
    /\ shared' = Overlap(w)
    /\ UNCHANGED <<queue, made, dedupe, work, seen, tainted, newest>>

\* The process-local half of clear_dedupe_job: compare and delete without a break.
ClearLocal(w, p) ==
    dedupe' = IF dedupe[p][work[w].url] = work[w].job
              THEN [dedupe EXCEPT ![p][work[w].url] = None] ELSE dedupe

\* clear_dedupe_job, the comparison: the entry of another job stays.
CompareDedupe(w) ==
    /\ pc[w] = "clear"
    /\ \E p \in At(w) :
        /\ Use(p, work[w].job)
        /\ \/ /\ p = Redis
              /\ dedupe[p][work[w].url] \in {None, work[w].job}
              /\ Goto(w, "clearing")
              /\ UNCHANGED dedupe
           \/ /\ p = Redis
              /\ dedupe[p][work[w].url] \notin {None, work[w].job}
              /\ Rest(w)
              /\ UNCHANGED dedupe
           \/ p # Redis /\ ClearLocal(w, p) /\ Rest(w)
    /\ UNCHANGED <<queue, jobs, made, tainted, newest>>

\* clear_dedupe_job, the deletion: of whatever is there by now.
DeleteDedupe(w) ==
    /\ pc[w] = "clearing"
    /\ \E p \in At(w) :
        /\ Use(p, work[w].job)
        /\ \/ p = Redis /\ dedupe' = [dedupe EXCEPT ![p][work[w].url] = None]
           \/ p # Redis /\ ClearLocal(w, p)
    /\ Rest(w)
    /\ UNCHANGED <<queue, jobs, made, tainted, newest>>

\* asyncio.timeout around process_job: the coroutine is cancelled wherever it waits, and
\* "except Exception" does not see the cancellation.
TimeOut(w) ==
    /\ pc[w] \in Working \ {"timedOut"}
    /\ Goto(w, "timedOut")
    /\ UNCHANGED <<queue, jobs, made, dedupe, faults, lost, tainted, newest>>

\* Mutant: the timeout is logged and nothing is written.
TimeoutUnrecorded(w) ==
    /\ pc[w] = "timedOut"
    /\ Rest(w)
    /\ UNCHANGED <<queue, jobs, made, dedupe, faults, lost, tainted, newest>>

\* Mutant: a timed-out job is put back to be tried again.
TimeoutRequeues(w) ==
    LET j == work[w].job IN
    /\ pc[w] = "timedOut"
    /\ \E p \in At(w) :
        /\ Use(p, j)
        /\ jobs' = IF jobs[p][j] = "none" THEN jobs ELSE [jobs EXCEPT ![p][j] = "queued"]
        /\ queue' = [queue EXCEPT ![p] = Append(@, j)]
    /\ Rest(w)
    /\ UNCHANGED <<made, dedupe, tainted, newest>>

\* Mutant: the timeout gets a status of its own.
TimeoutStatus(w) ==
    LET j == work[w].job IN
    /\ pc[w] = "timedOut"
    /\ \E p \in At(w) :
        /\ Use(p, j)
        /\ jobs' = [jobs EXCEPT ![p][j] = "worker_timeout"]
    /\ Rest(w)
    /\ UNCHANGED <<queue, made, dedupe, tainted, newest>>

\* The worker's handler of the timeout: the job failed, unless its state is gone.
FailTimedOut(w) ==
    LET j == work[w].job IN
    /\ pc[w] = "timedOut"
    /\ \E p \in At(w) :
        /\ Use(p, j)
        /\ jobs' = IF jobs[p][j] = "none" THEN jobs ELSE [jobs EXCEPT ![p][j] = "failed"]
    /\ Rest(w)
    /\ UNCHANGED <<queue, made, dedupe, tainted, newest>>

-----------------------------------------------------------------------------
(* Time and death.                                                          *)

\* A deduplication entry is written once and not renewed: it may go while its job is pending.
DedupeExpires(p, u) ==
    /\ dedupe[p][u] # None
    /\ dedupe' = [dedupe EXCEPT ![p][u] = None]
    /\ tainted' = tainted \cup {dedupe[p][u]}
    /\ UNCHANGED <<queue, jobs, made, pc, work, seen, faults, lost, shared, newest>>

JobExpires(j) ==
    /\ jobs[Redis][j] # "none"
    /\ jobs' = [jobs EXCEPT ![Redis][j] = "none"]
    /\ UNCHANGED <<queue, made, dedupe, pc, work, seen, faults, lost, shared, tainted, newest>>

\* A process dies, or is shut down with its coroutines cancelled, and starts again: these
\* and its own store are gone, Redis is not.
Crash(p) ==
    LET dead == {t \in Clients : ProcessOf(t) = p /\ pc[t] # "idle"} IN
    /\ p # Redis
    /\ dead # {}
    /\ pc' = [t \in Clients |-> IF t \in dead THEN "idle" ELSE pc[t]]
    /\ work' = [t \in Clients |-> IF t \in dead THEN NoWork ELSE work[t]]
    /\ seen' = [t \in Clients |-> IF t \in dead THEN None ELSE seen[t]]
    /\ lost' = lost \cup ToSet(queue[p])
                    \cup {j \in Jobs : made[j] # None /\ \E t \in dead : work[t].job = j}
    /\ queue' = [queue EXCEPT ![p] = <<>>]
    /\ jobs' = [jobs EXCEPT ![p] = [j \in Jobs |-> "none"]]
    /\ dedupe' = [dedupe EXCEPT ![p] = [u \in Urls |-> None]]
    /\ shared' = shared \ dead
    /\ tainted' = tainted \cup ({work[t].job : t \in dead \cap shared} \ {None})
    /\ UNCHANGED <<made, faults, newest>>

-----------------------------------------------------------------------------
Enqueue(r) ==
    ReadDedupe(r) \/ ReadExisting(r) \/ CheckDepth(r) \/ Create(r) \/ Announce(r) \/ Push(r)

Work(w) ==
    \/ Dequeue(w) \/ Start(w) \/ FinishJob(w)
    \/ CompareDedupe(w) \/ DeleteDedupe(w) \/ FailTimedOut(w)

JobsNext ==
    \/ \E r \in Requests, u \in Urls, force \in BOOLEAN : Submit(r, u, force)
    \/ \E r \in Requests : Enqueue(r)
    \/ \E w \in Workers : Work(w) \/ TimeOut(w)
    \/ \E p \in Places, u \in Urls : DedupeExpires(p, u)
    \/ \E j \in Jobs : JobExpires(j)
    \/ \E p \in {Api, Wrk} : Crash(p)

JobsSpec == JobsInit /\ [][JobsNext]_jobVars

\* Coroutines go on as long as their process lives, and every call in them ends.
\* Nothing is assumed of clients, of expiry, of the worker's deadline or of crashes.
JobsFairness ==
    /\ \A r \in Requests : WF_jobVars(Enqueue(r))
    /\ \A w \in Workers : WF_jobVars(Work(w))

-----------------------------------------------------------------------------
(* Properties.                                                              *)

\* The values the code stores: job states are those of ScrapeJobState, a queued job has a
\* stored request.
JobsTypeOK ==
    /\ queue \in [Places -> Seq(Jobs)]
    /\ \A p \in Places : \A i \in DOMAIN queue[p] : made[queue[p][i]] # None
    /\ jobs \in [Places -> [Jobs -> Pending \cup Finished \cup {"none"}]]
    /\ made \in [Jobs -> Urls \cup {None}]
    /\ dedupe \in [Places -> [Urls -> Jobs \cup {None}]]
    /\ pc \in [Clients -> {"idle"} \cup Enqueuing \cup Working]
    /\ work \in [Clients -> [url : Urls \cup {None}, force : BOOLEAN, job : Jobs \cup {None}]]
    /\ seen \in [Clients -> Jobs \cup {None}]
    /\ faults \in 0..MaxFaults
    /\ lost \in SUBSET Jobs /\ tainted \in SUBSET Jobs /\ shared \in SUBSET Clients
    /\ newest \in [Urls -> Jobs \cup {None}]

\* The depth of the queue is read several steps before the push, by every request for
\* itself: the queue grows past its limit, but only by jobs whose requests overlapped, and
\* by less than one per concurrent request (and one per failed Redis call, which may read
\* one queue's depth and push to another).
QueueBounded ==
    \A p \in Places :
        /\ Len(queue[p]) < MaxDepth + Cardinality(Requests) + faults
        /\ Len(queue[p]) > MaxDepth + faults => \E j \in tainted : j \in ToSet(queue[p])

Carries(t, j) ==
    work[t].job = j /\ pc[t] \in {"announce", "push"} \cup (Working \ Clearing)

\* A job that clients see as queued or processing is on its way: a request is still
\* enqueuing it, it is in a queue, or a worker has it; unless a process died with it or
\* Redis failed in a call about it.  Timeouts, refusals and expired keys lose no job.
PendingIsCarried ==
    \A j \in Jobs \ lost :
        jobs[Redis][j] \in Pending =>
            \/ \E t \in Clients : Carries(t, j)
            \/ \E p \in Places : j \in ToSet(queue[p])

\* What a client has been told is final stays final: a finished job is never queued or
\* processing again, even when its worker's deadline passes after it was written.
FinishedStaysFinished ==
    [][\A j \in Jobs : jobs[Redis][j] \in Finished => jobs'[Redis][j] \notin Pending]_jobVars

\* A request for a URL whose newest job is pending gets that job, and not a second one,
\* unless force_refresh asks for it or another enqueue or clear of an entry overlapped
\* its own or that of the newest job.
AloneNeverDuplicates ==
    [][\A r \in Requests :
        (/\ pc[r] = "create" /\ pc'[r] = "announce"
         /\ ~work[r].force /\ r \notin shared /\ faults' = 0)
        => LET n == newest[work[r].url] IN
           n = None \/ n \in tainted \/ jobs[Redis][n] \notin Pending]_jobVars

\* A job in the queue ends, or is forgotten, unless a process dies with it or Redis fails
\* in a call about it.
JobsEnd ==
    \A j \in Jobs :
        (jobs[Redis][j] \in Pending /\ j \notin lost)
            ~> (jobs[Redis][j] \notin Pending \/ j \in lost)
=============================================================================
