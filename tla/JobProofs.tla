------------------------------ MODULE JobProofs ------------------------------
(***************************************************************************)
(* Proofs about ScrapeJobs for any number of requests, workers, URLs and      *)
(* jobs, and any queue limit and number of Redis failures.  A job has one      *)
(* holder at a time: the request that enqueues it, one place in one queue, or  *)
(* the worker that has it (HoldInv, QueueInv).  Hence nobody else can start    *)
(* or end it (UnfinishedInv), and a job nobody holds is over or was lost       *)
(* (PendingIsCarried).  A client whose work on an entry met nobody else's is   *)
(* alone with it (AloneInv): that is what bounds the queue (DepthInv) and what *)
(* a request that finds no pending job can rely on (EntryInv, ReaderInv).      *)
(***************************************************************************)
EXTENDS ScrapeJobs, FiniteSetTheorems, SequenceTheorems, TLAPS

Before == {"dedupe", "existing", "depth", "create"}   \* the job is not stored yet
After == {"announce", "push"}

HoldInv ==
    /\ \A r \in Requests : pc[r] \in {"idle"} \cup Enqueuing
    /\ \A w \in Workers : pc[w] \in {"idle"} \cup Working
    /\ \A t \in Clients : pc[t] = "idle" <=> work[t].job = None
    /\ \A t \in Clients : pc[t] # "idle" => work[t].url \in Urls
    /\ \A t, x \in Clients : pc[t] # "idle" /\ work[t].job = work[x].job => t = x

\* A queued job is in one queue, once, and nobody has it.
QueueInv ==
    /\ \A p \in Places, t \in Clients : \A i \in DOMAIN queue[p] : work[t].job # queue[p][i]
    /\ \A p, s \in Places : \A i \in DOMAIN queue[p], k \in DOMAIN queue[s] :
         queue[p][i] = queue[s][k] => p = s /\ i = k

\* The identifier of a job is new until its state is stored.
MadeInv ==
    /\ \A j \in Jobs : made[j] = None => \A p \in Places : jobs[p][j] = "none"
    /\ \A t \in Clients : pc[t] \in Before => made[work[t].job] = None
    /\ \A t \in Clients : pc[t] \in After \cup Working => made[work[t].job] # None

UnfinishedInv ==
    /\ \A p \in Places : \A i \in DOMAIN queue[p] : jobs[Redis][queue[p][i]] \notin Finished
    /\ \A t \in Clients : pc[t] \in After \cup {"start"} =>
         jobs[Redis][work[t].job] \notin Finished

IInv == JobsTypeOK /\ HoldInv /\ QueueInv /\ MadeInv /\ UnfinishedInv /\ PendingIsCarried
-----------------------------------------------------------------------------
LEMMA InitIInv == JobsInit => IInv
<1> SUFFICES ASSUME JobsInit PROVE IInv
  OBVIOUS
<1>1. JobsTypeOK
  BY ScrapeJobsAssumption DEF JobsInit, JobsTypeOK, NoWork
<1>2. HoldInv /\ QueueInv /\ MadeInv /\ UnfinishedInv
  BY DEF JobsInit, HoldInv, QueueInv, MadeInv, UnfinishedInv, Before, After, Working, Clearing,
     Clients, Places, NoWork, Finished
<1>3. PendingIsCarried
  BY DEF JobsInit, PendingIsCarried, Pending, Places
<1> QED
  BY <1>1, <1>2, <1>3 DEF IInv

-----------------------------------------------------------------------------
(* Steps of one client that leave queues and identifiers alone.              *)

\* t goes on with its job, or is done with it.
GoesOn(t) ==
    /\ \A x \in Clients \ {t} : pc'[x] = pc[x] /\ work'[x] = work[x]
    /\ \/ pc'[t] = "idle" /\ work'[t] = NoWork
       \/ work'[t] = work[t]
          /\ \/ pc[t] \in Before /\ pc'[t] \in Before
             \/ pc[t] \in After /\ pc'[t] \in After
             \/ pc[t] \in Working /\ pc'[t] \in Working \ {"start"}
    /\ UNCHANGED <<queue, made>>

\* What a step may write of the state of a job: a final state only of the one t has.
Writes(t) ==
    /\ \A j \in Jobs : made[j] = None => \A p \in Places : jobs'[p][j] = "none"
    /\ \A j \in Jobs : jobs'[Redis][j] \in Finished =>
         \/ jobs[Redis][j] \in Finished
         \/ j = work[t].job /\ pc[t] \in Working

LEMMA GoesOnKeeps ==
    ASSUME IInv, NEW t \in Clients, pc[t] # "idle", GoesOn(t), Writes(t)
    PROVE  HoldInv' /\ QueueInv' /\ MadeInv' /\ UnfinishedInv'
<1>0. JobsTypeOK /\ HoldInv /\ QueueInv /\ MadeInv /\ UnfinishedInv
  BY DEF IInv
<1>1. \A x \in Clients : work[x].job \in Jobs \cup {None}
  BY <1>0 DEF JobsTypeOK
<1>2. Redis \in Places /\ None \notin Jobs /\ Requests \cap Workers = {}
  BY ScrapeJobsAssumption DEF Places
<1>3. /\ Before \cap After = {} /\ Before \cap Working = {} /\ After \cap Working = {}
      /\ "idle" \notin Before \cup After \cup Working /\ Enqueuing = Before \cup After
  BY DEF Before, After, Working, Clearing, Enqueuing
<1>4. HoldInv'
  BY <1>0, <1>1, <1>2, <1>3 DEF HoldInv, GoesOn, NoWork, Clients
<1>5. QueueInv'
  <2>1. \A p \in Places : \A i \in DOMAIN queue[p] : queue[p][i] # None
    BY <1>0, <1>2, ElementOfSeq DEF JobsTypeOK
  <2> QED
    BY <1>0, <2>1 DEF QueueInv, GoesOn, NoWork
<1>6. MadeInv'
  BY <1>0, <1>3 DEF MadeInv, GoesOn, Writes
<1>7. UnfinishedInv'
  <2>1. ASSUME NEW p \in Places, NEW i \in DOMAIN queue[p]
        PROVE  jobs'[Redis][queue[p][i]] \notin Finished
    <3>1. queue[p][i] \in Jobs /\ work[t].job # queue[p][i]
      BY <1>0, ElementOfSeq DEF JobsTypeOK, QueueInv
    <3> QED
      BY <1>0, <3>1 DEF UnfinishedInv, Writes
  <2>2. ASSUME NEW x \in Clients, pc'[x] \in After \cup {"start"}
        PROVE  jobs'[Redis][work'[x].job] \notin Finished
    <3>1. pc[x] \in After \cup {"start"} /\ work'[x] = work[x]
      BY <1>3, <2>2 DEF GoesOn, Working, Clearing, Before, After
    <3>2. work[x].job \in Jobs
      BY <1>0, <1>1, <1>3, <3>1 DEF HoldInv, Working
    <3>3. x = t => pc[t] \notin Working
      BY <1>3, <2>2, <3>1 DEF GoesOn, Working, Clearing, Before, After
    <3> QED
      BY <1>0, <1>3, <3>1, <3>2, <3>3 DEF UnfinishedInv, HoldInv, Writes
  <2> QED
    BY <2>1, <2>2 DEF UnfinishedInv, GoesOn
<1> QED
  BY <1>4, <1>5, <1>6, <1>7

\* The types a store call, and the end of a round, leave.
LEMMA CallTypes ==
    ASSUME JobsTypeOK, NEW t \in Clients, NEW p \in At(t), NEW j \in Jobs \cup {None}, Use(p, j)
    PROVE  /\ p \in Places /\ faults' \in 0..MaxFaults /\ lost' \in SUBSET Jobs
           /\ lost \subseteq lost' /\ (p # Redis /\ j # None => j \in lost')
BY ScrapeJobsAssumption DEF JobsTypeOK, At, Use, Places, ProcessOf

LEMMA RestTypes ==
    ASSUME JobsTypeOK, NEW t \in Clients, Rest(t)
    PROVE  /\ \A x \in Clients \ {t} : pc'[x] = pc[x] /\ work'[x] = work[x]
           /\ pc'[t] = "idle" /\ work'[t] = NoWork
           /\ pc' \in [Clients -> {"idle"} \cup Enqueuing \cup Working]
           /\ work' \in [Clients -> [url : Urls \cup {None}, force : BOOLEAN, job : Jobs \cup {None}]]
           /\ seen' \in [Clients -> Jobs \cup {None}] /\ shared' \in SUBSET Clients
<1>1. NoWork \in [url : Urls \cup {None}, force : BOOLEAN, job : Jobs \cup {None}]
  BY DEF NoWork
<1> QED
  BY <1>1 DEF JobsTypeOK, Rest

LEMMA GotoTypes ==
    ASSUME JobsTypeOK, NEW t \in Clients, NEW l \in Enqueuing \cup Working, Goto(t, l)
    PROVE  /\ \A x \in Clients \ {t} : pc'[x] = pc[x] /\ work'[x] = work[x]
           /\ pc'[t] = l /\ work'[t] = work[t]
           /\ pc' \in [Clients -> {"idle"} \cup Enqueuing \cup Working]
           /\ work' \in [Clients -> [url : Urls \cup {None}, force : BOOLEAN, job : Jobs \cup {None}]]
           /\ seen' \in [Clients -> Jobs \cup {None}] /\ shared' \in SUBSET Clients
BY DEF JobsTypeOK, Goto

LEMMA ClearTypes ==
    ASSUME JobsTypeOK, NEW t \in Clients, NEW p \in Places, work[t].url \in Urls,
           UNCHANGED dedupe \/ ClearLocal(t, p) \/ dedupe' = [dedupe EXCEPT ![p][work[t].url] = None]
    PROVE  dedupe' \in [Places -> [Urls -> Jobs \cup {None}]]
<1>1. CASE dedupe' = [dedupe EXCEPT ![p][work[t].url] = None]
  BY <1>1 DEF JobsTypeOK
<1>2. CASE UNCHANGED dedupe
  BY <1>2 DEF JobsTypeOK
<1> QED
  BY <1>1, <1>2 DEF ClearLocal

\* A pending job without carrier is lost, whatever the one client does.
LEMMA CarriedStays ==
    ASSUME IInv, NEW t \in Clients, GoesOn(t), lost \subseteq lost',
           \A j \in Jobs : jobs'[Redis][j] \in Pending =>
             jobs[Redis][j] \in Pending \/ j \in lost'
             \/ \E x \in Clients : Carries(x, j)',
           \A j \in Jobs : Carries(t, j) /\ jobs'[Redis][j] \in Pending =>
             Carries(t, j)' \/ j \in lost'
    PROVE  PendingIsCarried'
<1> SUFFICES ASSUME NEW j \in Jobs, j \notin lost', jobs'[Redis][j] \in Pending,
                    ~ \E x \in Clients : Carries(x, j)'
             PROVE  \E p \in Places : j \in ToSet(queue'[p])
  BY DEF PendingIsCarried
<1>1. jobs[Redis][j] \in Pending /\ j \notin lost
  OBVIOUS
<1>2. ASSUME NEW x \in Clients, Carries(x, j) PROVE FALSE
  <2>1. CASE x = t
    BY <1>2, <2>1
  <2>2. CASE x # t
    BY <1>2, <2>2 DEF Carries, GoesOn
  <2> QED
    BY <2>1, <2>2
<1>3. \E p \in Places : j \in ToSet(queue[p])
  BY <1>1, <1>2 DEF IInv, PendingIsCarried
<1> QED
  BY <1>3 DEF GoesOn

\* The steps that go on: all of a client's but Create, Push and Dequeue.
Onward(t) ==
    \/ t \in Requests /\ (ReadDedupe(t) \/ ReadExisting(t) \/ CheckDepth(t) \/ Announce(t))
    \/ t \in Workers /\ (Start(t) \/ FinishJob(t) \/ CompareDedupe(t) \/ DeleteDedupe(t)
                          \/ FailTimedOut(t) \/ TimeOut(t))

\* What each of them does.
LEMMA OnwardSteps ==
    ASSUME IInv, NEW t \in Clients, Onward(t)
    PROVE  /\ pc[t] # "idle" /\ GoesOn(t) /\ Writes(t) /\ JobsTypeOK' /\ lost \subseteq lost'
           /\ \A j \in Jobs : jobs'[Redis][j] \in Pending =>
                jobs[Redis][j] \in Pending \/ j \in lost'
                \/ \E x \in Clients : Carries(x, j)'
           /\ \A j \in Jobs : Carries(t, j) /\ jobs'[Redis][j] \in Pending =>
                Carries(t, j)' \/ j \in lost'
           /\ \A j \in Jobs : jobs[Redis][j] \in Finished => jobs'[Redis][j] \notin Pending
<1> DEFINE Goal ==
             /\ pc[t] # "idle" /\ GoesOn(t) /\ Writes(t) /\ JobsTypeOK' /\ lost \subseteq lost'
             /\ \A j \in Jobs : jobs'[Redis][j] \in Pending =>
                  jobs[Redis][j] \in Pending \/ j \in lost'
                  \/ \E x \in Clients : Carries(x, j)'
             /\ \A j \in Jobs : Carries(t, j) /\ jobs'[Redis][j] \in Pending =>
                  Carries(t, j)' \/ j \in lost'
             /\ \A j \in Jobs : jobs[Redis][j] \in Finished => jobs'[Redis][j] \notin Pending
<1>0. JobsTypeOK /\ HoldInv /\ QueueInv /\ MadeInv /\ UnfinishedInv
  BY DEF IInv
<1>1. /\ Redis \in Places /\ None \notin Jobs
      /\ work[t] \in [url : Urls \cup {None}, force : BOOLEAN, job : Jobs \cup {None}]
      /\ pc[t] # "idle" => work[t].job \in Jobs /\ work[t].url \in Urls
  BY <1>0, ScrapeJobsAssumption DEF Places, JobsTypeOK, HoldInv
<1>2. /\ Before \cap After = {} /\ Before \cap Working = {} /\ After \cap Working = {}
      /\ "idle" \notin Before \cup After \cup Working /\ Enqueuing = Before \cup After
      /\ Pending \cap Finished = {} /\ "none" \notin Pending \cup Finished
  BY DEF Before, After, Working, Clearing, Enqueuing, Pending, Finished
<1>3. pc[t] \in Working => made[work[t].job] # None
  BY <1>0 DEF MadeInv
<1>4. ASSUME ReadDedupe(t) PROVE Goal
  <2>1. PICK p \in At(t) :
          /\ Use(p, None)
          /\ pc' = [pc EXCEPT ![t] = IF dedupe[p][work[t].url] = None THEN "depth" ELSE "existing"]
          /\ seen' = [seen EXCEPT ![t] = dedupe[p][work[t].url]]
    BY <1>4 DEF ReadDedupe
  <2>2. p \in Places /\ faults' \in 0..MaxFaults /\ lost' \in SUBSET Jobs /\ lost \subseteq lost'
    BY <1>0, <2>1, CallTypes
  <2>3. GoesOn(t)
    BY <1>0, <1>4, <2>1 DEF ReadDedupe, GoesOn, JobsTypeOK, Before
  <2>4. UNCHANGED jobs /\ Writes(t)
    BY <1>0, <1>4 DEF ReadDedupe, Writes, MadeInv
  <2>5. seen' \in [Clients -> Jobs \cup {None}]
    BY <1>0, <1>1, <1>4, <2>1, <2>2 DEF JobsTypeOK, ReadDedupe
  <2> QED
    BY <1>0, <1>4, <2>1, <2>2, <2>3, <2>4, <2>5, <1>2 DEF ReadDedupe, JobsTypeOK, Carries,
       Enqueuing, Working, Clearing
<1>5. ASSUME ReadExisting(t) PROVE Goal
  <2>1. PICK p \in At(t) : Use(p, None) /\ (Rest(t) \/ Goto(t, "depth"))
    BY <1>5 DEF ReadExisting
  <2>2. p \in Places /\ faults' \in 0..MaxFaults /\ lost' \in SUBSET Jobs /\ lost \subseteq lost'
    BY <1>0, <2>1, CallTypes
  <2>3. GoesOn(t) /\ pc' \in [Clients -> {"idle"} \cup Enqueuing \cup Working]
        /\ work' \in [Clients -> [url : Urls \cup {None}, force : BOOLEAN, job : Jobs \cup {None}]]
        /\ seen' \in [Clients -> Jobs \cup {None}] /\ shared' \in SUBSET Clients
    BY <1>0, <1>2, <1>5, <2>1, RestTypes, GotoTypes DEF ReadExisting, GoesOn, Before
  <2>4. UNCHANGED jobs /\ Writes(t)
    BY <1>0, <1>5 DEF ReadExisting, Writes, MadeInv
  <2> QED
    BY <1>0, <1>5, <2>2, <2>3, <2>4, <1>2 DEF ReadExisting, JobsTypeOK, Carries, Working, Clearing
<1>6. ASSUME CheckDepth(t) PROVE Goal
  <2>1. PICK p \in At(t) : Use(p, None) /\ (Rest(t) \/ Goto(t, "create"))
    BY <1>6 DEF CheckDepth
  <2>2. p \in Places /\ faults' \in 0..MaxFaults /\ lost' \in SUBSET Jobs /\ lost \subseteq lost'
    BY <1>0, <2>1, CallTypes
  <2>3. GoesOn(t) /\ pc' \in [Clients -> {"idle"} \cup Enqueuing \cup Working]
        /\ work' \in [Clients -> [url : Urls \cup {None}, force : BOOLEAN, job : Jobs \cup {None}]]
        /\ seen' \in [Clients -> Jobs \cup {None}] /\ shared' \in SUBSET Clients
    BY <1>0, <1>2, <1>6, <2>1, RestTypes, GotoTypes DEF CheckDepth, GoesOn, Before
  <2>4. UNCHANGED jobs /\ Writes(t)
    BY <1>0, <1>6 DEF CheckDepth, Writes, MadeInv
  <2> QED
    BY <1>0, <1>6, <2>2, <2>3, <2>4, <1>2 DEF CheckDepth, JobsTypeOK, Carries, Working, Clearing
<1>7. ASSUME Announce(t) PROVE Goal
  <2>1. PICK p \in At(t) :
          /\ Use(p, work[t].job)
          /\ dedupe' = [dedupe EXCEPT ![p][work[t].url] = work[t].job]
    BY <1>7 DEF Announce
  <2>2. p \in Places /\ faults' \in 0..MaxFaults /\ lost' \in SUBSET Jobs /\ lost \subseteq lost'
    BY <1>0, <1>1, <2>1, CallTypes
  <2>3. GoesOn(t) /\ pc' \in [Clients -> {"idle"} \cup Enqueuing \cup Working]
        /\ work' \in [Clients -> [url : Urls \cup {None}, force : BOOLEAN, job : Jobs \cup {None}]]
        /\ seen' \in [Clients -> Jobs \cup {None}] /\ shared' \in SUBSET Clients
        /\ pc'[t] = "push" /\ work'[t] = work[t]
    BY <1>0, <1>2, <1>7, GotoTypes DEF Announce, GoesOn, After
  <2>4. UNCHANGED jobs /\ Writes(t)
    BY <1>0, <1>7 DEF Announce, Writes, MadeInv
  <2>5. work[t].job \in Jobs /\ work[t].url \in Urls
    BY <1>1, <1>7 DEF Announce
  <2>6. dedupe' \in [Places -> [Urls -> Jobs \cup {None}]] /\ newest' \in [Urls -> Jobs \cup {None}]
    BY <1>0, <1>7, <2>1, <2>2, <2>5 DEF JobsTypeOK, Announce
  <2>7. JobsTypeOK'
    BY <1>0, <1>7, <2>2, <2>3, <2>4, <2>6 DEF Announce, JobsTypeOK
  <2> QED
    BY <1>7, <2>2, <2>3, <2>4, <2>7, <1>2 DEF Announce, Carries
<1>8. ASSUME Start(t), t \in Workers PROVE Goal
  <2>1. PICK p \in At(t) :
          /\ Use(p, work[t].job)
          /\ \/ jobs[p][work[t].job] = "none" /\ Rest(t) /\ UNCHANGED jobs
             \/ /\ jobs[p][work[t].job] # "none"
                /\ jobs' = [jobs EXCEPT ![p][work[t].job] = "processing"]
                /\ Goto(t, "scrape")
    BY <1>8 DEF Start
  <2>2. work[t].job \in Jobs /\ pc[t] = "start" /\ pc[t] \in Working
    BY <1>1, <1>8 DEF Start, Working
  <2>3. p \in Places /\ faults' \in 0..MaxFaults /\ lost' \in SUBSET Jobs /\ lost \subseteq lost'
        /\ (p # Redis => work[t].job \in lost')
    BY <1>0, <1>1, <2>1, <2>2, CallTypes
  <2>4. CASE jobs[p][work[t].job] = "none" /\ Rest(t) /\ UNCHANGED jobs
    <3>1. GoesOn(t) /\ pc' \in [Clients -> {"idle"} \cup Enqueuing \cup Working]
          /\ work' \in [Clients -> [url : Urls \cup {None}, force : BOOLEAN, job : Jobs \cup {None}]]
          /\ seen' \in [Clients -> Jobs \cup {None}] /\ shared' \in SUBSET Clients
      BY <1>0, <1>8, <2>4, RestTypes DEF Start, GoesOn
    <3>2. Writes(t)
      BY <1>0, <2>4 DEF Writes, MadeInv
    <3>3. JobsTypeOK'
      BY <1>0, <1>8, <2>3, <2>4, <3>1 DEF Start, JobsTypeOK
    <3> QED
      BY <1>2, <2>2, <2>3, <2>4, <3>1, <3>2, <3>3 DEF Carries
  <2>5. CASE /\ jobs' = [jobs EXCEPT ![p][work[t].job] = "processing"]
             /\ Goto(t, "scrape")
    <3>1. GoesOn(t) /\ pc' \in [Clients -> {"idle"} \cup Enqueuing \cup Working]
          /\ work' \in [Clients -> [url : Urls \cup {None}, force : BOOLEAN, job : Jobs \cup {None}]]
          /\ seen' \in [Clients -> Jobs \cup {None}] /\ shared' \in SUBSET Clients
          /\ pc'[t] = "scrape" /\ work'[t] = work[t]
      BY <1>0, <1>8, <2>2, <2>5, GotoTypes DEF Start, GoesOn, Working
    <3>2. \A x \in Places, j \in Jobs : jobs'[x][j] =
            IF x = p /\ j = work[t].job THEN "processing" ELSE jobs[x][j]
      BY <1>0, <2>2, <2>3, <2>5 DEF JobsTypeOK
    <3>3. Writes(t)
      BY <1>0, <1>1, <1>2, <1>3, <2>2, <3>2 DEF Writes, MadeInv, Finished
    <3>4. jobs' \in [Places -> [Jobs -> Pending \cup Finished \cup {"none"}]]
      BY <1>0, <2>2, <2>3, <2>5 DEF JobsTypeOK, Pending
    <3>5. JobsTypeOK'
      BY <1>0, <1>8, <2>3, <3>1, <3>4 DEF Start, JobsTypeOK
    <3>6. \A j \in Jobs : Carries(t, j) => Carries(t, j)'
      BY <3>1 DEF Carries, Working, Clearing
    <3>7. Carries(t, work[t].job)'
      BY <3>1 DEF Carries, Working, Clearing
    <3>8. jobs[Redis][work[t].job] \notin Finished
      BY <1>0, <2>2 DEF UnfinishedInv
    <3> QED
      BY <1>1, <1>2, <2>2, <2>3, <3>1, <3>2, <3>3, <3>5, <3>6, <3>7, <3>8
  <2> QED
    BY <2>1, <2>4, <2>5
<1>9. ASSUME FinishJob(t), t \in Workers PROVE Goal
  <2>1. PICK p \in At(t), how \in Finished :
          Use(p, work[t].job) /\ jobs' = [jobs EXCEPT ![p][work[t].job] = how]
    BY <1>9 DEF FinishJob
  <2>2. work[t].job \in Jobs /\ pc[t] = "scrape" /\ pc[t] \in Working
    BY <1>1, <1>9 DEF FinishJob, Working
  <2>3. p \in Places /\ faults' \in 0..MaxFaults /\ lost' \in SUBSET Jobs /\ lost \subseteq lost'
        /\ (p # Redis => work[t].job \in lost')
    BY <1>0, <1>1, <2>1, <2>2, CallTypes
  <2>4. /\ GoesOn(t) /\ pc' \in [Clients -> {"idle"} \cup Enqueuing \cup Working]
        /\ shared' \in SUBSET Clients
    BY <1>0, <1>9, <2>2 DEF FinishJob, GoesOn, JobsTypeOK, Working, Clearing, Overlap, InDedupe
  <2>5. \A x \in Places, j \in Jobs : jobs'[x][j] =
          IF x = p /\ j = work[t].job THEN how ELSE jobs[x][j]
    BY <1>0, <2>1, <2>2, <2>3 DEF JobsTypeOK
  <2>6. Writes(t)
    BY <1>0, <1>1, <1>3, <2>2, <2>5 DEF Writes, MadeInv
  <2>7. jobs' \in [Places -> [Jobs -> Pending \cup Finished \cup {"none"}]]
    BY <1>0, <2>1, <2>2, <2>3 DEF JobsTypeOK
  <2>8. JobsTypeOK'
    BY <1>0, <1>9, <2>3, <2>4, <2>7 DEF FinishJob, JobsTypeOK
  <2>9. \A j \in Jobs : Carries(t, j) => j = work[t].job
    BY DEF Carries
  <2> QED
    BY <1>1, <1>2, <2>1, <2>2, <2>3, <2>4, <2>5, <2>6, <2>8, <2>9
<1>10. ASSUME CompareDedupe(t), t \in Workers PROVE Goal
  <2>1. PICK p \in At(t) :
          /\ Use(p, work[t].job) /\ (Goto(t, "clearing") \/ Rest(t))
          /\ dedupe' = dedupe \/ ClearLocal(t, p)
    BY <1>10 DEF CompareDedupe
  <2>2. work[t].job \in Jobs /\ work[t].url \in Urls /\ pc[t] = "clear" /\ pc[t] \in Working
    BY <1>1, <1>10 DEF CompareDedupe, Working, Clearing
  <2>3. p \in Places /\ faults' \in 0..MaxFaults /\ lost' \in SUBSET Jobs /\ lost \subseteq lost'
    BY <1>0, <1>1, <2>1, <2>2, CallTypes
  <2>4. GoesOn(t) /\ pc' \in [Clients -> {"idle"} \cup Enqueuing \cup Working]
        /\ work' \in [Clients -> [url : Urls \cup {None}, force : BOOLEAN, job : Jobs \cup {None}]]
        /\ seen' \in [Clients -> Jobs \cup {None}] /\ shared' \in SUBSET Clients
    BY <1>0, <1>10, <2>1, <2>2, RestTypes, GotoTypes DEF CompareDedupe, GoesOn, Working, Clearing
  <2>5. UNCHANGED jobs /\ Writes(t)
    BY <1>0, <1>10 DEF CompareDedupe, Writes, MadeInv
  <2>6. dedupe' \in [Places -> [Urls -> Jobs \cup {None}]]
    BY <1>0, <2>1, <2>2, <2>3, ClearTypes
  <2>7. JobsTypeOK'
    BY <1>0, <1>10, <2>3, <2>4, <2>5, <2>6 DEF CompareDedupe, JobsTypeOK
  <2> QED
    BY <1>2, <2>2, <2>3, <2>4, <2>5, <2>7 DEF Carries, Working, Clearing
<1>11. ASSUME DeleteDedupe(t), t \in Workers PROVE Goal
  <2>1. PICK p \in At(t) :
          /\ Use(p, work[t].job) /\ Rest(t)
          /\ dedupe' = [dedupe EXCEPT ![p][work[t].url] = None] \/ ClearLocal(t, p)
    BY <1>11 DEF DeleteDedupe
  <2>2. work[t].job \in Jobs /\ work[t].url \in Urls /\ pc[t] = "clearing" /\ pc[t] \in Working
    BY <1>1, <1>11 DEF DeleteDedupe, Working, Clearing
  <2>3. p \in Places /\ faults' \in 0..MaxFaults /\ lost' \in SUBSET Jobs /\ lost \subseteq lost'
    BY <1>0, <1>1, <2>1, <2>2, CallTypes
  <2>4. GoesOn(t) /\ pc' \in [Clients -> {"idle"} \cup Enqueuing \cup Working]
        /\ work' \in [Clients -> [url : Urls \cup {None}, force : BOOLEAN, job : Jobs \cup {None}]]
        /\ seen' \in [Clients -> Jobs \cup {None}] /\ shared' \in SUBSET Clients
    BY <1>0, <1>11, <2>1, RestTypes DEF DeleteDedupe, GoesOn
  <2>5. UNCHANGED jobs /\ Writes(t)
    BY <1>0, <1>11 DEF DeleteDedupe, Writes, MadeInv
  <2>6. dedupe' \in [Places -> [Urls -> Jobs \cup {None}]]
    BY <1>0, <2>1, <2>2, <2>3, ClearTypes
  <2>7. JobsTypeOK'
    BY <1>0, <1>11, <2>3, <2>4, <2>5, <2>6 DEF DeleteDedupe, JobsTypeOK
  <2> QED
    BY <1>2, <2>2, <2>3, <2>4, <2>5, <2>7 DEF Carries, Working, Clearing
<1>12. ASSUME FailTimedOut(t), t \in Workers PROVE Goal
  <2>1. PICK p \in At(t) :
          /\ Use(p, work[t].job) /\ Rest(t)
          /\ jobs' = IF jobs[p][work[t].job] = "none" THEN jobs
                     ELSE [jobs EXCEPT ![p][work[t].job] = "failed"]
    BY <1>12 DEF FailTimedOut
  <2>2. work[t].job \in Jobs /\ pc[t] = "timedOut" /\ pc[t] \in Working
    BY <1>1, <1>12 DEF FailTimedOut, Working
  <2>3. p \in Places /\ faults' \in 0..MaxFaults /\ lost' \in SUBSET Jobs /\ lost \subseteq lost'
        /\ (p # Redis => work[t].job \in lost')
    BY <1>0, <1>1, <2>1, <2>2, CallTypes
  <2>4. GoesOn(t) /\ pc' \in [Clients -> {"idle"} \cup Enqueuing \cup Working]
        /\ work' \in [Clients -> [url : Urls \cup {None}, force : BOOLEAN, job : Jobs \cup {None}]]
        /\ seen' \in [Clients -> Jobs \cup {None}] /\ shared' \in SUBSET Clients
    BY <1>0, <1>12, <2>1, RestTypes DEF FailTimedOut, GoesOn
  <2>5. \A x \in Places, j \in Jobs : jobs'[x][j] =
          IF x = p /\ j = work[t].job /\ jobs[x][j] # "none" THEN "failed" ELSE jobs[x][j]
    BY <1>0, <2>1, <2>2, <2>3 DEF JobsTypeOK
  <2>6. Writes(t)
    BY <1>0, <1>1, <1>3, <2>2, <2>5 DEF Writes, MadeInv
  <2>7. jobs' \in [Places -> [Jobs -> Pending \cup Finished \cup {"none"}]]
    BY <1>0, <2>1, <2>2, <2>3 DEF JobsTypeOK, Finished
  <2>8. JobsTypeOK'
    BY <1>0, <1>12, <2>3, <2>4, <2>7 DEF FailTimedOut, JobsTypeOK
  <2>9. \A j \in Jobs : Carries(t, j) => j = work[t].job
    BY DEF Carries
  <2>10. "failed" \notin Pending
    BY DEF Pending
  <2> QED
    BY <1>1, <1>2, <2>2, <2>3, <2>4, <2>5, <2>6, <2>8, <2>9, <2>10
<1>13. ASSUME TimeOut(t), t \in Workers PROVE Goal
  <2>1. pc[t] \in Working \ {"timedOut"} /\ Goto(t, "timedOut")
    BY <1>13 DEF TimeOut
  <2>2. GoesOn(t) /\ pc' \in [Clients -> {"idle"} \cup Enqueuing \cup Working]
        /\ work' \in [Clients -> [url : Urls \cup {None}, force : BOOLEAN, job : Jobs \cup {None}]]
        /\ seen' \in [Clients -> Jobs \cup {None}] /\ shared' \in SUBSET Clients
        /\ pc'[t] = "timedOut" /\ work'[t] = work[t]
    BY <1>0, <1>13, <2>1, GotoTypes DEF TimeOut, GoesOn, Working
  <2>3. UNCHANGED jobs /\ Writes(t)
    BY <1>0, <1>13 DEF TimeOut, Writes, MadeInv
  <2>4. JobsTypeOK'
    BY <1>0, <1>13, <2>2, <2>3 DEF TimeOut, JobsTypeOK
  <2> QED
    BY <1>2, <1>13, <2>1, <2>2, <2>3, <2>4 DEF TimeOut, Carries, Working, Clearing
<1> QED
  BY <1>4, <1>5, <1>6, <1>7, <1>8, <1>9, <1>10, <1>11, <1>12, <1>13 DEF Onward

LEMMA OnwardIInv ==
    ASSUME IInv, NEW t \in Clients, Onward(t)
    PROVE  IInv'
BY OnwardSteps, GoesOnKeeps, CarriedStays DEF IInv

-----------------------------------------------------------------------------
(* The other steps of clients.                                               *)

LEMMA SubmitStep ==
    ASSUME IInv, NEW r \in Requests, NEW u \in Urls, NEW force \in BOOLEAN, Submit(r, u, force)
    PROVE  IInv'
<1>0. JobsTypeOK /\ HoldInv /\ QueueInv /\ MadeInv /\ UnfinishedInv /\ PendingIsCarried
  BY DEF IInv
<1>1. PICK j \in Jobs :
        Fresh(j) /\ work' = [work EXCEPT ![r] = [url |-> u, force |-> force, job |-> j]]
  BY DEF Submit
<1>2. /\ r \in Clients /\ pc[r] = "idle" /\ pc'[r] \in Before \cap Enqueuing
      /\ work'[r] = [url |-> u, force |-> force, job |-> j]
      /\ \A x \in Clients \ {r} : pc'[x] = pc[x] /\ work'[x] = work[x]
      /\ UNCHANGED <<queue, jobs, made, dedupe, seen, faults, lost, tainted, newest>>
  BY <1>0, <1>1 DEF Submit, JobsTypeOK, Clients, Before, Enqueuing
<1>3. /\ made[j] = None /\ \A x \in Clients : work[x].job # j
      /\ \A p \in Places : \A i \in DOMAIN queue[p] : queue[p][i] # j
  BY <1>0, <1>1 DEF Fresh, JobsTypeOK
<1>4. j # None /\ Requests \cap Workers = {}
  BY ScrapeJobsAssumption
<1>5. JobsTypeOK'
  <2>1. pc' \in [Clients -> {"idle"} \cup Enqueuing \cup Working]
    BY <1>0, <1>2 DEF Submit, JobsTypeOK, Enqueuing
  <2>2. work' \in [Clients -> [url : Urls \cup {None}, force : BOOLEAN, job : Jobs \cup {None}]]
    BY <1>0, <1>1 DEF JobsTypeOK
  <2>3. shared' \in SUBSET Clients
    BY <1>0, <1>2 DEF Submit, JobsTypeOK, Overlap, InDedupe
  <2> QED
    BY <1>0, <1>2, <2>1, <2>2, <2>3 DEF JobsTypeOK
<1>6. HoldInv'
  BY <1>0, <1>2, <1>3, <1>4 DEF HoldInv, Clients, Before
<1>7. QueueInv'
  BY <1>0, <1>2, <1>3 DEF QueueInv
<1>8. MadeInv' /\ UnfinishedInv'
  BY <1>0, <1>2, <1>3 DEF MadeInv, UnfinishedInv, Before, After, Working, Clearing
<1>9. PendingIsCarried'
  BY <1>0, <1>2 DEF PendingIsCarried, Carries, Working, Clearing
<1> QED
  BY <1>5, <1>6, <1>7, <1>8, <1>9 DEF IInv

LEMMA CreateStep ==
    ASSUME IInv, NEW r \in Requests, Create(r)
    PROVE  /\ IInv'
           /\ \A j \in Jobs : jobs[Redis][j] \in Finished => jobs'[Redis][j] \notin Pending
<1>0. JobsTypeOK /\ HoldInv /\ QueueInv /\ MadeInv /\ UnfinishedInv /\ PendingIsCarried
  BY DEF IInv
<1> DEFINE n == work[r].job
<1>1. PICK p \in At(r) : Use(p, n) /\ jobs' = [jobs EXCEPT ![p][n] = "queued"]
  BY DEF Create
<1>2. r \in Clients /\ pc[r] = "create" /\ n \in Jobs /\ work[r].url \in Urls /\ made[n] = None
  BY <1>0 DEF Create, Clients, HoldInv, MadeInv, JobsTypeOK, Before
<1>3. /\ p \in Places /\ faults' \in 0..MaxFaults /\ lost' \in SUBSET Jobs /\ lost \subseteq lost'
      /\ (p # Redis => n \in lost')
  BY <1>0, <1>1, <1>2, CallTypes, ScrapeJobsAssumption
<1>4. /\ pc' \in [Clients -> {"idle"} \cup Enqueuing \cup Working]
      /\ work' \in [Clients -> [url : Urls \cup {None}, force : BOOLEAN, job : Jobs \cup {None}]]
      /\ seen' \in [Clients -> Jobs \cup {None}] /\ shared' \in SUBSET Clients
      /\ \A x \in Clients \ {r} : pc'[x] = pc[x] /\ work'[x] = work[x]
      /\ pc'[r] = "announce" /\ work'[r] = work[r]
  BY <1>0, <1>2, GotoTypes DEF Create, Enqueuing
<1>5. \A x \in Places, j \in Jobs : jobs'[x][j] = IF x = p /\ j = n THEN "queued" ELSE jobs[x][j]
  BY <1>0, <1>1, <1>2, <1>3 DEF JobsTypeOK
<1>6. /\ \A j \in Jobs : made'[j] = IF j = n THEN work[r].url ELSE made[j]
      /\ made' \in [Jobs -> Urls \cup {None}] /\ work[r].url # None
  BY <1>0, <1>2, ScrapeJobsAssumption DEF Create, JobsTypeOK
<1>7. JobsTypeOK'
  <2>1. jobs' \in [Places -> [Jobs -> Pending \cup Finished \cup {"none"}]]
    BY <1>0, <1>1, <1>2, <1>3 DEF JobsTypeOK, Pending
  <2>2. \A q \in Places : \A i \in DOMAIN queue'[q] : made'[queue'[q][i]] # None
    BY <1>0, <1>6, ElementOfSeq DEF JobsTypeOK, Create
  <2> QED
    BY <1>0, <1>3, <1>4, <1>6, <2>1, <2>2 DEF Create, JobsTypeOK
<1>8. HoldInv'
  BY <1>0, <1>2, <1>4, ScrapeJobsAssumption DEF HoldInv, Clients, Enqueuing
<1>9. QueueInv'
  BY <1>0, <1>4 DEF QueueInv, Create
<1>10. Redis \in Places
  BY DEF Places
<1>11. \A j \in Jobs : jobs'[Redis][j] \in Finished => jobs[Redis][j] \in Finished /\ j # n
  BY <1>0, <1>2, <1>5, <1>10 DEF MadeInv, Finished
<1>12. MadeInv'
  <2>1. \A j \in Jobs : made'[j] = None => \A x \in Places : jobs'[x][j] = "none"
    BY <1>0, <1>5, <1>6 DEF MadeInv
  <2>2. \A x \in Clients \ {r} : pc[x] # "idle" => work[x].job \in Jobs /\ work[x].job # n
    BY <1>0, <1>2 DEF HoldInv, JobsTypeOK
  <2>3. "idle" \notin Before \cup After \cup Working /\ "announce" \notin Before
    BY DEF Before, After, Working, Clearing
  <2>4. \A x \in Clients \ {r} : pc[x] # "idle" => made'[work'[x].job] = made[work[x].job]
    BY <1>4, <1>6, <2>2
  <2>5. made'[work'[r].job] # None
    BY <1>2, <1>4, <1>6
  <2>6. \A x \in Clients : pc'[x] \in Before => made'[work'[x].job] = None
    BY <1>0, <1>4, <2>3, <2>4 DEF MadeInv
  <2>7. \A x \in Clients : pc'[x] \in After \cup Working => made'[work'[x].job] # None
    BY <1>0, <1>4, <2>3, <2>4, <2>5 DEF MadeInv
  <2> QED
    BY <2>1, <2>6, <2>7 DEF MadeInv
<1>13. UnfinishedInv'
  <2>1. \A q \in Places : \A i \in DOMAIN queue[q] : queue[q][i] \in Jobs
    BY <1>0, ElementOfSeq DEF JobsTypeOK
  <2>2. \A x \in Clients : pc[x] # "idle" => work[x].job \in Jobs
    BY <1>0 DEF HoldInv, JobsTypeOK
  <2> QED
    BY <1>0, <1>2, <1>4, <1>11, <2>1, <2>2 DEF UnfinishedInv, Create, After
<1>14. PendingIsCarried'
  <2>1. \A j \in Jobs : jobs'[Redis][j] \in Pending /\ j \notin lost' =>
          \/ jobs[Redis][j] \in Pending /\ j \notin lost
          \/ Carries(r, j)'
    BY <1>2, <1>3, <1>4, <1>5, <1>10 DEF Carries
  <2>2. \A x \in Clients, j \in Jobs : Carries(x, j) => Carries(x, j)'
    BY <1>2, <1>4 DEF Carries, Working, Clearing
  <2> QED
    BY <1>0, <1>2, <2>1, <2>2 DEF PendingIsCarried, Create
<1> QED
  BY <1>5, <1>7, <1>8, <1>9, <1>10, <1>12, <1>13, <1>14, <1>0, <1>2
     DEF IInv, MadeInv, Finished, Pending

LEMMA PushStep ==
    ASSUME IInv, NEW r \in Requests, Push(r)
    PROVE  IInv'
<1>0. JobsTypeOK /\ HoldInv /\ QueueInv /\ MadeInv /\ UnfinishedInv /\ PendingIsCarried
  BY DEF IInv
<1> DEFINE n == work[r].job
<1>1. PICK p \in At(r) : Use(p, n) /\ queue' = [queue EXCEPT ![p] = Append(@, n)]
  BY DEF Push
<1>2. r \in Clients /\ pc[r] = "push" /\ n \in Jobs /\ made[n] # None /\ None \notin Jobs
  BY <1>0, ScrapeJobsAssumption DEF Push, Clients, HoldInv, MadeInv, JobsTypeOK, After
<1>3. p \in Places /\ faults' \in 0..MaxFaults /\ lost' \in SUBSET Jobs /\ lost \subseteq lost'
  BY <1>0, <1>1, <1>2, CallTypes
<1>4. /\ pc' \in [Clients -> {"idle"} \cup Enqueuing \cup Working]
      /\ work' \in [Clients -> [url : Urls \cup {None}, force : BOOLEAN, job : Jobs \cup {None}]]
      /\ seen' \in [Clients -> Jobs \cup {None}] /\ shared' \in SUBSET Clients
      /\ \A x \in Clients \ {r} : pc'[x] = pc[x] /\ work'[x] = work[x]
      /\ pc'[r] = "idle" /\ work'[r] = NoWork /\ NoWork.job = None
  <2>1. NoWork.job = None
    BY DEF NoWork
  <2> QED
    BY <1>0, <1>2, <2>1, RestTypes DEF Push
<1>5. /\ queue' \in [Places -> Seq(Jobs)]
      /\ \A q \in Places \ {p} : queue'[q] = queue[q]
      /\ queue'[p] = Append(queue[p], n)
  BY <1>0, <1>1, <1>2, <1>3 DEF JobsTypeOK
<1>6. /\ Len(queue[p]) \in Nat /\ DOMAIN queue[p] = 1..Len(queue[p])
      /\ DOMAIN queue'[p] = 1..(Len(queue[p]) + 1)
      /\ \A i \in 1..Len(queue[p]) : queue'[p][i] = queue[p][i]
      /\ queue'[p][Len(queue[p]) + 1] = n
  BY <1>0, <1>2, <1>3, <1>5, LenProperties DEF JobsTypeOK
<1>7. \A q \in Places : \A i \in DOMAIN queue'[q] :
        \/ i \in DOMAIN queue[q] /\ queue'[q][i] = queue[q][i] /\ queue[q][i] # n
        \/ q = p /\ i = Len(queue[p]) + 1 /\ queue'[q][i] = n
  BY <1>0, <1>2, <1>5, <1>6 DEF QueueInv
<1>8. JobsTypeOK'
  <2>1. tainted' \in SUBSET Jobs
    BY <1>0, <1>2 DEF Push, JobsTypeOK
  <2>2. \A q \in Places : \A i \in DOMAIN queue'[q] : made'[queue'[q][i]] # None
    BY <1>0, <1>2, <1>7 DEF Push, JobsTypeOK
  <2> QED
    BY <1>0, <1>3, <1>4, <1>5, <2>1, <2>2 DEF Push, JobsTypeOK
<1>9. HoldInv'
  BY <1>0, <1>2, <1>4 DEF HoldInv, Clients
<1>10. QueueInv'
  <2>1. \A q \in Places, t \in Clients : \A i \in DOMAIN queue'[q] : work'[t].job # queue'[q][i]
    <3>1. \A q \in Places : \A i \in DOMAIN queue[q] : queue[q][i] # None
      BY <1>0, <1>2, ElementOfSeq DEF JobsTypeOK
    <3>2. \A t \in Clients \ {r} : work[t].job # n
      BY <1>0, <1>2 DEF HoldInv
    <3> QED
      BY <1>0, <1>2, <1>4, <1>7, <3>1, <3>2 DEF QueueInv
  <2>2. \A q, s \in Places : \A i \in DOMAIN queue'[q], k \in DOMAIN queue'[s] :
          queue'[q][i] = queue'[s][k] => q = s /\ i = k
    BY <1>0, <1>7 DEF QueueInv
  <2> QED
    BY <2>1, <2>2 DEF QueueInv
<1>11. MadeInv'
  BY <1>0, <1>2, <1>4 DEF MadeInv, Push, Before, After, Working, Clearing
<1>12. UnfinishedInv'
  <2>1. jobs[Redis][n] \notin Finished
    BY <1>0, <1>2 DEF UnfinishedInv, After
  <2> QED
    BY <1>0, <1>2, <1>4, <1>7, <2>1 DEF UnfinishedInv, Push, After
<1>13. PendingIsCarried'
  <2>1. \A q \in Places, j \in Jobs : j \in ToSet(queue[q]) => j \in ToSet(queue'[q])
    <3>1. \A q \in Places : \A i \in DOMAIN queue[q] :
            i \in DOMAIN queue'[q] /\ queue'[q][i] = queue[q][i]
      BY <1>5, <1>6
    <3> QED
      BY <3>1 DEF ToSet
  <2>2. n \in ToSet(queue'[p])
    BY <1>6 DEF ToSet
  <2>3. \A x \in Clients, j \in Jobs : Carries(x, j) => Carries(x, j)' \/ j = n
    BY <1>4 DEF Carries
  <2>4. UNCHANGED jobs
    BY DEF Push
  <2> QED
    BY <1>0, <1>3, <2>1, <2>2, <2>3, <2>4 DEF PendingIsCarried
<1> QED
  BY <1>8, <1>9, <1>10, <1>11, <1>12, <1>13 DEF IInv

LEMMA DequeueStep ==
    ASSUME IInv, NEW w \in Workers, Dequeue(w)
    PROVE  IInv'
<1>0. JobsTypeOK /\ HoldInv /\ QueueInv /\ MadeInv /\ UnfinishedInv /\ PendingIsCarried
  BY DEF IInv
<1>1. PICK p \in At(w) :
        /\ queue[p] # <<>> /\ Use(p, Head(queue[p]))
        /\ queue' = [queue EXCEPT ![p] = Tail(@)]
        /\ work' = [work EXCEPT ![w] = [url |-> made[Head(queue[p])], force |-> FALSE,
                                        job |-> Head(queue[p])]]
  BY DEF Dequeue
<1> DEFINE n == Head(queue[p])
<1>2. w \in Clients /\ p \in Places /\ queue[p] \in Seq(Jobs) /\ pc[w] = "idle"
  BY <1>0, ScrapeJobsAssumption DEF Dequeue, Clients, JobsTypeOK, At, Places, ProcessOf
<1>3. /\ n \in Jobs /\ n = queue[p][1] /\ 1 \in DOMAIN queue[p] /\ Len(queue[p]) \in Nat
      /\ DOMAIN queue[p] = 1..Len(queue[p])
      /\ Tail(queue[p]) \in Seq(Jobs) /\ Len(Tail(queue[p])) = Len(queue[p]) - 1
      /\ DOMAIN Tail(queue[p]) = 1..(Len(queue[p]) - 1)
      /\ \A i \in 1..Len(Tail(queue[p])) : Tail(queue[p])[i] = queue[p][i + 1]
  BY <1>1, <1>2, HeadTailProperties, LenProperties
<1>4. faults' \in 0..MaxFaults /\ lost' \in SUBSET Jobs /\ lost \subseteq lost'
  BY <1>0, <1>1, <1>2, <1>3, CallTypes
<1>5. /\ queue' \in [Places -> Seq(Jobs)]
      /\ \A q \in Places \ {p} : queue'[q] = queue[q]
      /\ queue'[p] = Tail(queue[p])
  BY <1>0, <1>1, <1>2, <1>3 DEF JobsTypeOK
<1>6. \A q \in Places : \A i \in DOMAIN queue'[q] :
        \/ q # p /\ i \in DOMAIN queue[q] /\ queue'[q][i] = queue[q][i]
        \/ q = p /\ i \in Nat /\ i + 1 \in DOMAIN queue[q] /\ i + 1 # 1
                 /\ queue'[q][i] = queue[q][i + 1]
  <2> SUFFICES ASSUME NEW q \in Places, NEW i \in DOMAIN queue'[q], q = p
               PROVE  /\ i \in Nat /\ i + 1 \in DOMAIN queue[q] /\ i + 1 # 1
                      /\ queue'[q][i] = queue[q][i + 1]
    BY <1>5
  <2>1. i \in 1..(Len(queue[p]) - 1) /\ queue'[q][i] = Tail(queue[p])[i]
    BY <1>3, <1>5
  <2>2. i \in Nat /\ i + 1 \in 1..Len(queue[p]) /\ i + 1 # 1
    BY <1>3, <2>1
  <2> QED
    BY <1>3, <2>1, <2>2
<1>7. /\ made[n] # None /\ made[n] \in Urls /\ n # None
      /\ \A t \in Clients : work[t].job # n
      /\ jobs[Redis][n] \notin Finished
  BY <1>0, <1>2, <1>3, ScrapeJobsAssumption DEF JobsTypeOK, QueueInv, UnfinishedInv
<1>8. \A q \in Places : \A i \in DOMAIN queue'[q] : queue'[q][i] # n
  BY <1>0, <1>2, <1>3, <1>6 DEF QueueInv
<1>9. /\ \A x \in Clients \ {w} : pc'[x] = pc[x] /\ work'[x] = work[x]
      /\ pc'[w] = "start" /\ work'[w] = [url |-> made[n], force |-> FALSE, job |-> n]
      /\ pc' \in [Clients -> {"idle"} \cup Enqueuing \cup Working]
      /\ work' \in [Clients -> [url : Urls \cup {None}, force : BOOLEAN, job : Jobs \cup {None}]]
  BY <1>0, <1>1, <1>2, <1>3, <1>7 DEF Dequeue, JobsTypeOK, Working
<1>10. JobsTypeOK'
  <2>1. \A q \in Places : \A i \in DOMAIN queue'[q] : made'[queue'[q][i]] # None
    BY <1>0, <1>6 DEF Dequeue, JobsTypeOK
  <2> QED
    BY <1>0, <1>4, <1>5, <1>9, <2>1 DEF Dequeue, JobsTypeOK
<1>11. HoldInv'
  BY <1>0, <1>2, <1>7, <1>9, ScrapeJobsAssumption DEF HoldInv, Clients, Working
<1>12. QueueInv'
  <2>1. \A q \in Places, t \in Clients : \A i \in DOMAIN queue'[q] : work'[t].job # queue'[q][i]
    BY <1>0, <1>6, <1>8, <1>9 DEF QueueInv
  <2>2. \A q, s \in Places : \A i \in DOMAIN queue'[q], k \in DOMAIN queue'[s] :
          queue'[q][i] = queue'[s][k] => q = s /\ i = k
    BY <1>0, <1>6 DEF QueueInv
  <2> QED
    BY <2>1, <2>2 DEF QueueInv
<1>13. MadeInv'
  BY <1>0, <1>7, <1>9 DEF MadeInv, Dequeue, Before, After, Working, Clearing
<1>14. UnfinishedInv'
  BY <1>0, <1>6, <1>7, <1>9 DEF UnfinishedInv, Dequeue
<1>15. PendingIsCarried'
  <2>1. \A q \in Places, j \in Jobs : j \in ToSet(queue[q]) => j \in ToSet(queue'[q]) \/ j = n
    <3> SUFFICES ASSUME NEW q \in Places, NEW i \in DOMAIN queue[q], queue[q][i] # n
                 PROVE  \E k \in DOMAIN queue'[q] : queue'[q][k] = queue[q][i]
      BY DEF ToSet
    <3>1. CASE q # p
      BY <1>5, <3>1
    <3>2. CASE q = p
      <4>1. i - 1 \in DOMAIN queue'[p] /\ queue'[p][i - 1] = queue[p][i]
        BY <1>3, <1>5, <3>2
      <4> QED
        BY <3>2, <4>1
    <3> QED
      BY <3>1, <3>2
  <2>2. \A j \in Jobs : j = n => Carries(w, j)'
    BY <1>9 DEF Carries, Working, Clearing
  <2>3. \A x \in Clients, j \in Jobs : Carries(x, j) => Carries(x, j)'
    BY <1>2, <1>9 DEF Carries, Working, Clearing
  <2>4. UNCHANGED jobs
    BY DEF Dequeue
  <2> QED
    BY <1>0, <1>2, <1>4, <2>1, <2>2, <2>3, <2>4 DEF PendingIsCarried
<1> QED
  BY <1>10, <1>11, <1>12, <1>13, <1>14, <1>15 DEF IInv

-----------------------------------------------------------------------------
(* Time and death.                                                          *)

LEMMA ExpiryStep ==
    ASSUME IInv,
           \/ \E p \in Places, u \in Urls : DedupeExpires(p, u)
           \/ \E j \in Jobs : JobExpires(j)
    PROVE  /\ IInv'
           /\ \A j \in Jobs : jobs'[Redis][j] \in Pending => jobs[Redis][j] \in Pending
<1>0. JobsTypeOK /\ HoldInv /\ QueueInv /\ MadeInv /\ UnfinishedInv /\ PendingIsCarried
  BY DEF IInv
<1>1. CASE \E p \in Places, u \in Urls : DedupeExpires(p, u)
  <2>1. PICK p \in Places, u \in Urls : DedupeExpires(p, u)
    BY <1>1
  <2>2. UNCHANGED <<queue, jobs, made, pc, work, seen, faults, lost, shared, newest>>
    BY <2>1 DEF DedupeExpires
  <2>3. dedupe' \in [Places -> [Urls -> Jobs \cup {None}]] /\ tainted' \in SUBSET Jobs
    BY <1>0, <2>1 DEF DedupeExpires, JobsTypeOK
  <2>4. JobsTypeOK'
    BY <1>0, <2>2, <2>3 DEF JobsTypeOK
  <2> QED
    BY <1>0, <2>2, <2>4 DEF IInv, HoldInv, QueueInv, MadeInv, UnfinishedInv, PendingIsCarried, Carries
<1>2. CASE \E j \in Jobs : JobExpires(j)
  <2>1. PICK n \in Jobs : JobExpires(n)
    BY <1>2
  <2>2. UNCHANGED <<queue, made, dedupe, pc, work, seen, faults, lost, shared, tainted, newest>>
    BY <2>1 DEF JobExpires
  <2>3. /\ jobs' \in [Places -> [Jobs -> Pending \cup Finished \cup {"none"}]]
        /\ \A q \in Places, j \in Jobs : jobs'[q][j] = "none" \/ jobs'[q][j] = jobs[q][j]
    <3>1. Redis \in Places /\ jobs' = [jobs EXCEPT ![Redis][n] = "none"]
      BY <2>1 DEF JobExpires, Places
    <3>2. jobs \in [Places -> [Jobs -> Pending \cup Finished \cup {"none"}]]
      BY <1>0 DEF JobsTypeOK
    <3> QED
      BY <3>1, <3>2
  <2>4. JobsTypeOK'
    BY <1>0, <2>2, <2>3 DEF JobsTypeOK
  <2>5. \A j \in Jobs : /\ jobs'[Redis][j] \in Pending => jobs[Redis][j] \in Pending
                        /\ jobs'[Redis][j] \in Finished => jobs[Redis][j] \in Finished
    <3>1. Redis \in Places /\ "none" \notin Pending \cup Finished
      BY DEF Places, Pending, Finished
    <3> QED
      BY <2>3, <3>1
  <2>6. HoldInv' /\ QueueInv' /\ MadeInv' /\ PendingIsCarried'
    BY <1>0, <2>2, <2>3, <2>5 DEF HoldInv, QueueInv, MadeInv, PendingIsCarried, Carries
  <2>7. UnfinishedInv'
    <3>1. \A q \in Places : \A i \in DOMAIN queue[q] : queue[q][i] \in Jobs
      BY <1>0, ElementOfSeq DEF JobsTypeOK
    <3>2. \A x \in Clients : pc[x] \in After \cup {"start"} => work[x].job \in Jobs
      BY <1>0 DEF HoldInv, JobsTypeOK, After
    <3> QED
      BY <1>0, <2>2, <2>5, <3>1, <3>2 DEF UnfinishedInv
  <2> QED
    BY <2>4, <2>5, <2>6, <2>7 DEF IInv
<1> QED
  BY <1>1, <1>2

LEMMA CrashStep ==
    ASSUME IInv, NEW p \in {Api, Wrk}, Crash(p)
    PROVE  IInv' /\ jobs'[Redis] = jobs[Redis]
<1>0. JobsTypeOK /\ HoldInv /\ QueueInv /\ MadeInv /\ UnfinishedInv /\ PendingIsCarried
  BY DEF IInv
<1> DEFINE dead == {t \in Clients : ProcessOf(t) = p /\ pc[t] # "idle"}
<1>1. p \in Places /\ p # Redis /\ Redis \in Places /\ NoWork.job = None
  BY ScrapeJobsAssumption DEF Places, NoWork
<1>2. /\ queue' = [queue EXCEPT ![p] = <<>>]
      /\ jobs' = [jobs EXCEPT ![p] = [j \in Jobs |-> "none"]]
      /\ dedupe' = [dedupe EXCEPT ![p] = [u \in Urls |-> None]]
      /\ pc' = [t \in Clients |-> IF t \in dead THEN "idle" ELSE pc[t]]
      /\ work' = [t \in Clients |-> IF t \in dead THEN NoWork ELSE work[t]]
      /\ seen' = [t \in Clients |-> IF t \in dead THEN None ELSE seen[t]]
      /\ lost' = lost \cup ToSet(queue[p])
                      \cup {j \in Jobs : made[j] # None /\ \E t \in dead : work[t].job = j}
      /\ shared' = shared \ dead
      /\ tainted' = tainted \cup ({work[t].job : t \in dead \cap shared} \ {None})
      /\ UNCHANGED <<made, faults, newest>>
  BY DEF Crash
<1>3. \A t \in Clients :
        \/ t \in dead /\ pc'[t] = "idle" /\ work'[t] = NoWork
        \/ t \notin dead /\ pc'[t] = pc[t] /\ work'[t] = work[t]
  BY <1>2
<1>4. /\ \A q \in Places \ {p} : queue'[q] = queue[q] /\ jobs'[q] = jobs[q]
      /\ queue'[p] = <<>> /\ jobs'[p] = [j \in Jobs |-> "none"]
      /\ jobs'[Redis] = jobs[Redis]
  BY <1>0, <1>1, <1>2 DEF JobsTypeOK
<1>5. DOMAIN queue'[p] = {}
  BY <1>4
<1>6. \A q \in Places : \A i \in DOMAIN queue'[q] :
        i \in DOMAIN queue[q] /\ queue'[q][i] = queue[q][i] /\ queue[q][i] \in Jobs
  <2>1. \A q \in Places : \A i \in DOMAIN queue[q] : queue[q][i] \in Jobs
    BY <1>0, ElementOfSeq DEF JobsTypeOK
  <2> SUFFICES ASSUME NEW q \in Places, NEW i \in DOMAIN queue'[q]
               PROVE  i \in DOMAIN queue[q] /\ queue'[q][i] = queue[q][i]
    BY <2>1
  <2>2. q # p
    BY <1>5
  <2> QED
    BY <1>4, <2>2
<1>7. JobsTypeOK'
  <2>1. ToSet(queue[p]) \subseteq Jobs
    BY <1>0, <1>1, ElementOfSeq DEF JobsTypeOK, ToSet
  <2>2. /\ queue' \in [Places -> Seq(Jobs)]
        /\ jobs' \in [Places -> [Jobs -> Pending \cup Finished \cup {"none"}]]
        /\ dedupe' \in [Places -> [Urls -> Jobs \cup {None}]]
    BY <1>0, <1>1, <1>2 DEF JobsTypeOK
  <2>3. work' \in [Clients -> [url : Urls \cup {None}, force : BOOLEAN, job : Jobs \cup {None}]]
    <3>1. NoWork \in [url : Urls \cup {None}, force : BOOLEAN, job : Jobs \cup {None}]
      BY DEF NoWork
    <3> QED
      BY <1>0, <1>2, <3>1 DEF JobsTypeOK
  <2>4. pc' \in [Clients -> {"idle"} \cup Enqueuing \cup Working]
        /\ seen' \in [Clients -> Jobs \cup {None}] /\ shared' \in SUBSET Clients
    BY <1>0, <1>2 DEF JobsTypeOK
  <2>5. lost' \in SUBSET Jobs
    BY <1>0, <1>2, <2>1 DEF JobsTypeOK
  <2>6. tainted' \in SUBSET Jobs
    BY <1>0, <1>2 DEF JobsTypeOK
  <2>7. \A q \in Places : \A i \in DOMAIN queue'[q] : made'[queue'[q][i]] # None
    BY <1>0, <1>2, <1>6 DEF JobsTypeOK
  <2> QED
    BY <1>0, <1>2, <2>2, <2>3, <2>4, <2>5, <2>6, <2>7 DEF JobsTypeOK
<1>8. HoldInv'
  BY <1>0, <1>1, <1>3 DEF HoldInv, Clients
<1>9. QueueInv'
  <2>1. None \notin Jobs
    BY ScrapeJobsAssumption
  <2>2. \A q \in Places, t \in Clients : \A i \in DOMAIN queue'[q] : work'[t].job # queue'[q][i]
    BY <1>0, <1>1, <1>3, <1>6, <2>1 DEF QueueInv
  <2>3. \A q, s \in Places : \A i \in DOMAIN queue'[q], k \in DOMAIN queue'[s] :
          queue'[q][i] = queue'[s][k] => q = s /\ i = k
    BY <1>0, <1>6 DEF QueueInv
  <2> QED
    BY <2>2, <2>3 DEF QueueInv
<1>10. MadeInv'
  <2>1. \A j \in Jobs : made'[j] = None => \A q \in Places : jobs'[q][j] = "none"
    BY <1>0, <1>2, <1>4 DEF MadeInv
  <2>2. "idle" \notin Before \cup After \cup Working
    BY DEF Before, After, Working, Clearing
  <2> QED
    BY <1>0, <1>2, <1>3, <2>1, <2>2 DEF MadeInv
<1>11. UnfinishedInv'
  BY <1>0, <1>3, <1>4, <1>6 DEF UnfinishedInv, After
<1>12. PendingIsCarried'
  <2> SUFFICES ASSUME NEW j \in Jobs, j \notin lost', jobs[Redis][j] \in Pending
               PROVE  \/ \E t \in Clients : Carries(t, j)'
                      \/ \E q \in Places : j \in ToSet(queue'[q])
    BY <1>4 DEF PendingIsCarried
  <2>1. j \notin lost /\ j \notin ToSet(queue[p])
    BY <1>2
  <2>2. CASE \E t \in Clients : Carries(t, j)
    <3>1. PICK t \in Clients : Carries(t, j)
      BY <2>2
    <3>2. work[t].job = j /\ made[j] # None
      BY <1>0, <3>1 DEF Carries, MadeInv, After
    <3>3. t \notin dead
      BY <1>2, <3>2
    <3> QED
      BY <1>3, <3>1, <3>3 DEF Carries
  <2>3. CASE \E q \in Places : j \in ToSet(queue[q])
    BY <1>4, <2>1, <2>3
  <2> QED
    BY <1>0, <2>1, <2>2, <2>3 DEF PendingIsCarried
<1> QED
  BY <1>4, <1>7, <1>8, <1>9, <1>10, <1>11, <1>12 DEF IInv

-----------------------------------------------------------------------------
(* The theorems.                                                             *)

\* What every step does to the invariant, and to a final state.
LEMMA NextIInv ==
    ASSUME IInv, [JobsNext]_jobVars
    PROVE  /\ IInv'
           /\ \A j \in Jobs : jobs[Redis][j] \in Finished => jobs'[Redis][j] \notin Pending
<1> DEFINE Final == \A j \in Jobs : jobs[Redis][j] \in Finished => jobs'[Redis][j] \notin Pending
<1>0. Pending \cap Finished = {} /\ Requests \subseteq Clients /\ Workers \subseteq Clients
  BY DEF Pending, Finished, Clients
<1>1. ASSUME NEW r \in Requests, NEW u \in Urls, NEW force \in BOOLEAN, Submit(r, u, force)
      PROVE  IInv' /\ Final
  BY <1>0, <1>1, SubmitStep DEF Submit
<1>2. ASSUME NEW r \in Requests, Enqueue(r) PROVE IInv' /\ Final
  <2>1. CASE Create(r)
    BY <2>1, CreateStep
  <2>2. CASE Push(r)
    BY <1>0, <2>2, PushStep DEF Push
  <2>3. CASE ReadDedupe(r) \/ ReadExisting(r) \/ CheckDepth(r) \/ Announce(r)
    BY <1>0, <2>3, OnwardIInv, OnwardSteps DEF Onward
  <2> QED
    BY <1>2, <2>1, <2>2, <2>3 DEF Enqueue
<1>3. ASSUME NEW w \in Workers, Work(w) \/ TimeOut(w) PROVE IInv' /\ Final
  <2>1. CASE Dequeue(w)
    BY <1>0, <2>1, DequeueStep DEF Dequeue
  <2>2. CASE ~Dequeue(w)
    BY <1>0, <1>3, <2>2, OnwardIInv, OnwardSteps DEF Onward, Work
  <2> QED
    BY <2>1, <2>2
<1>4. CASE \/ \E p \in Places, u \in Urls : DedupeExpires(p, u)
           \/ \E j \in Jobs : JobExpires(j)
  BY <1>0, <1>4, ExpiryStep
<1>5. ASSUME NEW p \in {Api, Wrk}, Crash(p) PROVE IInv' /\ Final
  BY <1>0, <1>5, CrashStep
<1>6. CASE UNCHANGED jobVars
  BY <1>0, <1>6 DEF IInv, JobsTypeOK, HoldInv, QueueInv, MadeInv, UnfinishedInv, PendingIsCarried,
     Carries, jobVars
<1> QED
  BY <1>1, <1>2, <1>3, <1>4, <1>5, <1>6 DEF JobsNext

\* The inductive invariant holds throughout.
THEOREM JobsInvariance == JobsSpec => []IInv
<1>1. JobsInit => IInv
  BY InitIInv
<1>2. IInv /\ [JobsNext]_jobVars => IInv'
  BY NextIInv
<1> QED
  BY <1>1, <1>2, PTL DEF JobsSpec

\* Queue, states, entries and coroutines keep their types, and every queued job has its
\* request stored, in whatever order store calls of processes interleave and fail.
THEOREM JobsTypeCorrect == JobsSpec => []JobsTypeOK
<1>1. IInv => JobsTypeOK
  BY DEF IInv
<1> QED
  BY <1>1, JobsInvariance, PTL

\* No timeout, refusal or expiry loses a job: what is pending is queued or somebody has it,
\* unless a process died with it or Redis failed in a call about it.
THEOREM PendingAlwaysCarried == JobsSpec => []PendingIsCarried
<1>1. IInv => PendingIsCarried
  BY DEF IInv
<1> QED
  BY <1>1, JobsInvariance, PTL

\* A job a client has seen done or failed is never pending again.
THEOREM FinishedForGood == JobsSpec => FinishedStaysFinished
<1>1. IInv /\ [JobsNext]_jobVars =>
        [\A j \in Jobs : jobs[Redis][j] \in Finished => jobs'[Redis][j] \notin Pending]_jobVars
  BY NextIInv
<1> QED
  BY <1>1, JobsInvariance, PTL DEF JobsSpec, FinishedStaysFinished

-----------------------------------------------------------------------------
(* The depth of the queue, and who is alone with an entry.                   *)

\* Who is between the first read and the last write of an entry, unmarked, is the only one.
AloneInv == \A t \in InDedupe \ shared : InDedupe = {t}

\* Requests that have read the depth and not pushed, and queued jobs nobody overlapped with.
Through == {r \in Requests : pc[r] \in {"create", "announce", "push"}}
Clean == ToSet(queue[Redis]) \ tainted

DepthInv ==
    /\ \A p \in Places \ {Redis} : Len(queue[p]) <= faults
    /\ Len(queue[Redis]) + Cardinality(Through) < MaxDepth + Cardinality(Requests) + faults
    /\ Cardinality(Clean) <= MaxDepth + faults
    /\ Through \subseteq shared \/ Cardinality(Clean) < MaxDepth + faults

\* A sequence holds at most as many elements as it is long, and as many if none is twice in it.
LEMMA HeldBySeq ==
    ASSUME NEW S, NEW s \in Seq(S)
    PROVE  /\ IsFiniteSet(ToSet(s)) /\ Cardinality(ToSet(s)) \in Nat
           /\ Cardinality(ToSet(s)) <= Len(s)
           /\ (\A i, k \in DOMAIN s : s[i] = s[k] => i = k) => Cardinality(ToSet(s)) = Len(s)
<1>1. Len(s) \in Nat /\ DOMAIN s = 1..Len(s)
  OBVIOUS
<1>2. IsFiniteSet(1..Len(s)) /\ Cardinality(1..Len(s)) = Len(s)
  BY <1>1, FS_Interval
<1>3. s \in Surjection(1..Len(s), ToSet(s))
  <2>1. s \in [1..Len(s) -> ToSet(s)]
    BY <1>1 DEF ToSet
  <2>2. \A x \in ToSet(s) : \E i \in 1..Len(s) : s[i] = x
    BY <1>1 DEF ToSet
  <2> QED
    BY <2>1, <2>2 DEF Surjection
<1>4. IsFiniteSet(ToSet(s)) /\ Cardinality(ToSet(s)) <= Len(s)
      /\ (Cardinality(ToSet(s)) = Len(s) <=> s \in Injection(1..Len(s), ToSet(s)))
  BY <1>2, <1>3, FS_Surjection
<1>5. (\A i, k \in DOMAIN s : s[i] = s[k] => i = k) => s \in Injection(1..Len(s), ToSet(s))
  BY <1>1, <1>3 DEF Injection, IsInjective, Surjection
<1> QED
  BY <1>4, <1>5, FS_CardinalityType

LEMMA Sizes ==
    ASSUME JobsTypeOK
    PROVE  /\ Redis \in Places /\ MaxDepth \in Nat \ {0} /\ faults \in Nat
           /\ IsFiniteSet(Requests) /\ Cardinality(Requests) \in Nat
           /\ IsFiniteSet(Through) /\ Cardinality(Through) \in Nat
           /\ \A p \in Places : queue[p] \in Seq(Jobs) /\ Len(queue[p]) \in Nat
           /\ IsFiniteSet(ToSet(queue[Redis]))
           /\ IsFiniteSet(Clean) /\ Cardinality(Clean) \in Nat
           /\ Cardinality(Clean) <= Len(queue[Redis])
<1>1. Redis \in Places /\ MaxDepth \in Nat \ {0} /\ faults \in Nat /\ IsFiniteSet(Requests)
  BY ScrapeJobsAssumption DEF Places, JobsTypeOK
<1>2. Through \in SUBSET Requests /\ Clean \in SUBSET ToSet(queue[Redis])
  BY DEF Through, Clean
<1>3. /\ IsFiniteSet(Through) /\ Cardinality(Through) \in Nat /\ Cardinality(Requests) \in Nat
  BY <1>1, <1>2, FS_Subset, FS_CardinalityType
<1>4. \A p \in Places : queue[p] \in Seq(Jobs) /\ Len(queue[p]) \in Nat
  BY DEF JobsTypeOK
<1>5. IsFiniteSet(ToSet(queue[Redis])) /\ Cardinality(ToSet(queue[Redis])) \in Nat
      /\ Cardinality(ToSet(queue[Redis])) <= Len(queue[Redis])
  BY <1>1, <1>4, HeldBySeq
<1>6. IsFiniteSet(Clean) /\ Cardinality(Clean) <= Cardinality(ToSet(queue[Redis]))
  BY <1>2, <1>5, FS_Subset
<1>7. Cardinality(Clean) \in Nat
  BY <1>6, FS_CardinalityType
<1> QED
  BY <1>1, <1>3, <1>4, <1>5, <1>6, <1>7

\* Nobody begins to work on an entry, or somebody does and marks all it meets.
LEMMA AloneStep ==
    ASSUME AloneInv,
           \/ InDedupe' \subseteq InDedupe /\ InDedupe' \cap shared \subseteq shared'
           \/ \E t \in Clients : InDedupe' \subseteq InDedupe \cup {t} /\ shared' = Overlap(t)
    PROVE  AloneInv'
<1>1. CASE InDedupe' \subseteq InDedupe /\ InDedupe' \cap shared \subseteq shared'
  BY <1>1 DEF AloneInv
<1>2. CASE \E t \in Clients : InDedupe' \subseteq InDedupe \cup {t} /\ shared' = Overlap(t)
  BY <1>2 DEF AloneInv, Overlap
<1> QED
  BY <1>1, <1>2

\* Queues do not grow, and nobody passes the reading of the depth.
LEMMA DepthStep ==
    ASSUME JobsTypeOK, JobsTypeOK', DepthInv,
           \A p \in Places : Len(queue'[p]) <= Len(queue[p]),
           ToSet(queue'[Redis]) \subseteq ToSet(queue[Redis]),
           Through' \subseteq Through, Through' \cap shared \subseteq shared',
           tainted \subseteq tainted', faults <= faults'
    PROVE  DepthInv'
<1>1. /\ Redis \in Places /\ MaxDepth \in Nat /\ faults \in Nat
      /\ Cardinality(Requests) \in Nat
      /\ IsFiniteSet(Through) /\ Cardinality(Through) \in Nat
      /\ \A p \in Places : Len(queue[p]) \in Nat
      /\ IsFiniteSet(Clean) /\ Cardinality(Clean) \in Nat
  BY Sizes
<1>2. faults' \in Nat /\ \A p \in Places : Len(queue'[p]) \in Nat
  BY DEF JobsTypeOK
<1>3. Clean' \in SUBSET Clean /\ Through' \in SUBSET Through
  BY DEF Clean
<1>4. /\ Cardinality(Clean') <= Cardinality(Clean) /\ Cardinality(Clean') \in Nat
      /\ Cardinality(Through') <= Cardinality(Through) /\ Cardinality(Through') \in Nat
  BY <1>1, <1>3, FS_Subset, FS_CardinalityType
<1>5. \A p \in Places \ {Redis} : Len(queue'[p]) <= faults'
  BY <1>1, <1>2 DEF DepthInv
<1>6. Len(queue'[Redis]) + Cardinality(Through') < MaxDepth + Cardinality(Requests) + faults'
  BY <1>1, <1>2, <1>4 DEF DepthInv
<1>7. Cardinality(Clean') <= MaxDepth + faults'
  BY <1>1, <1>2, <1>4 DEF DepthInv
<1>8. Through' \subseteq shared' \/ Cardinality(Clean') < MaxDepth + faults'
  BY <1>1, <1>2, <1>4 DEF DepthInv
<1> QED
  BY <1>5, <1>6, <1>7, <1>8 DEF DepthInv

\* What a call counts: nothing in Redis, one failure elsewhere.
LEMMA CallCounts ==
    ASSUME JobsTypeOK, NEW p, NEW j, Use(p, j)
    PROVE  /\ faults \in Nat /\ faults' \in Nat /\ faults <= faults'
           /\ p = Redis => faults' = faults
           /\ p # Redis => faults' = faults + 1
BY DEF JobsTypeOK, Use

\* A step of one client that begins no work on an entry and passes no reading of the depth.
Quiet ==
    /\ InDedupe' \subseteq InDedupe /\ InDedupe' \cap shared \subseteq shared'
    /\ Through' \subseteq Through

LEMMA RestQuiet ==
    ASSUME JobsTypeOK, NEW t \in Clients, Rest(t)
    PROVE  Quiet /\ t \notin Through' /\ shared' = shared \ {t} /\ Through \ {t} \subseteq Through'
<1>1. pc' = [pc EXCEPT ![t] = "idle"] /\ shared' = shared \ {t}
  BY DEF Rest
<1>2. pc'[t] = "idle" /\ \A x \in Clients \ {t} : pc'[x] = pc[x]
  BY <1>1 DEF JobsTypeOK
<1>3. InDedupe' = InDedupe \ {t}
  BY <1>2 DEF InDedupe, Enqueuing, Clearing
<1>4. Through' = Through \ {t}
  BY <1>2 DEF Through, Clients
<1> QED
  BY <1>1, <1>3, <1>4 DEF Quiet

LEMMA GotoQuiet ==
    ASSUME JobsTypeOK, NEW t \in Clients, NEW l, Goto(t, l),
           l \in Enqueuing \cup Clearing => pc[t] \in Enqueuing \cup Clearing
    PROVE  /\ InDedupe' \subseteq InDedupe /\ shared' = shared
           /\ Through' \subseteq Through \cup {t}
           /\ (l \in {"create", "announce", "push"} => t \in Through) => Quiet
<1>1. pc' = [pc EXCEPT ![t] = l] /\ shared' = shared
  BY DEF Goto
<1>2. pc'[t] = l /\ \A x \in Clients \ {t} : pc'[x] = pc[x]
  BY <1>1 DEF JobsTypeOK
<1>3. InDedupe' \subseteq InDedupe
  BY <1>2 DEF InDedupe
<1>4. Through' \subseteq Through \cup {t}
  BY <1>2 DEF Through, Clients
<1>5. l \notin {"create", "announce", "push"} => t \notin Through'
  BY <1>2 DEF Through
<1> QED
  BY <1>1, <1>3, <1>4, <1>5 DEF Quiet

\* A step that begins work on an entry.
LEMMA BeginsWork ==
    ASSUME JobsTypeOK, NEW t \in Clients, NEW l, pc' = [pc EXCEPT ![t] = l],
           l \notin {"create", "announce", "push"}, shared' = Overlap(t)
    PROVE  /\ InDedupe' \subseteq InDedupe \cup {t}
           /\ Through' \subseteq Through /\ shared \subseteq shared'
<1>1. pc'[t] = l /\ \A x \in Clients \ {t} : pc'[x] = pc[x]
  BY DEF JobsTypeOK
<1> QED
  BY <1>1 DEF InDedupe, Through, Clients, Overlap

\* A request passes: the queue it read had room, or a call of it failed.
LEMMA PassStep ==
    ASSUME IInv, JobsTypeOK', DepthInv, NEW r \in Requests, CheckDepth(r)
    PROVE  DepthInv'
<1>0. JobsTypeOK /\ r \in Clients /\ pc[r] = "depth"
  BY DEF IInv, Clients, CheckDepth
<1>1. PICK p \in At(r) :
        /\ Use(p, None)
        /\ \/ Len(queue[p]) >= MaxDepth /\ Rest(r)
           \/ Len(queue[p]) < MaxDepth /\ Goto(r, "create")
  BY DEF CheckDepth
<1>2. /\ faults \in Nat /\ faults' \in Nat /\ faults <= faults'
      /\ p = Redis => faults' = faults
      /\ p # Redis => faults' = faults + 1
  BY <1>0, <1>1, CallCounts
<1>3. UNCHANGED queue /\ UNCHANGED tainted
  BY DEF CheckDepth
<1>4. /\ Redis \in Places /\ MaxDepth \in Nat
      /\ IsFiniteSet(Requests) /\ Cardinality(Requests) \in Nat
      /\ IsFiniteSet(Through) /\ Cardinality(Through) \in Nat
      /\ \A q \in Places : Len(queue[q]) \in Nat
      /\ IsFiniteSet(Clean) /\ Cardinality(Clean) \in Nat
      /\ Cardinality(Clean) <= Len(queue[Redis])
  BY <1>0, Sizes
<1>5. Clean' = Clean
  BY <1>3 DEF Clean
<1>6. CASE Rest(r)
  BY <1>0, <1>2, <1>3, <1>4, <1>6, RestQuiet, DepthStep DEF Quiet, Through, InDedupe, Enqueuing
<1>7. CASE Len(queue[p]) < MaxDepth /\ Goto(r, "create")
  <2>1. Through' \subseteq Through \cup {r} /\ shared' = shared
    BY <1>0, <1>7, GotoQuiet DEF Enqueuing
  <2>2. /\ IsFiniteSet(Through \cup {r})
        /\ Cardinality(Through \cup {r}) = IF r \in Through THEN Cardinality(Through)
                                           ELSE Cardinality(Through) + 1
    BY <1>4, FS_AddElement
  <2>3. Cardinality(Through') <= Cardinality(Through) + 1 /\ Cardinality(Through') \in Nat
    <3>1. Through' \in SUBSET (Through \cup {r})
      BY <2>1
    <3>2. IsFiniteSet(Through') /\ Cardinality(Through') <= Cardinality(Through \cup {r})
      BY <2>2, <3>1, FS_Subset
    <3> QED
      BY <1>4, <2>2, <3>2, FS_CardinalityType
  <2>4. Cardinality(Through') <= Cardinality(Requests)
    <3>1. Through' \in SUBSET Requests
      BY DEF Through
    <3> QED
      BY <1>4, <3>1, FS_Subset
  <2>5. CASE p = Redis
    BY <1>2, <1>3, <1>4, <1>5, <1>7, <2>3, <2>4, <2>5 DEF DepthInv
  <2>6. CASE p # Redis
    <3>1. faults' = faults + 1
      BY <1>2, <2>6
    <3>2. Cardinality(Clean') < MaxDepth + faults'
      BY <1>2, <1>4, <1>5, <3>1 DEF DepthInv
    <3>3. Len(queue'[Redis]) + Cardinality(Through') < MaxDepth + Cardinality(Requests) + faults'
      BY <1>2, <1>3, <1>4, <2>3, <3>1 DEF DepthInv
    <3>4. \A q \in Places \ {Redis} : Len(queue'[q]) <= faults'
      BY <1>2, <1>3, <1>4, <3>1 DEF DepthInv
    <3> QED
      BY <1>2, <1>4, <1>5, <3>2, <3>3, <3>4 DEF DepthInv
  <2> QED
    BY <2>5, <2>6
<1> QED
  BY <1>1, <1>6, <1>7

\* A push to Redis by a request that was alone uses the room it had; one elsewhere failed.
LEMMA PushDepth ==
    ASSUME IInv, JobsTypeOK', AloneInv, DepthInv, NEW r \in Requests, Push(r)
    PROVE  DepthInv'
<1>0. JobsTypeOK /\ r \in Clients /\ pc[r] = "push" /\ r \in Through /\ r \in InDedupe
  BY DEF IInv, Clients, Push, Through, InDedupe, Enqueuing
<1>1. PICK p \in At(r) :
        /\ Use(p, work[r].job)
        /\ queue' = [queue EXCEPT ![p] = Append(@, work[r].job)]
  BY DEF Push
<1>2. /\ faults \in Nat /\ faults' \in Nat /\ faults <= faults'
      /\ p = Redis => faults' = faults
      /\ p # Redis => faults' = faults + 1
  BY <1>0, <1>1, CallCounts
<1>3. /\ Rest(r) /\ p \in Places
      /\ tainted' = IF r \in shared THEN tainted \cup {work[r].job} ELSE tainted
  BY <1>0, <1>1 DEF Push, At, Places, ProcessOf
<1>4. /\ Redis \in Places /\ MaxDepth \in Nat
      /\ IsFiniteSet(Requests) /\ Cardinality(Requests) \in Nat
      /\ IsFiniteSet(Through) /\ Cardinality(Through) \in Nat
      /\ \A q \in Places : queue[q] \in Seq(Jobs) /\ Len(queue[q]) \in Nat
      /\ IsFiniteSet(Clean) /\ Cardinality(Clean) \in Nat
  BY <1>0, Sizes
<1>5. Through' = Through \ {r} /\ shared' = shared \ {r}
  BY <1>0, <1>3, RestQuiet DEF Quiet
<1>6. IsFiniteSet(Through') /\ Cardinality(Through') = Cardinality(Through) - 1
  <2>1. /\ IsFiniteSet(Through \ {r})
        /\ Cardinality(Through \ {r}) = IF r \in Through THEN Cardinality(Through) - 1
                                        ELSE Cardinality(Through)
    BY <1>4, FS_RemoveElement
  <2> QED
    BY <1>0, <1>5, <2>1
<1>7. Cardinality(Through') \in Nat
  BY <1>6, FS_CardinalityType
<1>8. Len(queue'[p]) = Len(queue[p]) + 1 /\ \A q \in Places \ {p} : queue'[q] = queue[q]
  BY <1>0, <1>1, <1>4 DEF JobsTypeOK
<1>9. Cardinality(Clean') <= MaxDepth + faults'
      /\ (Through' \subseteq shared' \/ Cardinality(Clean') < MaxDepth + faults')
  <2>1. CASE p # Redis
    <3>1. queue'[Redis] = queue[Redis]
      BY <1>0, <1>1, <1>4, <2>1 DEF JobsTypeOK
    <3>2. Clean' \in SUBSET Clean
      BY <1>3, <3>1 DEF Clean
    <3>3. Cardinality(Clean') <= Cardinality(Clean) /\ Cardinality(Clean') \in Nat
      BY <1>4, <3>2, FS_Subset, FS_CardinalityType
    <3> QED
      BY <1>2, <1>4, <2>1, <3>3 DEF DepthInv
  <2>2. CASE p = Redis
    <3>1. ToSet(queue'[Redis]) \subseteq ToSet(queue[Redis]) \cup {work[r].job}
      <4>1. queue'[Redis] = Append(queue[Redis], work[r].job)
        BY <1>0, <1>1, <1>4, <2>2 DEF JobsTypeOK
      <4> QED
        BY <1>4, <4>1 DEF ToSet
    <3>2. CASE r \in shared
      <4>1. Clean' \in SUBSET Clean
        BY <1>3, <3>1, <3>2 DEF Clean
      <4>2. Cardinality(Clean') <= Cardinality(Clean) /\ Cardinality(Clean') \in Nat
        BY <1>4, <4>1, FS_Subset, FS_CardinalityType
      <4>3. Through \subseteq shared => Through' \subseteq shared'
        BY <1>5
      <4> QED
        BY <1>2, <1>4, <2>2, <4>2, <4>3 DEF DepthInv
    <3>3. CASE r \notin shared
      <4>1. Clean' \in SUBSET (Clean \cup {work[r].job})
        BY <1>3, <3>1, <3>3 DEF Clean
      <4>2. /\ IsFiniteSet(Clean \cup {work[r].job})
            /\ Cardinality(Clean \cup {work[r].job}) <= Cardinality(Clean) + 1
            /\ Cardinality(Clean \cup {work[r].job}) \in Nat
        <5>1. /\ IsFiniteSet(Clean \cup {work[r].job})
              /\ Cardinality(Clean \cup {work[r].job}) =
                   IF work[r].job \in Clean THEN Cardinality(Clean) ELSE Cardinality(Clean) + 1
          BY <1>4, FS_AddElement
        <5> QED
          BY <1>4, <5>1
      <4>3. Cardinality(Clean') <= Cardinality(Clean) + 1 /\ Cardinality(Clean') \in Nat
        <5>1. /\ IsFiniteSet(Clean')
              /\ Cardinality(Clean') <= Cardinality(Clean \cup {work[r].job})
          BY <4>1, <4>2, FS_Subset
        <5>2. Cardinality(Clean') \in Nat
          BY <5>1, FS_CardinalityType
        <5> QED
          BY <1>4, <4>2, <5>1, <5>2
      <4>4. Cardinality(Clean) < MaxDepth + faults
        BY <1>0, <3>3 DEF DepthInv
      <4>5. InDedupe = {r}
        BY <1>0, <3>3 DEF AloneInv
      <4>6. Through \subseteq InDedupe
        BY DEF Through, InDedupe, Enqueuing, Clients
      <4>7. Through' = {}
        BY <1>5, <4>5, <4>6
      <4> QED
        BY <1>2, <1>4, <2>2, <4>3, <4>4, <4>7
    <3> QED
      BY <3>2, <3>3
  <2> QED
    BY <2>1, <2>2
<1>10. \A q \in Places \ {Redis} : Len(queue'[q]) <= faults'
  <2> SUFFICES ASSUME NEW q \in Places \ {Redis} PROVE Len(queue'[q]) <= faults'
    OBVIOUS
  <2>1. Len(queue[q]) <= faults /\ Len(queue[q]) \in Nat
    BY <1>4 DEF DepthInv
  <2>2. CASE q = p
    BY <1>2, <1>8, <2>1, <2>2
  <2>3. CASE q # p
    BY <1>2, <1>8, <2>1, <2>3
  <2> QED
    BY <2>2, <2>3
<1>11. Len(queue'[Redis]) + Cardinality(Through') < MaxDepth + Cardinality(Requests) + faults'
  <2>1. /\ Len(queue[Redis]) + Cardinality(Through) < MaxDepth + Cardinality(Requests) + faults
        /\ Len(queue[Redis]) \in Nat
    BY <1>4 DEF DepthInv
  <2>2. CASE p = Redis
    BY <1>2, <1>4, <1>6, <1>7, <1>8, <2>1, <2>2
  <2>3. CASE p # Redis
    BY <1>2, <1>4, <1>6, <1>7, <1>8, <2>1, <2>3
  <2> QED
    BY <2>2, <2>3
<1> QED
  BY <1>9, <1>10, <1>11 DEF DepthInv

LEMMA NextAlone ==
    ASSUME IInv, IInv', [JobsNext]_jobVars, AloneInv, DepthInv
    PROVE  AloneInv' /\ DepthInv'
<1>0. /\ JobsTypeOK /\ JobsTypeOK' /\ Requests \subseteq Clients /\ Workers \subseteq Clients
      /\ faults \in Nat /\ \A p \in Places : queue[p] \in Seq(Jobs) /\ Len(queue[p]) \in Nat
      /\ Redis \in Places
  BY DEF IInv, JobsTypeOK, Clients, Places
<1>1. ASSUME Quiet, UNCHANGED queue, tainted \subseteq tainted', faults <= faults'
      PROVE  AloneInv' /\ DepthInv'
  <2>1. Through' \cap shared \subseteq shared'
    BY <1>1 DEF Quiet, Through, InDedupe, Clients, Enqueuing
  <2>2. \A p \in Places : Len(queue'[p]) <= Len(queue[p])
    BY <1>0, <1>1
  <2> QED
    BY <1>0, <1>1, <2>1, <2>2, AloneStep, DepthStep DEF Quiet
<1>2. ASSUME NEW r \in Requests, NEW u \in Urls, NEW force \in BOOLEAN, Submit(r, u, force)
      PROVE  AloneInv' /\ DepthInv'
  <2>1. /\ UNCHANGED <<queue, faults, tainted>> /\ shared' = Overlap(r)
        /\ \E l : pc' = [pc EXCEPT ![r] = l] /\ l \in {"depth", "dedupe"}
    BY <1>2 DEF Submit
  <2>2. PICK l : pc' = [pc EXCEPT ![r] = l] /\ l \in {"depth", "dedupe"}
    BY <2>1
  <2>3. l \notin {"create", "announce", "push"} /\ r \in Clients
    BY <1>0, <2>2
  <2>4. /\ InDedupe' \subseteq InDedupe \cup {r}
        /\ Through' \subseteq Through /\ shared \subseteq shared'
    BY <1>0, <2>1, <2>2, <2>3, BeginsWork
  <2>5. \A p \in Places : Len(queue'[p]) <= Len(queue[p])
    BY <1>0, <2>1
  <2> QED
    BY <1>0, <2>1, <2>3, <2>4, <2>5, AloneStep, DepthStep
<1>3. ASSUME NEW r \in Requests, Enqueue(r) PROVE AloneInv' /\ DepthInv'
  <2>0. r \in Clients
    BY <1>0
  <2>1. CASE ReadDedupe(r)
    <3>1. PICK p \in At(r), l \in {"depth", "existing"} : Use(p, None) /\ pc' = [pc EXCEPT ![r] = l]
      BY <2>1 DEF ReadDedupe
    <3>2. /\ UNCHANGED <<queue, tainted, shared>> /\ r \in InDedupe
      BY <2>0, <2>1 DEF ReadDedupe, InDedupe, Enqueuing
    <3>3. pc'[r] = l /\ \A x \in Clients \ {r} : pc'[x] = pc[x]
      BY <1>0, <2>0, <3>1 DEF JobsTypeOK
    <3>4. Quiet
      BY <3>2, <3>3 DEF Quiet, InDedupe, Through, Clients
    <3> QED
      BY <1>0, <1>1, <3>1, <3>2, <3>4, CallCounts
  <2>2. CASE ReadExisting(r)
    <3>1. PICK p \in At(r) : Use(p, None) /\ (Rest(r) \/ Goto(r, "depth"))
      BY <2>2 DEF ReadExisting
    <3>2. UNCHANGED <<queue, tainted>> /\ pc[r] \in Enqueuing
      BY <2>2 DEF ReadExisting, Enqueuing
    <3>3. Quiet
      BY <1>0, <2>0, <3>1, <3>2, RestQuiet, GotoQuiet
    <3> QED
      BY <1>0, <1>1, <3>1, <3>2, <3>3, CallCounts
  <2>3. CASE CheckDepth(r)
    <3>1. Rest(r) \/ Goto(r, "create")
      BY <2>3 DEF CheckDepth
    <3>2. pc[r] \in Enqueuing
      BY <2>3 DEF CheckDepth, Enqueuing
    <3>3. InDedupe' \subseteq InDedupe /\ InDedupe' \cap shared \subseteq shared'
      BY <1>0, <2>0, <3>1, <3>2, RestQuiet, GotoQuiet DEF Quiet
    <3> QED
      BY <1>0, <2>3, <3>3, AloneStep, PassStep
  <2>4. CASE Create(r)
    <3>1. PICK p \in At(r) : Use(p, work[r].job)
      BY <2>4 DEF Create
    <3>2. /\ UNCHANGED <<queue, tainted>> /\ Goto(r, "announce")
          /\ pc[r] \in Enqueuing /\ r \in Through
      BY <2>4 DEF Create, Enqueuing, Through
    <3>3. Quiet
      BY <1>0, <2>0, <3>2, GotoQuiet
    <3> QED
      BY <1>0, <1>1, <3>1, <3>2, <3>3, CallCounts
  <2>5. CASE Announce(r)
    <3>1. PICK p \in At(r) : Use(p, work[r].job)
      BY <2>5 DEF Announce
    <3>2. /\ UNCHANGED <<queue, tainted>> /\ Goto(r, "push")
          /\ pc[r] \in Enqueuing /\ r \in Through
      BY <2>5 DEF Announce, Enqueuing, Through
    <3>3. Quiet
      BY <1>0, <2>0, <3>2, GotoQuiet
    <3> QED
      BY <1>0, <1>1, <3>1, <3>2, <3>3, CallCounts
  <2>6. CASE Push(r)
    <3>1. Rest(r)
      BY <2>6 DEF Push
    <3>2. InDedupe' \subseteq InDedupe /\ InDedupe' \cap shared \subseteq shared'
      BY <1>0, <2>0, <3>1, RestQuiet DEF Quiet
    <3> QED
      BY <1>0, <2>6, <3>2, AloneStep, PushDepth
  <2> QED
    BY <1>3, <2>1, <2>2, <2>3, <2>4, <2>5, <2>6 DEF Enqueue
<1>4. ASSUME NEW w \in Workers, Work(w) \/ TimeOut(w) PROVE AloneInv' /\ DepthInv'
  <2>0. w \in Clients
    BY <1>0
  <2>1. CASE Dequeue(w)
    <3>1. PICK p \in At(w) : /\ Use(p, Head(queue[p])) /\ queue[p] # <<>>
                             /\ queue' = [queue EXCEPT ![p] = Tail(@)]
      BY <2>1 DEF Dequeue
    <3>2. /\ UNCHANGED <<tainted, shared>>
          /\ pc' = [pc EXCEPT ![w] = "start"]
      BY <2>1 DEF Dequeue
    <3>3. pc'[w] = "start" /\ \A x \in Clients \ {w} : pc'[x] = pc[x]
      BY <1>0, <2>0, <3>2 DEF JobsTypeOK
    <3>4. InDedupe' \subseteq InDedupe /\ Through' \subseteq Through
      BY <3>3 DEF InDedupe, Through, Enqueuing, Clearing, Clients
    <3>5. p \in Places
      BY <3>1 DEF At, Places, ProcessOf
    <3>6. queue'[p] = Tail(queue[p]) /\ \A q \in Places \ {p} : queue'[q] = queue[q]
      BY <1>0, <3>1, <3>5 DEF JobsTypeOK
    <3>7. \A q \in Places : Len(queue'[q]) <= Len(queue[q])
      <4>1. Len(Tail(queue[p])) <= Len(queue[p])
        BY <1>0, <3>1, <3>5
      <4>2. Len(queue'[p]) <= Len(queue[p])
        BY <3>6, <4>1
      <4>3. \A q \in Places \ {p} : Len(queue'[q]) <= Len(queue[q])
        BY <1>0, <3>6
      <4> QED
        BY <4>2, <4>3
    <3>8. ToSet(queue'[Redis]) \subseteq ToSet(queue[Redis])
      <4>1. CASE p = Redis
        <5>1. \A i \in DOMAIN Tail(queue[p]) :
                i + 1 \in DOMAIN queue[p] /\ Tail(queue[p])[i] = queue[p][i + 1]
          BY <1>0, <3>1, <3>5
        <5>2. ToSet(Tail(queue[p])) \subseteq ToSet(queue[p])
          <6> SUFFICES ASSUME NEW i \in DOMAIN Tail(queue[p])
                       PROVE  \E k \in DOMAIN queue[p] : queue[p][k] = Tail(queue[p])[i]
            BY DEF ToSet
          <6> QED
            BY <5>1
        <5> QED
          BY <3>6, <4>1, <5>2
      <4>2. CASE p # Redis
        BY <1>0, <3>6, <4>2
      <4> QED
        BY <4>1, <4>2
    <3> QED
      BY <1>0, <3>1, <3>2, <3>4, <3>7, <3>8, AloneStep, DepthStep, CallCounts
  <2>2. CASE Start(w)
    <3>1. PICK p \in At(w) : Use(p, work[w].job) /\ (Rest(w) \/ Goto(w, "scrape"))
      BY <2>2 DEF Start
    <3>2. UNCHANGED <<queue, tainted>>
      BY <2>2 DEF Start
    <3>3. Quiet
      BY <1>0, <2>0, <3>1, RestQuiet, GotoQuiet DEF Enqueuing, Clearing
    <3> QED
      BY <1>0, <1>1, <3>1, <3>2, <3>3, CallCounts
  <2>3. CASE FinishJob(w)
    <3>1. PICK p \in At(w) : Use(p, work[w].job)
      BY <2>3 DEF FinishJob
    <3>2. /\ UNCHANGED <<queue, tainted>> /\ shared' = Overlap(w)
          /\ pc' = [pc EXCEPT ![w] = "clear"]
      BY <2>3 DEF FinishJob
    <3>3. /\ InDedupe' \subseteq InDedupe \cup {w}
          /\ Through' \subseteq Through /\ shared \subseteq shared'
      BY <1>0, <2>0, <3>2, BeginsWork
    <3>4. \A q \in Places : Len(queue'[q]) <= Len(queue[q])
      BY <1>0, <3>2
    <3> QED
      BY <1>0, <2>0, <3>1, <3>2, <3>3, <3>4, AloneStep, DepthStep, CallCounts
  <2>4. CASE CompareDedupe(w)
    <3>1. PICK p \in At(w) : Use(p, work[w].job) /\ (Rest(w) \/ Goto(w, "clearing"))
      BY <2>4 DEF CompareDedupe
    <3>2. UNCHANGED <<queue, tainted>> /\ pc[w] \in Clearing
      BY <2>4 DEF CompareDedupe, Clearing
    <3>3. Quiet
      BY <1>0, <2>0, <3>1, <3>2, RestQuiet, GotoQuiet DEF Enqueuing, Clearing
    <3> QED
      BY <1>0, <1>1, <3>1, <3>2, <3>3, CallCounts
  <2>5. CASE DeleteDedupe(w) \/ FailTimedOut(w)
    <3>1. PICK p \in At(w) : Use(p, work[w].job)
      BY <2>5 DEF DeleteDedupe, FailTimedOut
    <3>2. UNCHANGED <<queue, tainted>> /\ Rest(w)
      BY <2>5 DEF DeleteDedupe, FailTimedOut
    <3>3. Quiet
      BY <1>0, <2>0, <3>2, RestQuiet
    <3> QED
      BY <1>0, <1>1, <3>1, <3>2, <3>3, CallCounts
  <2>6. CASE TimeOut(w)
    <3>1. UNCHANGED <<queue, tainted, faults>> /\ Goto(w, "timedOut")
      BY <2>6 DEF TimeOut
    <3>2. Quiet
      BY <1>0, <2>0, <3>1, GotoQuiet DEF Enqueuing, Clearing
    <3> QED
      BY <1>0, <1>1, <3>1, <3>2
  <2> QED
    BY <1>4, <2>1, <2>2, <2>3, <2>4, <2>5, <2>6 DEF Work
<1>5. CASE (\E p \in Places, u \in Urls : DedupeExpires(p, u)) \/ \E j \in Jobs : JobExpires(j)
  <2>1. UNCHANGED <<queue, pc, faults, shared>> /\ tainted \subseteq tainted'
    BY <1>5 DEF DedupeExpires, JobExpires
  <2>2. Quiet
    BY <2>1 DEF Quiet, InDedupe, Through
  <2> QED
    BY <1>0, <1>1, <2>1, <2>2
<1>6. ASSUME NEW p \in {Api, Wrk}, Crash(p) PROVE AloneInv' /\ DepthInv'
  <2> DEFINE dead == {t \in Clients : ProcessOf(t) = p /\ pc[t] # "idle"}
  <2>1. /\ pc' = [t \in Clients |-> IF t \in dead THEN "idle" ELSE pc[t]]
        /\ queue' = [queue EXCEPT ![p] = <<>>]
        /\ shared' = shared \ dead
        /\ tainted \subseteq tainted' /\ faults' = faults /\ p # Redis
    BY <1>6 DEF Crash
  <2>2. p \in Places
    BY DEF Places
  <2>3. queue'[p] = <<>> /\ \A q \in Places \ {p} : queue'[q] = queue[q]
    BY <1>0, <2>1, <2>2 DEF JobsTypeOK
  <2>4. \A q \in Places : Len(queue'[q]) <= Len(queue[q])
    BY <1>0, <2>3
  <2>5. \A t \in Clients : IF t \in dead THEN pc'[t] = "idle" ELSE pc'[t] = pc[t]
    BY <2>1
  <2>6. /\ InDedupe' \subseteq InDedupe \ dead /\ Through' \subseteq Through \ dead
    <3>1. "idle" \notin Enqueuing \cup Clearing \cup {"create", "announce", "push"}
      BY DEF Enqueuing, Clearing
    <3> QED
      BY <1>0, <2>5, <3>1 DEF InDedupe, Through
  <2>7. queue'[Redis] = queue[Redis]
    BY <1>0, <2>1, <2>3
  <2> QED
    BY <1>0, <2>1, <2>4, <2>6, <2>7, AloneStep, DepthStep
<1>7. CASE UNCHANGED jobVars
  <2>1. UNCHANGED <<queue, pc, faults, shared, tainted>>
    BY <1>7 DEF jobVars
  <2>2. Quiet
    BY <2>1 DEF Quiet, InDedupe, Through
  <2> QED
    BY <1>0, <1>1, <2>1, <2>2
<1> QED
  BY <1>2, <1>3, <1>4, <1>5, <1>6, <1>7 DEF JobsNext

LEMMA InitAlone == JobsInit => AloneInv /\ DepthInv
<1> SUFFICES ASSUME JobsInit PROVE AloneInv /\ DepthInv
  OBVIOUS
<1>1. InDedupe = {} /\ Through = {} /\ Clean = {} /\ Redis \in Places
  BY DEF JobsInit, InDedupe, Through, Clean, Enqueuing, Clearing, ToSet, Places, Clients
<1>2. MaxDepth \in Nat \ {0} /\ Cardinality(Requests) \in Nat /\ faults = 0
  BY ScrapeJobsAssumption, FS_CardinalityType DEF JobsInit
<1>3. \A p \in Places : Len(queue[p]) = 0
  BY DEF JobsInit
<1>4. DepthInv
  BY <1>1, <1>2, <1>3, FS_EmptySet DEF DepthInv
<1> QED
  BY <1>1, <1>4 DEF AloneInv

LEMMA DepthBounds == ASSUME IInv, DepthInv PROVE QueueBounded
<1>1. /\ MaxDepth \in Nat \ {0} /\ faults \in Nat /\ Cardinality(Requests) \in Nat
      /\ Cardinality(Through) \in Nat
      /\ \A p \in Places : queue[p] \in Seq(Jobs) /\ Len(queue[p]) \in Nat
      /\ JobsTypeOK
  BY Sizes DEF IInv
<1> SUFFICES ASSUME NEW p \in Places
             PROVE  /\ Len(queue[p]) < MaxDepth + Cardinality(Requests) + faults
                    /\ Len(queue[p]) > MaxDepth + faults => \E j \in tainted : j \in ToSet(queue[p])
  BY DEF QueueBounded
<1>2. CASE p # Redis
  BY <1>1, <1>2 DEF DepthInv
<1>3. CASE p = Redis
  <2>1. Len(queue[p]) < MaxDepth + Cardinality(Requests) + faults
    BY <1>1, <1>3 DEF DepthInv
  <2>2. ASSUME Len(queue[p]) > MaxDepth + faults, ~ \E j \in tainted : j \in ToSet(queue[p])
        PROVE  FALSE
    <3>1. Clean = ToSet(queue[p])
      BY <1>3, <2>2 DEF Clean
    <3>2. \A i, k \in DOMAIN queue[p] : queue[p][i] = queue[p][k] => i = k
      BY DEF IInv, QueueInv
    <3>3. Cardinality(ToSet(queue[p])) = Len(queue[p])
      BY <1>1, <3>2, HeldBySeq
    <3> QED
      BY <1>1, <2>2, <3>1, <3>3 DEF DepthInv
  <2> QED
    BY <2>1, <2>2
<1> QED
  BY <1>2, <1>3

LEMMA AloneInvariance == JobsSpec => [](IInv /\ AloneInv /\ DepthInv)
<1>1. JobsInit => IInv /\ AloneInv /\ DepthInv
  BY InitIInv, InitAlone
<1>2. (IInv /\ AloneInv /\ DepthInv) /\ [JobsNext]_jobVars => (IInv /\ AloneInv /\ DepthInv)'
  BY NextIInv, NextAlone
<1> QED
  BY <1>1, <1>2, PTL DEF JobsSpec

\* However requests interleave between the reading of the depth and the push, the queue
\* grows past its limit only by jobs whose requests overlapped and by failed calls, and by
\* less than one per request and failure.
THEOREM QueueAlwaysBounded == JobsSpec => []QueueBounded
<1>1. IInv /\ AloneInv /\ DepthInv => QueueBounded
  BY DepthBounds
<1> QED
  BY <1>1, AloneInvariance, PTL

-----------------------------------------------------------------------------
(* What a deduplication entry says of the newest job.                        *)

\* Why a job a request did not find is none of its business: it was announced under an
\* overlap, or is about to be, or its entry expired, or it is not pending.
Excused(n) ==
    \/ n \in tainted
    \/ jobs[Redis][n] \notin Pending
    \/ \E r \in Requests \cap shared : pc[r] = "push" /\ work[r].job = n

KnownInv ==
    /\ \A u \in Urls : newest[u] # None => made[newest[u]] # None
    /\ \A p \in Places, u \in Urls : dedupe[p][u] # None => made[dedupe[p][u]] # None

\* As long as Redis has not failed, its entry is the newest job's, or that job is excused;
\* a request alone with the entry, and a worker about to delete it, still have it as read.
EntryInv ==
    \A u \in Urls : newest[u] = None \/ Excused(newest[u]) \/ dedupe[Redis][u] = newest[u]

ReaderInv ==
    \A r \in Requests \ shared :
        /\ pc[r] \in {"depth", "create"} /\ ~work[r].force =>
             dedupe[Redis][work[r].url] = None \/ Excused(dedupe[Redis][work[r].url])
        /\ pc[r] = "existing" => dedupe[Redis][work[r].url] \in {None, seen[r]}

ClearerInv ==
    \A w \in Workers :
        /\ pc[w] \in Clearing => jobs[Redis][work[w].job] \notin Pending
        /\ pc[w] = "clearing" =>
             \/ dedupe[Redis][work[w].url] \in {None, work[w].job}
             \/ Excused(dedupe[Redis][work[w].url])

UnfailedInv == faults = 0 => EntryInv /\ ReaderInv /\ ClearerInv

-----------------------------------------------------------------------------
\* What one step is for one client: its own, none of its business, or its death.
Acts(t) ==
    \/ t \in Requests /\ Enqueue(t)
    \/ t \in Requests /\ \E u \in Urls, force \in BOOLEAN : Submit(t, u, force)
    \/ t \in Workers /\ (Work(t) \/ TimeOut(t))

Stays(t) ==
    /\ pc'[t] = pc[t] /\ work'[t] = work[t] /\ seen'[t] = seen[t]
    /\ t \in shared => t \in shared'

Dies(t) == pc'[t] = "idle" /\ (t \in shared /\ pc[t] # "idle" => work[t].job \in tainted')

LEMMA RestFrame ==
    ASSUME JobsTypeOK, NEW t \in Clients, Rest(t), NEW x \in Clients \ {t} PROVE Stays(x)
BY DEF Rest, Stays, JobsTypeOK

LEMMA GotoFrame ==
    ASSUME JobsTypeOK, NEW t \in Clients, NEW l, Goto(t, l), NEW x \in Clients \ {t} PROVE Stays(x)
BY DEF Goto, Stays, JobsTypeOK

LEMMA ActsFrame ==
    ASSUME JobsTypeOK, NEW t \in Clients, Acts(t), NEW x \in Clients \ {t} PROVE Stays(x)
<1>1. CASE Rest(t) \/ \E l : Goto(t, l)
  BY <1>1, RestFrame, GotoFrame
<1>2. CASE \E u \in Urls, force \in BOOLEAN : Submit(t, u, force)
  BY <1>2 DEF Submit, Stays, JobsTypeOK, Overlap
<1>3. CASE ReadDedupe(t)
  BY <1>3 DEF ReadDedupe, Stays, JobsTypeOK
<1>4. CASE Dequeue(t)
  BY <1>4 DEF Dequeue, Stays, JobsTypeOK
<1>5. CASE FinishJob(t)
  BY <1>5 DEF FinishJob, Stays, JobsTypeOK, Overlap
<1>6. CASE \/ ReadExisting(t) \/ CheckDepth(t) \/ Create(t) \/ Announce(t) \/ Push(t)
           \/ Start(t) \/ CompareDedupe(t) \/ DeleteDedupe(t) \/ FailTimedOut(t) \/ TimeOut(t)
  BY <1>1, <1>6 DEF ReadExisting, CheckDepth, Create, Announce, Push, Start, CompareDedupe,
     DeleteDedupe, FailTimedOut, TimeOut
<1> QED
  BY <1>2, <1>3, <1>4, <1>5, <1>6 DEF Acts, Enqueue, Work

LEMMA CrashFrame ==
    ASSUME IInv, NEW p \in {Api, Wrk}, Crash(p), NEW x \in Clients PROVE Stays(x) \/ Dies(x)
<1> DEFINE dead == {t \in Clients : ProcessOf(t) = p /\ pc[t] # "idle"}
<1>1. /\ pc' = [t \in Clients |-> IF t \in dead THEN "idle" ELSE pc[t]]
      /\ work' = [t \in Clients |-> IF t \in dead THEN NoWork ELSE work[t]]
      /\ seen' = [t \in Clients |-> IF t \in dead THEN None ELSE seen[t]]
      /\ shared' = shared \ dead
      /\ tainted' = tainted \cup ({work[t].job : t \in dead \cap shared} \ {None})
  BY DEF Crash
<1>2. CASE x \in dead
  <2>1. work[x].job # None
    BY <1>2 DEF IInv, HoldInv
  <2> QED
    BY <1>1, <1>2, <2>1 DEF Dies
<1>3. CASE x \notin dead
  BY <1>1, <1>3 DEF Stays
<1> QED
  BY <1>2, <1>3

LEMMA Frame ==
    ASSUME IInv, [JobsNext]_jobVars, NEW x \in Clients
    PROVE  Acts(x) \/ Stays(x) \/ Dies(x)
<1>0. JobsTypeOK /\ Requests \subseteq Clients /\ Workers \subseteq Clients
  BY DEF IInv, Clients
<1>1. CASE \E t \in Clients : Acts(t)
  BY <1>0, <1>1, ActsFrame
<1>2. CASE \/ \E p \in Places, u \in Urls : DedupeExpires(p, u)
           \/ \E j \in Jobs : JobExpires(j)
           \/ UNCHANGED jobVars
  BY <1>2 DEF DedupeExpires, JobExpires, jobVars, Stays
<1>3. CASE \E p \in {Api, Wrk} : Crash(p)
  BY <1>3, CrashFrame
<1> QED
  BY <1>0, <1>1, <1>2, <1>3 DEF JobsNext, Acts

\* Nothing makes pending again what is not.
LEMMA NotRevived ==
    ASSUME IInv, [JobsNext]_jobVars, NEW n \in Jobs, made[n] # None, jobs[Redis][n] \notin Pending
    PROVE  made'[n] # None /\ jobs'[Redis][n] \notin Pending
<1>0. /\ JobsTypeOK /\ HoldInv /\ MadeInv /\ UnfinishedInv /\ Redis \in Places
      /\ Requests \subseteq Clients /\ Workers \subseteq Clients
      /\ "none" \notin Pending /\ Finished \cap Pending = {}
      /\ None \notin Urls
  BY ScrapeJobsAssumption DEF IInv, Places, Clients, Pending, Finished
<1>1. CASE \E r \in Requests : Create(r)
  <2>1. PICK r \in Requests : Create(r)
    BY <1>1
  <2>0. PICK p \in At(r) :
          /\ pc[r] = "create" /\ jobs' = [jobs EXCEPT ![p][work[r].job] = "queued"]
          /\ made' = [made EXCEPT ![work[r].job] = work[r].url]
    BY <2>1 DEF Create
  <2>2. work[r].job # n
    BY <1>0, <2>0 DEF MadeInv, Before
  <2> QED
    BY <1>0, <2>0, <2>2 DEF JobsTypeOK
<1>2. CASE \E w \in Workers : Start(w)
  <2>1. PICK w \in Workers : Start(w)
    BY <1>2
  <2>0. PICK p \in At(w) :
          /\ pc[w] = "start"
          /\ \/ UNCHANGED jobs
             \/ /\ jobs[p][work[w].job] # "none"
                /\ jobs' = [jobs EXCEPT ![p][work[w].job] = "processing"]
    BY <2>1 DEF Start
  <2>2. UNCHANGED made
    BY <2>1 DEF Start
  <2>3. jobs[Redis][work[w].job] \notin Finished
    BY <1>0, <2>0 DEF UnfinishedInv
  <2>4. p = Redis /\ work[w].job = n => jobs[p][work[w].job] = "none"
    BY <1>0, <2>3 DEF JobsTypeOK
  <2> QED
    BY <1>0, <2>0, <2>2, <2>4 DEF JobsTypeOK
<1>3. CASE \E w \in Workers : FinishJob(w) \/ FailTimedOut(w)
  <2>1. PICK w \in Workers : FinishJob(w) \/ FailTimedOut(w)
    BY <1>3
  <2>0. \E p \in At(w), how \in Finished :
          jobs' = jobs \/ jobs' = [jobs EXCEPT ![p][work[w].job] = how]
    BY <2>1 DEF FinishJob, FailTimedOut, Finished
  <2>2. UNCHANGED made
    BY <2>1 DEF FinishJob, FailTimedOut
  <2>3. PICK p \in At(w), how \in Finished :
          jobs' = jobs \/ jobs' = [jobs EXCEPT ![p][work[w].job] = how]
    BY <2>0
  <2>4. jobs'[Redis][n] = jobs[Redis][n] \/ jobs'[Redis][n] = how
    <3>1. jobs \in [Places -> [Jobs -> Pending \cup Finished \cup {"none"}]]
      BY <1>0 DEF JobsTypeOK
    <3>2. CASE p = Redis
      BY <1>0, <2>3, <3>1, <3>2
    <3>3. CASE p # Redis
      BY <1>0, <2>3, <3>1, <3>3
    <3> QED
      BY <3>2, <3>3
  <2> QED
    BY <1>0, <2>2, <2>4
<1>4. CASE \E j \in Jobs : JobExpires(j)
  BY <1>0, <1>4 DEF JobExpires, JobsTypeOK
<1>5. CASE \E p \in {Api, Wrk} : Crash(p)
  BY <1>0, <1>5 DEF Crash, JobsTypeOK
<1>6. CASE UNCHANGED <<jobs, made>>
  BY <1>6
<1>7. \/ \E r \in Requests : Create(r)
      \/ \E w \in Workers : Start(w)
      \/ \E w \in Workers : FinishJob(w) \/ FailTimedOut(w)
      \/ \E j \in Jobs : JobExpires(j)
      \/ \E p \in {Api, Wrk} : Crash(p)
      \/ UNCHANGED <<jobs, made>>
  BY DEF JobsNext, Submit, Enqueue, ReadDedupe, ReadExisting, CheckDepth, Announce, Push, Work,
     Dequeue, CompareDedupe, DeleteDedupe, TimeOut, DedupeExpires, jobVars
<1> QED
  BY <1>1, <1>2, <1>3, <1>4, <1>5, <1>6, <1>7

LEMMA TaintGrows ==
    ASSUME [JobsNext]_jobVars PROVE tainted \subseteq tainted' /\ (faults' = 0 /\ IInv => faults = 0)
<1>1. tainted \subseteq tainted'
  BY DEF JobsNext, Submit, Enqueue, ReadDedupe, ReadExisting, CheckDepth, Create, Announce, Push,
     Work, Dequeue, Start, FinishJob, CompareDedupe, DeleteDedupe, FailTimedOut, TimeOut,
     DedupeExpires, JobExpires, Crash, jobVars
<1>2. IInv => faults <= faults' /\ faults \in Nat
  <2> SUFFICES ASSUME IInv PROVE faults <= faults' /\ faults \in Nat
    OBVIOUS
  <2>1. faults \in Nat
    BY DEF IInv, JobsTypeOK
  <2>2. CASE \E p, j : Use(p, j)
    BY <2>1, <2>2 DEF Use
  <2>3. CASE UNCHANGED faults
    BY <2>1, <2>3
  <2>4. (\E p, j : Use(p, j)) \/ UNCHANGED faults
    BY DEF JobsNext, Submit, Enqueue, ReadDedupe, ReadExisting, CheckDepth, Create, Announce, Push,
       Work, Dequeue, Start, FinishJob, CompareDedupe, DeleteDedupe, FailTimedOut, TimeOut,
       DedupeExpires, JobExpires, Crash, jobVars
  <2> QED
    BY <2>1, <2>2, <2>3, <2>4
<1> QED
  BY <1>1, <1>2

\* An excuse stays one.
LEMMA ExcusedStays ==
    ASSUME IInv, IInv', [JobsNext]_jobVars, NEW n \in Jobs, made[n] # None, Excused(n)
    PROVE  Excused(n)'
<1>1. CASE n \in tainted
  BY <1>1, TaintGrows DEF Excused
<1>2. CASE jobs[Redis][n] \notin Pending
  BY <1>2, NotRevived DEF Excused
<1>3. CASE \E r \in Requests \cap shared : pc[r] = "push" /\ work[r].job = n
  <2>1. PICK r \in Requests \cap shared : pc[r] = "push" /\ work[r].job = n
    BY <1>3
  <2>2. r \in Clients /\ r \notin Workers
    BY ScrapeJobsAssumption DEF Clients
  <2>3. CASE Acts(r)
    <3>1. Push(r)
      BY <2>1, <2>2, <2>3 DEF Acts, Submit, Enqueue, ReadDedupe, ReadExisting, CheckDepth, Create,
         Announce
    <3> QED
      BY <2>1, <3>1 DEF Push, Excused
  <2>4. CASE Stays(r)
    BY <2>1, <2>4 DEF Stays, Excused
  <2>5. CASE Dies(r)
    BY <2>1, <2>5 DEF Dies, Excused
  <2> QED
    BY <2>2, <2>3, <2>4, <2>5, Frame
<1> QED
  BY <1>1, <1>2, <1>3 DEF Excused

\* Entries are written by announcements; every other step leaves or deletes them.
LEMMA EntryWrites ==
    ASSUME IInv, [JobsNext]_jobVars
    PROVE  \/ \E r \in Requests : Announce(r)
           \/ /\ newest' = newest
              /\ \A p \in Places, u \in Urls : dedupe'[p][u] \in {dedupe[p][u], None}
<1>0. JobsTypeOK /\ HoldInv
  BY DEF IInv
<1>1. CASE \E w \in Workers : CompareDedupe(w) \/ DeleteDedupe(w)
  <2>1. PICK w \in Workers : CompareDedupe(w) \/ DeleteDedupe(w)
    BY <1>1
  <2>2. newest' = newest
    BY <2>1 DEF CompareDedupe, DeleteDedupe
  <2>3. \E p \in At(w) :
          \/ UNCHANGED dedupe \/ ClearLocal(w, p)
          \/ dedupe' = [dedupe EXCEPT ![p][work[w].url] = None]
    BY <2>1 DEF CompareDedupe, DeleteDedupe
  <2>4. PICK p \in At(w) :
          UNCHANGED dedupe \/ dedupe' = [dedupe EXCEPT ![p][work[w].url] = None]
    BY <2>3 DEF ClearLocal
  <2>5. dedupe \in [Places -> [Urls -> Jobs \cup {None}]]
    BY <1>0 DEF JobsTypeOK
  <2>6. CASE UNCHANGED dedupe
    BY <2>2, <2>6
  <2>7. CASE dedupe' = [dedupe EXCEPT ![p][work[w].url] = None]
    BY <2>2, <2>5, <2>7
  <2> QED
    BY <2>4, <2>6, <2>7
<1>2. CASE \E p \in Places, u \in Urls : DedupeExpires(p, u)
  BY <1>0, <1>2 DEF DedupeExpires, JobsTypeOK
<1>3. CASE \E p \in {Api, Wrk} : Crash(p)
  BY <1>0, <1>3 DEF Crash, JobsTypeOK
<1>4. CASE UNCHANGED <<dedupe, newest>>
  BY <1>4
<1>5. \/ \E r \in Requests : Announce(r)
      \/ \E w \in Workers : CompareDedupe(w) \/ DeleteDedupe(w)
      \/ \E p \in Places, u \in Urls : DedupeExpires(p, u)
      \/ \E p \in {Api, Wrk} : Crash(p)
      \/ UNCHANGED <<dedupe, newest>>
  BY DEF JobsNext, Submit, Enqueue, ReadDedupe, ReadExisting, CheckDepth, Create, Push, Work,
     Dequeue, Start, FinishJob, FailTimedOut, TimeOut, JobExpires, jobVars
<1> QED
  BY <1>1, <1>2, <1>3, <1>4, <1>5

\* What an announcement writes.
LEMMA AnnounceWrites ==
    ASSUME IInv, NEW r \in Requests, Announce(r)
    PROVE  /\ work[r].job \in Jobs /\ work[r].url \in Urls /\ made[work[r].job] # None
           /\ made' = made /\ pc[r] = "announce" /\ r \in InDedupe
           /\ pc'[r] = "push" /\ work'[r] = work[r] /\ shared' = shared
           /\ newest'[work[r].url] = work[r].job
           /\ \A u \in Urls \ {work[r].url} : newest'[u] = newest[u]
           /\ \A p \in Places, u \in Urls :
                dedupe'[p][u] = dedupe[p][u] \/ dedupe'[p][u] = work[r].job
           /\ \A u \in Urls \ {work[r].url} : dedupe'[Redis][u] = dedupe[Redis][u]
           /\ faults' = 0 => dedupe'[Redis][work[r].url] = work[r].job
<1>0. JobsTypeOK /\ HoldInv /\ MadeInv /\ r \in Clients /\ Redis \in Places
  BY DEF IInv, Clients, Places
<1>1. PICK p \in At(r) :
        /\ Use(p, work[r].job)
        /\ dedupe' = [dedupe EXCEPT ![p][work[r].url] = work[r].job]
  BY DEF Announce
<1>2. /\ pc[r] = "announce" /\ made' = made /\ Goto(r, "push")
      /\ newest' = [newest EXCEPT ![work[r].url] = work[r].job]
  BY DEF Announce
<1>3. work[r].job \in Jobs /\ work[r].url \in Urls /\ made[work[r].job] # None
  BY <1>0, <1>2 DEF JobsTypeOK, HoldInv, MadeInv, After
<1>4. /\ newest'[work[r].url] = work[r].job
      /\ \A u \in Urls \ {work[r].url} : newest'[u] = newest[u]
  BY <1>0, <1>2, <1>3 DEF JobsTypeOK
<1>5. pc'[r] = "push" /\ work'[r] = work[r] /\ shared' = shared /\ r \in InDedupe
  BY <1>0, <1>2 DEF Goto, JobsTypeOK, InDedupe, Enqueuing
<1>6. dedupe \in [Places -> [Urls -> Jobs \cup {None}]]
  BY <1>0 DEF JobsTypeOK
<1>7. \A q \in Places, u \in Urls : dedupe'[q][u] = dedupe[q][u] \/ dedupe'[q][u] = work[r].job
  BY <1>1, <1>6
<1>8. \A u \in Urls \ {work[r].url} : dedupe'[Redis][u] = dedupe[Redis][u]
  BY <1>0, <1>1, <1>6
<1>9. faults' = 0 => dedupe'[Redis][work[r].url] = work[r].job
  <2>1. faults' = 0 => p = Redis
    BY <1>0, <1>1, CallCounts
  <2> QED
    BY <1>0, <1>1, <1>3, <1>6, <2>1
<1> QED
  BY <1>2, <1>3, <1>4, <1>5, <1>7, <1>8, <1>9

LEMMA NextKnown == ASSUME IInv, [JobsNext]_jobVars, KnownInv PROVE KnownInv'
<1>0. JobsTypeOK
  BY DEF IInv
<1>1. \A n \in Jobs : made[n] # None => made'[n] # None
  <2> SUFFICES ASSUME NEW n \in Jobs, made[n] # None PROVE made'[n] # None
    OBVIOUS
  <2>1. CASE \E r \in Requests : Create(r)
    <3>1. PICK r \in Requests : Create(r)
      BY <2>1
    <3>2. r \in Clients /\ pc[r] # "idle" /\ made' = [made EXCEPT ![work[r].job] = work[r].url]
      BY <3>1 DEF Create, Clients
    <3>3. work[r].url \in Urls /\ None \notin Urls
      BY <3>2, ScrapeJobsAssumption DEF IInv, HoldInv
    <3> QED
      BY <1>0, <3>2, <3>3 DEF JobsTypeOK
  <2>2. CASE UNCHANGED made
    BY <2>2
  <2>3. (\E r \in Requests : Create(r)) \/ UNCHANGED made
    BY DEF JobsNext, Submit, Enqueue, ReadDedupe, ReadExisting, CheckDepth, Announce, Push, Work,
       Dequeue, Start, FinishJob, CompareDedupe, DeleteDedupe, FailTimedOut, TimeOut,
       DedupeExpires, JobExpires, Crash, jobVars
  <2> QED
    BY <2>1, <2>2, <2>3
<1>2. CASE \E r \in Requests : Announce(r)
  <2>1. PICK r \in Requests : Announce(r)
    BY <1>2
  <2> QED
    <3>1. work[r].job \in Jobs /\ made'[work[r].job] # None
      BY <1>1, <2>1, AnnounceWrites
    <3>2. \A u \in Urls : newest'[u] = newest[u] \/ newest'[u] = work[r].job
      BY <2>1, AnnounceWrites
    <3>3. \A p \in Places, u \in Urls :
            dedupe'[p][u] = dedupe[p][u] \/ dedupe'[p][u] = work[r].job
      BY <2>1, AnnounceWrites
    <3>4. /\ \A u \in Urls : newest[u] # None => newest[u] \in Jobs /\ made'[newest[u]] # None
          /\ \A p \in Places, u \in Urls :
               dedupe[p][u] # None => dedupe[p][u] \in Jobs /\ made'[dedupe[p][u]] # None
      BY <1>0, <1>1 DEF KnownInv, JobsTypeOK
    <3>5. \A u \in Urls : newest'[u] # None => made'[newest'[u]] # None
      BY <3>1, <3>2, <3>4
    <3>6. \A p \in Places, u \in Urls : dedupe'[p][u] # None => made'[dedupe'[p][u]] # None
      BY <3>1, <3>3, <3>4
    <3> QED
      BY <3>5, <3>6 DEF KnownInv
<1>3. CASE /\ newest' = newest
           /\ \A p \in Places, u \in Urls : dedupe'[p][u] \in {dedupe[p][u], None}
  BY <1>0, <1>1, <1>3 DEF KnownInv, JobsTypeOK
<1> QED
  BY <1>2, <1>3, EntryWrites

\* While Redis has not failed, an entry is only taken from a job with an excuse.
LEMMA TakenEntries ==
    ASSUME IInv, IInv', [JobsNext]_jobVars, KnownInv, ClearerInv, faults' = 0,
           NEW u \in Urls, NEW n, n = dedupe[Redis][u], dedupe'[Redis][u] # n,
           ~ \E r \in Requests : Announce(r)
    PROVE  dedupe'[Redis][u] = None /\ Excused(n)'
<1>0. /\ JobsTypeOK /\ HoldInv /\ MadeInv /\ Redis \in Places /\ Workers \subseteq Clients
      /\ dedupe \in [Places -> [Urls -> Jobs \cup {None}]]
  BY DEF IInv, JobsTypeOK, Clients, Places
<1>1. dedupe'[Redis][u] = None
  BY <1>0, EntryWrites
<1>2. n # None
  BY <1>1
<1>3. n \in Jobs /\ made[n] # None
  BY <1>0, <1>2 DEF KnownInv
<1>4. CASE \E w \in Workers : DeleteDedupe(w)
  <2>1. PICK w \in Workers : DeleteDedupe(w)
    BY <1>4
  <2>2. PICK p \in At(w) :
          /\ Use(p, work[w].job)
          /\ \/ p = Redis /\ dedupe' = [dedupe EXCEPT ![p][work[w].url] = None]
             \/ p # Redis /\ ClearLocal(w, p)
    BY <2>1 DEF DeleteDedupe
  <2>3. p = Redis
    BY <1>0, <2>2, CallCounts
  <2>4. work[w].url = u
    BY <1>0, <2>2, <2>3
  <2>5. pc[w] = "clearing"
    BY <2>1 DEF DeleteDedupe
  <2>6. Excused(n)
    <3>1. CASE n = work[w].job
      <4>1. jobs[Redis][work[w].job] \notin Pending
        BY <2>5 DEF ClearerInv, Clearing
      <4> QED
        BY <3>1, <4>1 DEF Excused
    <3>2. CASE n # work[w].job
      BY <1>2, <2>4, <2>5, <3>2 DEF ClearerInv
    <3> QED
      BY <3>1, <3>2
  <2> QED
    BY <1>1, <1>3, <2>6, ExcusedStays
<1>5. CASE \E p \in Places, x \in Urls : DedupeExpires(p, x)
  <2>1. PICK p \in Places, x \in Urls : DedupeExpires(p, x)
    BY <1>5
  <2>2. /\ dedupe' = [dedupe EXCEPT ![p][x] = None]
        /\ tainted' = tainted \cup {dedupe[p][x]}
    BY <2>1 DEF DedupeExpires
  <2>3. p = Redis /\ x = u
    BY <1>0, <2>2
  <2>4. n \in tainted'
    BY <2>2, <2>3
  <2> QED
    BY <1>1, <2>4 DEF Excused
<1>6. CASE \E w \in Workers : CompareDedupe(w)
  <2>1. PICK w \in Workers : CompareDedupe(w)
    BY <1>6
  <2>2. PICK p \in At(w) : Use(p, work[w].job) /\ (UNCHANGED dedupe \/ p # Redis)
    BY <2>1 DEF CompareDedupe
  <2>3. UNCHANGED dedupe
    BY <1>0, <2>2, CallCounts
  <2> QED
    BY <2>3
<1>7. CASE \E p \in {Api, Wrk} : Crash(p)
  <2>1. dedupe'[Redis] = dedupe[Redis]
    BY <1>0, <1>7 DEF Crash
  <2> QED
    BY <2>1
<1>8. CASE UNCHANGED dedupe
  BY <1>8
<1>9. \/ \E w \in Workers : CompareDedupe(w)
      \/ \E w \in Workers : DeleteDedupe(w)
      \/ \E p \in Places, x \in Urls : DedupeExpires(p, x)
      \/ \E p \in {Api, Wrk} : Crash(p)
      \/ UNCHANGED dedupe
  BY DEF JobsNext, Submit, Enqueue, ReadDedupe, ReadExisting, CheckDepth, Create, Push, Work,
     Dequeue, Start, FinishJob, FailTimedOut, TimeOut, JobExpires, jobVars
<1> QED
  BY <1>4, <1>5, <1>6, <1>7, <1>8, <1>9

LEMMA NextEntry ==
    ASSUME IInv, IInv', [JobsNext]_jobVars, KnownInv, EntryInv, ClearerInv, faults' = 0
    PROVE  EntryInv'
<1> SUFFICES ASSUME NEW u \in Urls, NEW n, n = newest'[u], n # None, dedupe'[Redis][u] # n
             PROVE  Excused(n)'
  BY DEF EntryInv, Excused
<1>0. newest \in [Urls -> Jobs \cup {None}]
  BY DEF IInv, JobsTypeOK
<1>1. ASSUME newest[u] = n, Excused(n) PROVE Excused(n)'
  BY <1>0, <1>1, ExcusedStays DEF KnownInv
<1>2. CASE \E r \in Requests : Announce(r)
  <2>1. PICK r \in Requests : Announce(r)
    BY <1>2
  <2>2. u # work[r].url
    BY <2>1, AnnounceWrites
  <2>3. newest[u] = n /\ dedupe[Redis][u] # n
    BY <2>1, <2>2, AnnounceWrites
  <2> QED
    BY <1>1, <2>3 DEF EntryInv
<1>3. CASE ~ \E r \in Requests : Announce(r)
  <2>1. newest[u] = n
    BY <1>3, EntryWrites
  <2>2. CASE dedupe[Redis][u] = n
    BY <1>3, <2>2, TakenEntries
  <2>3. CASE dedupe[Redis][u] # n
    BY <1>1, <2>1, <2>3 DEF EntryInv
  <2> QED
    BY <2>2, <2>3
<1> QED
  BY <1>2, <1>3

\* Nobody announces while a request is alone and has not.
LEMMA AloneNobodyAnnounces ==
    ASSUME IInv, AloneInv, NEW r \in Requests, r \notin shared,
           pc[r] \in {"dedupe", "existing", "depth", "create"}
    PROVE  ~ \E x \in Requests : Announce(x)
<1>1. r \in InDedupe
  BY DEF InDedupe, Clients, Enqueuing
<1>2. InDedupe = {r}
  BY <1>1 DEF AloneInv
<1> QED
  BY <1>2, AnnounceWrites DEF Announce

LEMMA NextReader ==
    ASSUME IInv, IInv', [JobsNext]_jobVars, KnownInv, AloneInv, ReaderInv, faults' = 0
    PROVE  ReaderInv'
<1> SUFFICES ASSUME NEW r \in Requests, r \notin shared', NEW n,
                    n = dedupe'[Redis][work'[r].url], n # None
             PROVE  /\ pc'[r] \in {"depth", "create"} /\ ~work'[r].force => Excused(n)'
                    /\ pc'[r] = "existing" => n = seen'[r]
  BY DEF ReaderInv, Excused
<1>0. /\ JobsTypeOK /\ HoldInv /\ HoldInv' /\ r \in Clients /\ Redis \in Places
      /\ dedupe \in [Places -> [Urls -> Jobs \cup {None}]]
      /\ r \notin Workers
  BY ScrapeJobsAssumption DEF IInv, JobsTypeOK, Clients, Places
<1>1. CASE pc'[r] \notin {"existing", "depth", "create"}
  BY <1>1
<1>2. CASE Stays(r) /\ pc'[r] \in {"existing", "depth", "create"}
  <2>1. /\ pc[r] = pc'[r] /\ work'[r] = work[r] /\ seen'[r] = seen[r] /\ r \notin shared
    BY <1>2 DEF Stays
  <2>2. work[r].url \in Urls
    BY <1>0, <1>2, <2>1 DEF HoldInv
  <2>3. ~ \E x \in Requests : Announce(x)
    BY <1>2, <2>1, AloneNobodyAnnounces
  <2>4. dedupe[Redis][work[r].url] = n /\ n \in Jobs /\ made[n] # None
    BY <1>0, <2>1, <2>2, <2>3, EntryWrites DEF KnownInv
  <2>5. pc[r] = "existing" => n = seen[r]
    BY <2>1, <2>4 DEF ReaderInv
  <2>6. pc[r] \in {"depth", "create"} /\ ~work[r].force => Excused(n)
    BY <2>1, <2>4 DEF ReaderInv
  <2> QED
    BY <2>1, <2>4, <2>5, <2>6, ExcusedStays
<1>3. CASE Acts(r) /\ pc'[r] \in {"existing", "depth", "create"}
  <2>1. CASE \E u \in Urls, force \in BOOLEAN : Submit(r, u, force)
    <3>1. PICK u \in Urls, force \in BOOLEAN : Submit(r, u, force)
      BY <2>1
    <3>2. PICK j \in Jobs : work' = [work EXCEPT ![r] = [url |-> u, force |-> force, job |-> j]]
      BY <3>1 DEF Submit
    <3>3. work'[r].force = force /\ pc'[r] = IF force THEN "depth" ELSE "dedupe"
      BY <1>0, <3>1, <3>2 DEF Submit, JobsTypeOK
    <3> QED
      BY <3>3
  <2>2. CASE ReadDedupe(r)
    <3>1. PICK p \in At(r) :
            /\ Use(p, None)
            /\ pc' = [pc EXCEPT ![r] = IF dedupe[p][work[r].url] = None THEN "depth" ELSE "existing"]
            /\ seen' = [seen EXCEPT ![r] = dedupe[p][work[r].url]]
      BY <2>2 DEF ReadDedupe
    <3>2. p = Redis
      BY <1>0, <3>1, CallCounts
    <3>3. work' = work /\ dedupe' = dedupe
      BY <2>2 DEF ReadDedupe
    <3>4. pc'[r] = "existing" /\ seen'[r] = n
      BY <1>0, <3>1, <3>2, <3>3 DEF JobsTypeOK
    <3> QED
      BY <3>4
  <2>3. CASE ReadExisting(r)
    <3>1. PICK p \in At(r) :
            /\ Use(p, None)
            /\ \/ jobs[p][seen[r]] \in Pending /\ Rest(r)
               \/ jobs[p][seen[r]] \notin Pending /\ Goto(r, "depth")
      BY <2>3 DEF ReadExisting
    <3>2. p = Redis /\ dedupe' = dedupe /\ pc[r] = "existing"
      BY <1>0, <2>3, <3>1, CallCounts DEF ReadExisting
    <3>3. ~Rest(r)
      BY <1>0, <1>3, RestTypes
    <3>4. jobs[Redis][seen[r]] \notin Pending /\ Goto(r, "depth")
      BY <3>1, <3>2, <3>3
    <3>5. work' = work /\ shared' = shared /\ pc'[r] = "depth"
      BY <1>0, <3>4 DEF Goto, JobsTypeOK
    <3>6. work[r].url \in Urls
      BY <1>0, <3>2 DEF HoldInv
    <3>7. n = dedupe[Redis][work[r].url] /\ n \in Jobs /\ made[n] # None
      BY <1>0, <3>2, <3>5, <3>6 DEF KnownInv
    <3>8. n = seen[r]
      BY <3>2, <3>5, <3>7 DEF ReaderInv
    <3>9. Excused(n)
      BY <3>4, <3>8 DEF Excused
    <3> QED
      BY <3>5, <3>7, <3>9, ExcusedStays
  <2>4. CASE CheckDepth(r)
    <3>1. (Rest(r) \/ Goto(r, "create")) /\ dedupe' = dedupe /\ pc[r] = "depth"
      BY <2>4 DEF CheckDepth
    <3>2. ~Rest(r)
      BY <1>0, <1>3, RestTypes
    <3>3. work' = work /\ shared' = shared /\ pc'[r] = "create"
      BY <1>0, <3>1, <3>2 DEF Goto, JobsTypeOK
    <3>4. work[r].url \in Urls
      BY <1>0, <3>1 DEF HoldInv
    <3>5. n = dedupe[Redis][work[r].url] /\ n \in Jobs /\ made[n] # None
      BY <1>0, <3>1, <3>3, <3>4 DEF KnownInv
    <3>6. ~work[r].force => Excused(n)
      BY <3>1, <3>3, <3>5 DEF ReaderInv
    <3> QED
      BY <3>3, <3>5, <3>6, ExcusedStays
  <2>5. CASE Create(r) \/ Announce(r) \/ Push(r)
    <3>1. Rest(r) \/ Goto(r, "announce") \/ Goto(r, "push")
      BY <2>5 DEF Create, Announce, Push
    <3>2. pc'[r] \in {"idle", "announce", "push"}
      BY <1>0, <3>1 DEF Rest, Goto, JobsTypeOK
    <3> QED
      BY <1>3, <3>2
  <2> QED
    BY <1>0, <1>3, <2>1, <2>2, <2>3, <2>4, <2>5 DEF Acts, Enqueue
<1>4. CASE Dies(r)
  BY <1>4 DEF Dies
<1> QED
  BY <1>0, <1>1, <1>2, <1>3, <1>4, Frame

LEMMA NextClearer ==
    ASSUME IInv, IInv', [JobsNext]_jobVars, KnownInv, AloneInv, ClearerInv, faults' = 0
    PROVE  ClearerInv'
<1> SUFFICES ASSUME NEW w \in Workers, NEW n, n = dedupe'[Redis][work'[w].url]
             PROVE  /\ pc'[w] \in Clearing => jobs'[Redis][work'[w].job] \notin Pending
                    /\ pc'[w] = "clearing" => n \in {None, work'[w].job} \/ Excused(n)'
  BY DEF ClearerInv, Excused
<1>0. /\ JobsTypeOK /\ HoldInv /\ MadeInv /\ w \in Clients /\ Redis \in Places
      /\ dedupe \in [Places -> [Urls -> Jobs \cup {None}]]
      /\ w \notin Requests
  BY ScrapeJobsAssumption DEF IInv, JobsTypeOK, Clients, Places
<1>1. CASE pc'[w] \notin Clearing
  BY <1>1 DEF Clearing
<1>2. CASE Stays(w) /\ pc'[w] \in Clearing
  <2>1. pc[w] = pc'[w] /\ work'[w] = work[w]
    BY <1>2 DEF Stays
  <2>2. work[w].job \in Jobs /\ work[w].url \in Urls /\ made[work[w].job] # None
    <3>1. pc[w] \in Working /\ pc[w] # "idle"
      BY <1>2, <2>1 DEF Clearing, Working
    <3> QED
      BY <1>0, <3>1 DEF HoldInv, MadeInv, JobsTypeOK
  <2>3. jobs[Redis][work[w].job] \notin Pending
    BY <1>2, <2>1 DEF ClearerInv
  <2>4. jobs'[Redis][work[w].job] \notin Pending
    BY <2>2, <2>3, NotRevived
  <2>5. ASSUME pc[w] = "clearing", n \notin {None, work[w].job} PROVE Excused(n)'
    <3>1. CASE dedupe[Redis][work[w].url] = n
      <4>1. n \in Jobs /\ made[n] # None
        BY <1>0, <2>2, <2>5, <3>1 DEF KnownInv
      <4>2. Excused(n)
        BY <2>5, <3>1 DEF ClearerInv
      <4> QED
        BY <4>1, <4>2, ExcusedStays
    <3>2. CASE dedupe[Redis][work[w].url] # n
      <4>1. \E r \in Requests : Announce(r)
        BY <1>0, <2>1, <2>2, <2>5, <3>2, EntryWrites
      <4>2. PICK r \in Requests : Announce(r)
        BY <4>1
      <4>3. n = work[r].job
        BY <1>0, <2>1, <2>2, <3>2, <4>2, AnnounceWrites
      <4>4. r \in InDedupe /\ w \in InDedupe /\ r # w
        BY <1>0, <2>5, <4>2, AnnounceWrites DEF InDedupe, Clearing
      <4>5. r \in shared
        BY <4>4 DEF AloneInv
      <4>6. pc'[r] = "push" /\ work'[r].job = n /\ r \in shared'
        BY <4>2, <4>3, <4>5, AnnounceWrites
      <4> QED
        BY <4>6 DEF Excused
    <3> QED
      BY <3>1, <3>2
  <2> QED
    BY <1>2, <2>1, <2>4, <2>5
<1>3. CASE Acts(w) /\ pc'[w] \in Clearing
  <2>1. CASE FinishJob(w)
    <3>1. PICK p \in At(w), how \in Finished :
            Use(p, work[w].job) /\ jobs' = [jobs EXCEPT ![p][work[w].job] = how]
      BY <2>1 DEF FinishJob
    <3>2. p = Redis
      BY <1>0, <3>1, CallCounts
    <3>3. work' = work /\ pc' = [pc EXCEPT ![w] = "clear"] /\ pc[w] = "scrape"
      BY <2>1 DEF FinishJob
    <3>4. work[w].job \in Jobs
      BY <1>0, <3>3 DEF HoldInv, JobsTypeOK
    <3>5. jobs'[Redis][work'[w].job] = how
      BY <1>0, <3>1, <3>2, <3>3, <3>4 DEF JobsTypeOK
    <3>6. pc'[w] = "clear"
      BY <1>0, <3>3 DEF JobsTypeOK
    <3> QED
      BY <3>5, <3>6 DEF Finished, Pending
  <2>2. CASE CompareDedupe(w)
    <3>1. Rest(w) \/ (Goto(w, "clearing") /\ dedupe' = dedupe
                      /\ dedupe[Redis][work[w].url] \in {None, work[w].job})
      BY <2>2 DEF CompareDedupe
    <3>2. ~Rest(w)
      BY <1>0, <1>3, RestTypes DEF Clearing
    <3>3. work' = work /\ jobs' = jobs /\ pc[w] \in Clearing
      BY <2>2, <3>1, <3>2 DEF CompareDedupe, Goto, Clearing
    <3>4. jobs[Redis][work[w].job] \notin Pending
      BY <3>3 DEF ClearerInv
    <3> QED
      BY <3>1, <3>2, <3>3, <3>4
  <2>3. CASE Dequeue(w) \/ Start(w) \/ DeleteDedupe(w) \/ FailTimedOut(w) \/ TimeOut(w)
    <3>1. pc' = [pc EXCEPT ![w] = "start"] \/ Rest(w) \/ Goto(w, "scrape") \/ Goto(w, "timedOut")
      BY <2>3 DEF Dequeue, Start, DeleteDedupe, FailTimedOut, TimeOut
    <3>2. pc'[w] \in {"start", "idle", "scrape", "timedOut"}
      BY <1>0, <3>1 DEF Rest, Goto, JobsTypeOK
    <3> QED
      BY <1>3, <3>2 DEF Clearing
  <2> QED
    BY <1>0, <1>3, <2>1, <2>2, <2>3 DEF Acts, Work
<1>4. CASE Dies(w)
  BY <1>4 DEF Dies, Clearing
<1> QED
  BY <1>0, <1>1, <1>2, <1>3, <1>4, Frame

LEMMA InitUnfailed == JobsInit => KnownInv /\ UnfailedInv
<1> SUFFICES ASSUME JobsInit PROVE KnownInv /\ EntryInv /\ ReaderInv /\ ClearerInv
  BY DEF UnfailedInv
<1>1. KnownInv /\ EntryInv
  BY DEF JobsInit, KnownInv, EntryInv
<1>2. ReaderInv /\ ClearerInv
  BY DEF JobsInit, ReaderInv, ClearerInv, Clients, Clearing
<1> QED
  BY <1>1, <1>2

DuplicateInv == IInv /\ AloneInv /\ DepthInv /\ KnownInv /\ UnfailedInv

LEMMA DuplicateInvariance == JobsSpec => []DuplicateInv
<1>1. JobsInit => DuplicateInv
  BY InitIInv, InitAlone, InitUnfailed DEF DuplicateInv
<1>2. DuplicateInv /\ [JobsNext]_jobVars => DuplicateInv'
  <2> SUFFICES ASSUME DuplicateInv, [JobsNext]_jobVars PROVE DuplicateInv'
    OBVIOUS
  <2>1. IInv' /\ AloneInv' /\ DepthInv' /\ KnownInv'
    BY NextIInv, NextAlone, NextKnown DEF DuplicateInv
  <2>2. faults' = 0 => EntryInv' /\ ReaderInv' /\ ClearerInv'
    BY <2>1, TaintGrows, NextEntry, NextReader, NextClearer DEF DuplicateInv, UnfailedInv
  <2> QED
    BY <2>1, <2>2 DEF DuplicateInv, UnfailedInv
<1> QED
  BY <1>1, <1>2, PTL DEF JobsSpec

\* A request alone with its entry never starts a second job for a URL whose newest job is
\* pending, as long as that job was announced alone and Redis has not failed.
THEOREM NoDuplicateAlone == JobsSpec => AloneNeverDuplicates
<1> DEFINE Step == \A r \in Requests :
              (/\ pc[r] = "create" /\ pc'[r] = "announce"
               /\ ~work[r].force /\ r \notin shared /\ faults' = 0)
              => LET n == newest[work[r].url] IN
                 n = None \/ n \in tainted \/ jobs[Redis][n] \notin Pending
<1>1. DuplicateInv /\ [JobsNext]_jobVars => [Step]_jobVars
  <2> SUFFICES ASSUME DuplicateInv, [JobsNext]_jobVars, NEW r \in Requests, pc[r] = "create",
                      ~work[r].force, r \notin shared, faults' = 0,
                      NEW n, n = newest[work[r].url], n # None
               PROVE  n \in tainted \/ jobs[Redis][n] \notin Pending
    OBVIOUS
  <2>1. EntryInv /\ ReaderInv
    BY TaintGrows DEF DuplicateInv, UnfailedInv
  <2>2. work[r].url \in Urls /\ r \in Clients
    BY DEF DuplicateInv, IInv, HoldInv, Clients
  <2>3. dedupe[Redis][work[r].url] = None \/ Excused(dedupe[Redis][work[r].url])
    BY <2>1 DEF ReaderInv
  <2>4. Excused(n)
    BY <2>1, <2>2, <2>3 DEF EntryInv
  <2>5. InDedupe = {r}
    BY <2>2 DEF DuplicateInv, AloneInv, InDedupe, Enqueuing
  <2>6. ~ \E x \in Requests \cap shared : pc[x] = "push"
    BY <2>5 DEF InDedupe, Enqueuing, Clients
  <2> QED
    BY <2>4, <2>6 DEF Excused
<1> QED
  BY <1>1, DuplicateInvariance, PTL DEF JobsSpec, AloneNeverDuplicates
=============================================================================
