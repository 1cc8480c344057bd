------------------------- MODULE SubscriptionProofs -------------------------
(***************************************************************************)
(* Proofs about SubscriptionSync for any number of subscriptions, plans,   *)
(* requests and events.  JobInv says where the task of a request comes     *)
(* from and what it has secured; AloneInv that what a request without      *)
(* company has loaded is still what the database holds.                    *)
(***************************************************************************)
EXTENDS SubscriptionSync, SequenceTheorems, TLAPS

\* Snapshots Stripe has sent for s.
SentFor(s) == {sent[e].snap : e \in {i \in DOMAIN sent : sent[i].sub = s}}

StripeInv == \A s \in Sub : stripe[s] # None => stripe[s] \in SentFor(s)

\* A task carries its event's subscription and snapshot, or a snapshot Stripe sent,
\* or a gift; a snapshot on its way into the rows has a known plan.
JobOf(r) ==
    /\ job[r].event # 0 => /\ job[r].event \in DOMAIN sent
                           /\ job[r].sub = sent[job[r].event].sub
                           /\ job[r].snap = sent[job[r].event].snap
    /\ pc[r] = "restart" => job[r].event # 0
    /\ job[r].snap \in Snapshot => /\ job[r].sub \in Sub
                                   /\ job[r].snap \in SentFor(job[r].sub)
    /\ pc[r] \in {"row", "write"} => job[r].snap \in Row
    /\ pc[r] = "save" => job[r].snap \in Comp
    /\ pc[r] = "fetch" => job[r].event = 0

JobInv == \A r \in Runner : JobOf(r)

\* A row, once loaded, stays in the database.
LoadedInv ==
    \A r \in Runner :
        pc[r] = "write" /\ loaded[r].row # None => rows[job[r].sub] # None

\* Whoever reports an event with a known plan has seen or written its row.
StoredInv ==
    \A r \in Runner :
        pc[r] = "finish" /\ job[r].event # 0 /\ job[r].snap.plan # Unknown
            => rows[job[r].sub] # None

AloneInv ==
    \A r \in alone :
        pc[r] # "idle" =>
            /\ \A q \in Runner \ {r} : pc[q] = "idle"
            /\ pc[r] \in {"fetch", "row", "write"} => loaded[r].plan = plan
            /\ pc[r] = "write" => loaded[r].row = rows[job[r].sub]

IInv == /\ TypeOK /\ StripeInv /\ JobInv /\ LoadedInv /\ StoredInv /\ AloneInv
        /\ GrantedWasPaid /\ ProcessedIsStored
-----------------------------------------------------------------------------
LEMMA InitIInv == Init => IInv
<1> SUFFICES ASSUME Init PROVE IInv
  OBVIOUS
<1>1. DOMAIN sent = {} /\ Len(sent) = 0 /\ sent \in Seq([sub : Sub, snap : Snapshot])
  BY DEF Init
<1>2. TypeOK
  BY <1>1, SubscriptionAssumption
     DEF Init, TypeOK, Phase, Job, NoJob, NothingLoaded
<1>3. StripeInv
  BY DEF Init, StripeInv
<1>4. JobInv
  BY KindAssumption DEF Init, JobInv, JobOf, NoJob
<1>5. LoadedInv /\ StoredInv /\ AloneInv
  BY DEF Init, LoadedInv, StoredInv, AloneInv
<1>6. GrantedWasPaid /\ ProcessedIsStored
  BY <1>1 DEF Init, GrantedWasPaid, ProcessedIsStored
<1> QED
  BY <1>2, <1>3, <1>4, <1>5, <1>6 DEF IInv
-----------------------------------------------------------------------------
\* What Stripe adds to the list of events, and what it leaves alone there.
LEMMA AppendEvent ==
    ASSUME TypeOK, NEW s \in Sub, NEW snap \in Snapshot, StripeChanges(s, snap)
    PROVE  /\ sent' \in Seq([sub : Sub, snap : Snapshot])
           /\ Len(sent') <= MaxEvents
           /\ DOMAIN sent' = DOMAIN sent \union {Len(sent) + 1}
           /\ Len(sent) + 1 \notin DOMAIN sent
           /\ \A e \in DOMAIN sent : sent'[e] = sent[e] /\ claim'[e] = claim[e]
           /\ sent'[Len(sent) + 1] = [sub |-> s, snap |-> snap]
           /\ claim'[Len(sent) + 1] = "none"
           /\ claim' \in [DOMAIN sent' -> {"none", "processing", "processed", "failed"}]
<1> DEFINE C == {"none", "processing", "processed", "failed"}
           new == [sub |-> s, snap |-> snap]
<1>1. /\ sent \in Seq([sub : Sub, snap : Snapshot])
      /\ Len(sent) \in Nat
      /\ DOMAIN sent = 1 .. Len(sent)
      /\ new \in [sub : Sub, snap : Snapshot]
  BY DEF TypeOK
<1>2. claim \in Seq(C) /\ Len(claim) = Len(sent)
  <2>1. claim \in [1 .. Len(sent) -> C]
    BY <1>1 DEF TypeOK
  <2> QED
    BY <1>1, <2>1, SeqDef, LenProperties
<1>3. sent' = Append(sent, new) /\ claim' = Append(claim, "none")
  BY DEF StripeChanges
<1>4. /\ Len(sent') = Len(sent) + 1
      /\ sent' \in Seq([sub : Sub, snap : Snapshot])
      /\ DOMAIN sent' = 1 .. Len(sent) + 1
      /\ \A e \in DOMAIN sent : sent'[e] = sent[e]
      /\ sent'[Len(sent) + 1] = new
  BY <1>1, <1>3
<1>5. /\ claim' \in [1 .. Len(sent) + 1 -> C]
      /\ \A e \in DOMAIN sent : claim'[e] = claim[e]
      /\ claim'[Len(sent) + 1] = "none"
  <2>1. /\ claim' \in Seq(C)
        /\ Len(claim') = Len(sent) + 1
        /\ \A e \in 1 .. Len(sent) : claim'[e] = claim[e]
        /\ claim'[Len(sent) + 1] = "none"
    BY <1>1, <1>2, <1>3
  <2> QED
    BY <1>1, <2>1, ElementOfSeq, LenProperties
<1>6. Len(sent) < MaxEvents
  BY DEF StripeChanges
<1> QED
  BY <1>1, <1>4, <1>5, <1>6, SubscriptionAssumption

LEMMA StripeStep ==
    ASSUME IInv, NEW s \in Sub, NEW snap \in Snapshot, StripeChanges(s, snap)
    PROVE  IInv'
<1>1. TypeOK
  BY DEF IInv
<1>2. /\ sent' \in Seq([sub : Sub, snap : Snapshot])
      /\ Len(sent') <= MaxEvents
      /\ DOMAIN sent' = DOMAIN sent \union {Len(sent) + 1}
      /\ Len(sent) + 1 \notin DOMAIN sent
      /\ \A e \in DOMAIN sent : sent'[e] = sent[e] /\ claim'[e] = claim[e]
      /\ sent'[Len(sent) + 1] = [sub |-> s, snap |-> snap]
      /\ claim'[Len(sent) + 1] = "none"
      /\ claim' \in [DOMAIN sent' -> {"none", "processing", "processed", "failed"}]
  BY <1>1, AppendEvent
<1>3. TypeOK'
  BY <1>1, <1>2 DEF TypeOK, StripeChanges, local
<1>4. /\ \A t \in Sub : SentFor(t) \subseteq SentFor(t)'
      /\ snap \in SentFor(s)'
  BY <1>2 DEF SentFor
<1>5. StripeInv'
  BY <1>1, <1>4 DEF IInv, StripeInv, StripeChanges, TypeOK
<1>6. JobInv'
  <2> SUFFICES ASSUME NEW r \in Runner PROVE JobOf(r)'
    BY DEF JobInv
  <2>1. JobOf(r) /\ job[r] \in Job
    BY <1>1 DEF IInv, JobInv, TypeOK
  <2> QED
    BY <1>2, <1>4, <2>1 DEF JobOf, StripeChanges
<1>7. LoadedInv' /\ StoredInv' /\ AloneInv'
  BY DEF IInv, LoadedInv, StoredInv, AloneInv, StripeChanges, local
<1>8. GrantedWasPaid'
  <2>1. PaidPlans \subseteq PaidPlans'
    BY <1>2 DEF PaidPlans
  <2> QED
    BY <2>1 DEF IInv, GrantedWasPaid, StripeChanges, local
<1>9. ProcessedIsStored'
  BY <1>2 DEF IInv, ProcessedIsStored, StripeChanges, local
<1> QED
  BY <1>3, <1>5, <1>6, <1>7, <1>8, <1>9 DEF IInv
-----------------------------------------------------------------------------
\* Nothing but Stripe touches the events.
LEMMA SameEvents ==
    ASSUME UNCHANGED external
    PROVE  /\ \A s : SentFor(s)' = SentFor(s)
           /\ PaidPlans' = PaidPlans
           /\ StripeInv => StripeInv'
  BY DEF external, SentFor, PaidPlans, StripeInv

\* Events are numbered from one and name a subscription and a snapshot of it.
LEMMA EventTypes ==
    ASSUME TypeOK
    PROVE  /\ 0 \notin DOMAIN sent
           /\ DOMAIN sent \subseteq 0 .. MaxEvents
           /\ \A e \in DOMAIN sent : sent[e].sub \in Sub /\ sent[e].snap \in Snapshot
<1>1. sent \in Seq([sub : Sub, snap : Snapshot]) /\ Len(sent) <= MaxEvents
  BY DEF TypeOK
<1> HIDE DEF Snapshot
<1>2. DOMAIN sent = 1 .. Len(sent) /\ Len(sent) \in Nat
  BY <1>1
<1>3. \A e \in 1 .. Len(sent) : sent[e] \in [sub : Sub, snap : Snapshot]
  BY <1>1, ElementOfSeq
<1> QED
  BY <1>1, <1>2, <1>3, SubscriptionAssumption

\* A request starts with a task from Stripe's events, with none, or with a gift.
LEMMA StartStep ==
    ASSUME IInv, NEW r \in Runner, NEW task \in Job, NEW phase \in {"restart", "user"},
           Start(r, task, phase),
           \/ UNCHANGED claim
           \/ claim' = [claim EXCEPT ![task.event] = "processing"],
           \/ task.event \in DOMAIN sent /\ task = TaskOf(task.event)
           \/ task.event = 0 /\ phase = "user" /\ task.snap \in Comp \union {None}
    PROVE  IInv'
<1>0. TypeOK /\ sent' = sent
  BY DEF IInv, Start, external
<1>1. /\ TypeOK
      /\ sent' = sent
      /\ 0 \notin DOMAIN sent
      /\ \A e \in DOMAIN sent : sent[e].sub \in Sub /\ sent[e].snap \in Snapshot
  BY <1>0, EventTypes
<1>2. TypeOK'
  BY <1>1 DEF TypeOK, Start, Goto, Phase, external, local
<1>3. StripeInv'
  BY SameEvents DEF IInv, Start
<1>4. JobInv'
  <2> SUFFICES ASSUME NEW q \in Runner PROVE JobOf(q)'
    BY DEF JobInv
  <2>1. JobOf(q) /\ (\A s : SentFor(s)' = SentFor(s))
    BY SameEvents DEF IInv, JobInv, Start
  <2>2. CASE q # r
    BY <1>1, <2>1, <2>2 DEF JobOf, Start, Goto, TypeOK
  <2>3. CASE q = r /\ task.event \in DOMAIN sent /\ task = TaskOf(task.event)
    <3>1. task.snap \in SentFor(task.sub)
      BY <2>3 DEF SentFor, TaskOf
    <3> QED
      BY <1>1, <2>1, <2>3, <3>1 DEF JobOf, Start, Goto, TypeOK, TaskOf
  <2>4. CASE q = r /\ task.event = 0 /\ phase = "user" /\ task.snap \in Comp \union {None}
    BY <1>1, <2>1, <2>4, KindAssumption, SubscriptionAssumption
       DEF JobOf, Start, Goto, TypeOK
  <2> QED
    BY <2>2, <2>3, <2>4
<1>5. LoadedInv' /\ StoredInv'
  BY <1>1 DEF IInv, LoadedInv, StoredInv, Start, Goto, TypeOK, local
<1>6. AloneInv'
  BY <1>1 DEF IInv, AloneInv, Start, Goto, TypeOK, local
<1>7. GrantedWasPaid'
  BY SameEvents DEF IInv, GrantedWasPaid, Start, local
<1>8. ProcessedIsStored'
  BY <1>1 DEF IInv, ProcessedIsStored, Start, local, TypeOK
<1> QED
  BY <1>2, <1>3, <1>4, <1>5, <1>6, <1>7, <1>8 DEF IInv

\* A request ends: the rows stay, the plan may become a gift, and only its own event
\* changes status, to "processed" only where Finish says so.
LEMMA EndStep ==
    ASSUME IInv, NEW r \in Runner, pc[r] # "idle", EndRequest(r),
           UNCHANGED <<rows, newest>>,
           plan' \in {plan} \union Comp,
           NEW v \in {"processed", "failed"},
           v = "processed" => pc[r] = "finish",
           \/ UNCHANGED claim
           \/ claim' = [e \in DOMAIN claim |-> IF e = job[r].event THEN v ELSE claim[e]]
    PROVE  IInv'
<1>1. TypeOK /\ sent' = sent /\ JobOf(r)
  BY DEF IInv, JobInv, EndRequest, external
<1>2. DOMAIN claim = DOMAIN sent
  BY <1>1 DEF TypeOK
<1>3. TypeOK'
  <2>1. claim' \in [DOMAIN sent -> {"none", "processing", "processed", "failed"}]
    BY <1>1, <1>2 DEF TypeOK
  <2>2. plan' \in Plan \union {Free}
    BY <1>1, SubscriptionAssumption DEF TypeOK
  <2>3. NoJob \in Job /\ NothingLoaded \in [plan : Plan \union {Free}, row : Row \union {None}]
    BY SubscriptionAssumption DEF NoJob, Job, NothingLoaded
  <2> QED
    BY <1>1, <2>1, <2>2, <2>3 DEF TypeOK, EndRequest, Goto, Phase, external
<1>4. StripeInv'
  BY SameEvents DEF IInv, EndRequest
<1>5. JobInv'
  <2> SUFFICES ASSUME NEW q \in Runner PROVE JobOf(q)'
    BY DEF JobInv
  <2>1. JobOf(q) /\ (\A s : SentFor(s)' = SentFor(s))
    BY SameEvents DEF IInv, JobInv, EndRequest
  <2> QED
    BY <1>1, <2>1, KindAssumption DEF JobOf, EndRequest, Goto, TypeOK, NoJob
<1>6. LoadedInv' /\ StoredInv'
  BY <1>1 DEF IInv, LoadedInv, StoredInv, EndRequest, Goto, TypeOK
<1>7. AloneInv'
  BY <1>1 DEF IInv, AloneInv, EndRequest, Goto, TypeOK
<1>8. GrantedWasPaid'
  BY SameEvents DEF IInv, GrantedWasPaid, EndRequest
<1>9. ProcessedIsStored'
  <2>1. pc[r] = "finish" /\ job[r].event # 0 /\ sent[job[r].event].snap.plan # Unknown
            => rows[sent[job[r].event].sub] # None
    BY <1>1 DEF IInv, StoredInv, JobOf
  <2>2. 0 \notin DOMAIN sent
    BY <1>1, EventTypes
  <2> QED
    BY <1>1, <1>2, <2>1, <2>2 DEF IInv, ProcessedIsStored
<1> QED
  BY <1>3, <1>4, <1>5, <1>6, <1>7, <1>8, <1>9 DEF IInv
-----------------------------------------------------------------------------
\* The steps of a request that only read: each moves it to a phase its task and its
\* session are ready for.
LEMMA RestartStep == ASSUME IInv, NEW r \in Runner, Restart(r) PROVE IInv'
<1>1. TypeOK /\ sent' = sent /\ UNCHANGED external
  BY DEF IInv, Restart, external
<1>2. TypeOK'
  BY <1>1 DEF TypeOK, Restart, Goto, Phase, external, local
<1>3. StripeInv' /\ (\A s : SentFor(s)' = SentFor(s)) /\ PaidPlans' = PaidPlans
  BY <1>1, SameEvents DEF IInv
<1>4. JobInv'
  BY <1>1, <1>3 DEF IInv, JobInv, JobOf, Restart, Goto, TypeOK
<1>5. LoadedInv' /\ StoredInv' /\ AloneInv'
  BY <1>1 DEF IInv, LoadedInv, StoredInv, AloneInv, Restart, Goto, TypeOK, local
<1>6. GrantedWasPaid'
  BY <1>3 DEF IInv, GrantedWasPaid, Restart, local
<1>7. ProcessedIsStored'
  BY <1>1 DEF IInv, ProcessedIsStored, Restart, local, TypeOK
<1> QED
  BY <1>2, <1>3, <1>4, <1>5, <1>6, <1>7 DEF IInv

LEMMA LoadUserStep == ASSUME IInv, NEW r \in Runner, LoadUser(r) PROVE IInv'
<1>1. TypeOK /\ sent' = sent /\ UNCHANGED <<external, local, claim, job, alone>>
  BY DEF IInv, LoadUser, external
<1>2. TypeOK'
  <2>1. loaded' \in [Runner -> [plan : Plan \union {Free}, row : Row \union {None}]]
    BY <1>1 DEF TypeOK, LoadUser
  <2>2. pc' \in [Runner -> Phase]
    BY <1>1 DEF TypeOK, LoadUser, Goto, Phase
  <2> QED
    BY <1>1, <2>1, <2>2 DEF TypeOK, external, local
<1>3. StripeInv' /\ (\A s : SentFor(s)' = SentFor(s)) /\ PaidPlans' = PaidPlans
  BY <1>1, SameEvents DEF IInv
<1>4. JobInv'
  <2> SUFFICES ASSUME NEW q \in Runner PROVE JobOf(q)'
    BY DEF JobInv
  <2>1. JobOf(q) /\ job' = job
    BY <1>1 DEF IInv, JobInv
  <2>2. CASE q # r
    BY <1>1, <1>3, <2>1, <2>2 DEF JobOf, LoadUser, Goto, TypeOK
  <2>3. CASE q = r
    <3>1. \A e \in DOMAIN sent : sent[e].snap \in Snapshot
      BY <1>1, EventTypes
    <3>2. job[r].snap = None => job[r].event = 0
      BY <2>1, <2>3, <3>1, KindAssumption DEF JobOf
    <3>3. job[r].snap \in Snapshot /\ job[r].snap.plan # Unknown => job[r].snap \in Row
      BY DEF Snapshot, Row
    <3> QED
      BY <1>1, <1>3, <2>1, <2>3, <3>2, <3>3 DEF JobOf, LoadUser, Goto, TypeOK
  <2> QED
    BY <2>2, <2>3
<1>5. LoadedInv' /\ StoredInv'
  <2>1. pc'[r] = "finish" => job[r].snap.plan = Unknown
    BY <1>1 DEF LoadUser, Goto, TypeOK
  <2>2. \A q \in Runner \ {r} : pc'[q] = pc[q]
    BY <1>1 DEF LoadUser, Goto, TypeOK
  <2> QED
    BY <1>1, <2>1, <2>2 DEF IInv, LoadedInv, StoredInv, LoadUser, Goto, TypeOK, local
<1>6. AloneInv'
  BY <1>1 DEF IInv, AloneInv, LoadUser, Goto, TypeOK, local
<1>7. GrantedWasPaid' /\ ProcessedIsStored'
  BY <1>1, <1>3 DEF IInv, GrantedWasPaid, ProcessedIsStored, local
<1> QED
  BY <1>2, <1>3, <1>4, <1>5, <1>6, <1>7 DEF IInv

LEMMA FetchStep == ASSUME IInv, NEW r \in Runner, Fetch(r) PROVE IInv'
<1>1. TypeOK /\ sent' = sent /\ UNCHANGED <<external, local, claim, loaded, alone>>
  BY DEF IInv, Fetch, external
<1>2. PICK s \in Sub :
          /\ stripe[s] # None
          /\ job' = [job EXCEPT ![r].sub = s, ![r].snap = stripe[s]]
          /\ pc' = [pc EXCEPT ![r] = IF stripe[s].plan = Unknown THEN "finish" ELSE "row"]
  BY DEF Fetch, Goto
<1>3. /\ job[r].event = 0
      /\ stripe[s] \in Snapshot
      /\ stripe[s] \in SentFor(s)
      /\ stripe[s].plan # Unknown => stripe[s] \in Row
  BY <1>1, <1>2 DEF IInv, JobInv, JobOf, Fetch, StripeInv, TypeOK, Snapshot, Row
<1>4. TypeOK'
  <2>1. job' \in [Runner -> Job]
    <3>1. job[r] \in Job
      BY <1>1 DEF TypeOK
    <3>2. [job[r] EXCEPT !.sub = s, !.snap = stripe[s]] \in Job
      BY <1>3, <3>1 DEF Job
    <3>3. job' = [job EXCEPT ![r] = [job[r] EXCEPT !.sub = s, !.snap = stripe[s]]]
      BY <1>2
    <3> QED
      BY <1>1, <3>2, <3>3 DEF TypeOK
  <2>2. pc' \in [Runner -> Phase]
    BY <1>1, <1>2 DEF TypeOK, Phase
  <2> QED
    BY <1>1, <2>1, <2>2 DEF TypeOK, external, local
<1>5. /\ job'[r].event = 0 /\ job'[r].sub = s /\ job'[r].snap = stripe[s]
      /\ pc'[r] \in {"finish", "row"}
      /\ pc'[r] = "row" => stripe[s].plan # Unknown
      /\ \A q \in Runner \ {r} : job'[q] = job[q] /\ pc'[q] = pc[q]
  BY <1>1, <1>2, <1>3 DEF TypeOK, Job
<1>6. StripeInv' /\ (\A t : SentFor(t)' = SentFor(t)) /\ PaidPlans' = PaidPlans
  BY <1>1, SameEvents DEF IInv
<1>7. JobInv'
  <2> SUFFICES ASSUME NEW q \in Runner PROVE JobOf(q)'
    BY DEF JobInv
  <2> QED
    BY <1>1, <1>3, <1>5, <1>6 DEF IInv, JobInv, JobOf
<1>8. LoadedInv' /\ StoredInv'
  BY <1>1, <1>5 DEF IInv, LoadedInv, StoredInv, local
<1>9. AloneInv'
  BY <1>1, <1>5 DEF IInv, AloneInv, Fetch, TypeOK, local
<1>10. GrantedWasPaid' /\ ProcessedIsStored'
  BY <1>1, <1>6 DEF IInv, GrantedWasPaid, ProcessedIsStored, local
<1> QED
  BY <1>4, <1>6, <1>7, <1>8, <1>9, <1>10 DEF IInv

LEMMA LoadRowStep == ASSUME IInv, NEW r \in Runner, LoadRow(r) PROVE IInv'
<1>1. TypeOK /\ sent' = sent /\ UNCHANGED <<external, local, claim, job, alone>>
  BY DEF IInv, LoadRow, external
<1>2. /\ job[r].snap \in Row /\ job[r].sub \in Sub
      /\ rows[job[r].sub] \in Row \union {None}
  BY <1>1 DEF IInv, JobInv, JobOf, LoadRow, TypeOK, Row, Snapshot
<1>3. TypeOK'
  BY <1>1, <1>2 DEF TypeOK, LoadRow, Goto, Phase, external, local
<1>4. StripeInv' /\ (\A s : SentFor(s)' = SentFor(s)) /\ PaidPlans' = PaidPlans
  BY <1>1, SameEvents DEF IInv
<1>5. JobInv'
  BY <1>1, <1>4 DEF IInv, JobInv, JobOf, LoadRow, Goto, TypeOK
<1>6. LoadedInv' /\ StoredInv'
  BY <1>1 DEF IInv, LoadedInv, StoredInv, LoadRow, Goto, TypeOK, local
<1>7. AloneInv'
  BY <1>1 DEF IInv, AloneInv, LoadRow, Goto, TypeOK, local
<1>8. GrantedWasPaid' /\ ProcessedIsStored'
  BY <1>1, <1>4 DEF IInv, GrantedWasPaid, ProcessedIsStored, local
<1> QED
  BY <1>3, <1>4, <1>5, <1>6, <1>7, <1>8 DEF IInv
-----------------------------------------------------------------------------
\* The write leaves a proper row, never removes one, and changes the plan only to
\* free or to the plan of an active snapshot.
LEMMA WriteResult ==
    ASSUME IInv, NEW r \in Runner, Write(r)
    PROVE  /\ job[r].sub \in Sub
           /\ rows' \in [Sub -> Row \union {None}]
           /\ rows'[job[r].sub] # None
           /\ \A s \in Sub : rows[s] # None => rows'[s] # None
           /\ \A s \in Sub \ {job[r].sub} : rows'[s] = rows[s]
           /\ plan' \in {plan, Free} \union PaidPlans
           /\ plan' \in Plan \union {Free}
<1> DEFINE s == job[r].sub
           snap == job[r].snap
           new == FlushedRow(snap, loaded[r].row, rows[s])
<1>1. /\ TypeOK
      /\ snap \in Row
      /\ s \in Sub
      /\ snap \in SentFor(s)
  BY DEF IInv, JobInv, JobOf, Write, Row, Snapshot
<1>2. rows[s] \in Row \union {None} /\ loaded[r].row \in Row \union {None}
  BY <1>1 DEF TypeOK
<1>3. PlanAfter(snap, loaded[r].plan) \in {loaded[r].plan, Free} \union PaidPlans
  <2>1. snap.status = "active" => snap.plan \in PaidPlans
    BY <1>1 DEF SentFor, PaidPlans
  <2> QED
    BY <2>1 DEF PlanAfter
<1>4. PlanAfter(snap, loaded[r].plan) \in Plan \union {Free}
  BY <1>1 DEF PlanAfter, Row, TypeOK
<1>5. new \in Row
  <2>1. CASE loaded[r].row = None
    BY <1>1, <2>1 DEF FlushedRow
  <2>2. CASE loaded[r].row # None
    <3>1. loaded[r].row \in Row /\ rows[s] \in Row
      BY <1>1, <1>2, <2>2 DEF IInv, LoadedInv, Write
    <3> QED
      BY <1>1, <2>2, <3>1 DEF FlushedRow, Flushed, Row
  <2> QED
    BY <2>1, <2>2
<1>6. /\ rows' = [rows EXCEPT ![s] = new]
      /\ plan' \in {plan, PlanAfter(snap, loaded[r].plan)}
      /\ PlanAfter(snap, loaded[r].plan) = loaded[r].plan => plan' = plan
  BY DEF Write, Flushed
<1>7. rows' \in [Sub -> Row \union {None}] /\ rows'[s] = new
      /\ \A t \in Sub \ {s} : rows'[t] = rows[t]
  BY <1>1, <1>5, <1>6 DEF TypeOK
<1>8. new # None
  BY <1>5, KindAssumption DEF Row, Snapshot
<1> QED
  BY <1>1, <1>3, <1>4, <1>6, <1>7, <1>8 DEF TypeOK

LEMMA WriteStep == ASSUME IInv, NEW r \in Runner, Write(r) PROVE IInv'
<1>1. /\ TypeOK /\ sent' = sent /\ pc[r] = "write"
      /\ UNCHANGED <<external, claim, job, loaded, alone>>
      /\ pc' = [pc EXCEPT ![r] = "finish"]
  BY DEF IInv, Write, Goto, external
<1>2. /\ job[r].sub \in Sub
      /\ rows' \in [Sub -> Row \union {None}]
      /\ rows'[job[r].sub] # None
      /\ \A s \in Sub : rows[s] # None => rows'[s] # None
      /\ \A s \in Sub \ {job[r].sub} : rows'[s] = rows[s]
      /\ plan' \in {plan, Free} \union PaidPlans
      /\ plan' \in Plan \union {Free}
  BY WriteResult
<1>3. TypeOK'
  <2>1. newest' \in Sub \union {NoSub}
    BY <1>1, <1>2 DEF Write, TypeOK
  <2> QED
    BY <1>1, <1>2, <2>1 DEF TypeOK, Phase, external
<1>4. StripeInv' /\ (\A t : SentFor(t)' = SentFor(t)) /\ PaidPlans' = PaidPlans
  BY <1>1, SameEvents DEF IInv
<1>5. JobInv'
  BY <1>1, <1>4 DEF IInv, JobInv, JobOf, TypeOK
<1>6. LoadedInv'
  <2> SUFFICES ASSUME NEW q \in Runner, pc'[q] = "write", loaded'[q].row # None
               PROVE  rows'[job'[q].sub] # None
    BY DEF LoadedInv
  <2>1. pc[q] = "write"
    BY <1>1 DEF TypeOK
  <2>2. job[q].sub \in Sub /\ rows[job[q].sub] # None
    BY <1>1, <2>1 DEF IInv, JobInv, JobOf, LoadedInv, Row, Snapshot
  <2> QED
    BY <1>1, <1>2, <2>2
<1>7. StoredInv'
  <2> SUFFICES ASSUME NEW q \in Runner, pc'[q] = "finish", job'[q].event # 0,
                      job'[q].snap.plan # Unknown
               PROVE  rows'[job'[q].sub] # None
    BY DEF StoredInv
  <2>1. CASE q = r
    BY <1>1, <1>2, <2>1
  <2>2. CASE q # r
    <3>1. pc[q] = "finish" /\ rows[job[q].sub] # None
      BY <1>1, <2>2 DEF IInv, StoredInv, TypeOK
    <3>2. job[q].sub \in Sub
      <4>1. job[q].event \in DOMAIN sent /\ job[q].sub = sent[job[q].event].sub
        BY <1>1 DEF IInv, JobInv, JobOf
      <4> QED
        BY <1>1, <4>1, EventTypes
    <3> QED
      BY <1>1, <1>2, <3>1, <3>2
  <2> QED
    BY <2>1, <2>2
<1>8. AloneInv'
  BY <1>1 DEF IInv, AloneInv, TypeOK
<1>9. GrantedWasPaid'
  BY <1>2, <1>4 DEF IInv, GrantedWasPaid
<1>10. ProcessedIsStored'
  <2>1. \A e \in DOMAIN sent : sent[e].sub \in Sub
    BY <1>1, EventTypes
  <2> QED
    BY <1>1, <1>2, <2>1 DEF IInv, ProcessedIsStored
<1> QED
  BY <1>3, <1>4, <1>5, <1>6, <1>7, <1>8, <1>9, <1>10 DEF IInv
-----------------------------------------------------------------------------
LEMMA Inductive == IInv /\ [Next]_vars => IInv'
<1> SUFFICES ASSUME IInv, [Next]_vars PROVE IInv'
  OBVIOUS
<1>1. CASE UNCHANGED vars
  <2>1. UNCHANGED <<stripe, sent, claim, rows, newest, plan, pc, job, loaded, alone>>
    BY <1>1 DEF vars, external, local
  <2> QED
    BY <2>1 DEF IInv, TypeOK, StripeInv, SentFor, JobInv, JobOf, LoadedInv, StoredInv,
       AloneInv, GrantedWasPaid, PaidPlans, ProcessedIsStored
<1>2. ASSUME NEW s \in Sub, NEW snap \in Snapshot, StripeChanges(s, snap) PROVE IInv'
  BY <1>2, StripeStep
<1>3. ASSUME NEW r \in Runner, NEW e \in DOMAIN sent, Deliver(r, e) \/ Reprocess(r, e)
      PROVE  IInv'
  <2>1. TypeOK
    BY DEF IInv
  <2>2. /\ TaskOf(e) \in Job /\ TaskOf(e).event = e
    BY <2>1, EventTypes DEF TaskOf, Job
  <2>3. CASE Deliver(r, e)
    BY <2>2, <2>3, StartStep DEF Deliver
  <2>4. CASE Reprocess(r, e)
    BY <2>2, <2>4, StartStep DEF Reprocess
  <2> QED
    BY <1>3, <2>3, <2>4
<1>4. ASSUME NEW r \in Runner, Resync(r) PROVE IInv'
  <2>1. NoJob \in Job /\ NoJob.event = 0 /\ NoJob.snap = None
    BY SubscriptionAssumption DEF NoJob, Job
  <2> QED
    BY <1>4, <2>1, StartStep DEF Resync
<1>5. ASSUME NEW r \in Runner, NEW p \in Comp, Override(r, p) PROVE IInv'
  <2> DEFINE task == [NoJob EXCEPT !.snap = p]
  <2>1. task \in Job /\ task.event = 0 /\ task.snap = p
    BY SubscriptionAssumption DEF NoJob, Job
  <2>2. Start(r, task, "user") /\ UNCHANGED claim
    BY <1>5 DEF Override
  <2> HIDE DEF task
  <2> QED
    BY <2>1, <2>2, StartStep
<1>6. ASSUME NEW r \in Runner, Step(r) PROVE IInv'
  <2>1. CASE Restart(r)
    BY <2>1, RestartStep
  <2>2. CASE LoadUser(r)
    BY <2>2, LoadUserStep
  <2>3. CASE Fetch(r)
    BY <2>3, FetchStep
  <2>4. CASE LoadRow(r)
    BY <2>4, LoadRowStep
  <2>5. CASE Write(r)
    BY <2>5, WriteStep
  <2>6. CASE NothingToFetch(r) \/ RowTaken(r)
    <3>1. pc[r] # "idle" /\ EndRequest(r) /\ UNCHANGED <<claim, rows, newest, plan>>
      BY <2>6 DEF NothingToFetch, RowTaken, local
    <3> QED
      BY <3>1, EndStep
  <2>7. CASE SavePlan(r)
    <3>1. job[r].snap \in Comp
      BY <2>7 DEF SavePlan, IInv, JobInv, JobOf
    <3>2. plan' \in {plan} \union Comp
      BY <2>7, <3>1 DEF SavePlan, Flushed
    <3>3. pc[r] # "idle" /\ EndRequest(r) /\ UNCHANGED <<claim, rows, newest>>
      BY <2>7 DEF SavePlan
    <3> QED
      BY <3>2, <3>3, EndStep
  <2>8. CASE Finish(r)
    <3>1. pc[r] = "finish" /\ EndRequest(r) /\ UNCHANGED <<rows, newest, plan>>
      BY <2>8 DEF Finish, local
    <3>2. claim' = [e \in DOMAIN claim |->
                       IF e = job[r].event THEN "processed" ELSE claim[e]]
      BY <2>8 DEF Finish
    <3> QED
      BY <3>1, <3>2, EndStep
  <2>9. CASE Fail(r)
    <3>1. pc[r] # "idle" /\ EndRequest(r) /\ UNCHANGED <<rows, newest, plan>>
      BY <2>9 DEF Fail, local
    <3>2. \/ UNCHANGED claim
          \/ claim' = [e \in DOMAIN claim |->
                          IF e = job[r].event THEN "failed" ELSE claim[e]]
      BY <2>9 DEF Fail
    <3> QED
      BY <3>1, <3>2, EndStep
  <2> QED
    BY <1>6, <2>1, <2>2, <2>3, <2>4, <2>5, <2>6, <2>7, <2>8, <2>9 DEF Step
<1> QED
  BY <1>1, <1>2, <1>3, <1>4, <1>5, <1>6 DEF Next

\* Whatever Stripe sends and administrators do, and however requests interleave, the
\* strengthened invariant holds.
THEOREM SubscriptionInvariant == Spec => []IInv
  BY InitIInv, Inductive, PTL DEF Spec

\* Variables keep their types: in particular no row takes the plan of an unknown price.
THEOREM SubscriptionTypeCorrect == Spec => []TypeOK
<1>1. IInv => TypeOK
  BY DEF IInv
<1> QED
  BY <1>1, SubscriptionInvariant, PTL

\* users.plan was paid for or given.
THEOREM GrantedAlwaysPaid == Spec => []GrantedWasPaid
<1>1. IInv => GrantedWasPaid
  BY DEF IInv
<1> QED
  BY <1>1, SubscriptionInvariant, PTL

\* An event reported as processed has its subscription stored.
THEOREM ProcessedAlwaysStored == Spec => []ProcessedIsStored
<1>1. IInv => ProcessedIsStored
  BY DEF IInv
<1> QED
  BY <1>1, SubscriptionInvariant, PTL

\* A write of a request without company leaves exactly the snapshot it was given.
LEMMA WriteAlone ==
    ASSUME IInv, NEW r \in alone, Write(r)
    PROVE  /\ rows' = [rows EXCEPT ![job[r].sub] = job[r].snap]
           /\ plan' = PlanAfter(job[r].snap, plan)
<1> DEFINE s == job[r].sub
           snap == job[r].snap
<1>1. r \in Runner /\ pc[r] = "write"
  BY DEF IInv, TypeOK, Write
<1>2. loaded[r].plan = plan /\ loaded[r].row = rows[s] /\ snap \in Row /\ s \in Sub
  BY <1>1 DEF IInv, AloneInv, JobInv, JobOf, Row, Snapshot
<1>3. plan' = PlanAfter(snap, plan)
  BY <1>2 DEF Write, Flushed
<1>4. FlushedRow(snap, rows[s], rows[s]) = snap
  BY <1>2 DEF FlushedRow, Flushed, Row
<1> QED
  BY <1>2, <1>3, <1>4 DEF Write

\* A sync that nothing overlaps mirrors Stripe.
THEOREM SyncAloneAlwaysMirrors == Spec => SyncAloneMirrorsStripe
<1>1. IInv /\ [Next]_vars
          => [\A r \in alone :
                 Write(r) => /\ rows' = [rows EXCEPT ![job[r].sub] = job[r].snap]
                             /\ plan' = PlanAfter(job[r].snap, plan)]_vars
  BY WriteAlone
<1> QED
  BY <1>1, SubscriptionInvariant, PTL DEF Spec, SyncAloneMirrorsStripe
-----------------------------------------------------------------------------
\* While no event says that a subscription ended and nobody gives the free plan away, a plan
\* that is not free stays.  Events grant one when they are written: whoever has read the plan of
\* the user since knows it, which is why the ORM's partial write loses nothing here.
NothingEnded == Free \notin Comp /\ \A e \in DOMAIN sent : sent[e].snap.status # "canceled"

Grants(snap) == snap.status = "active" /\ snap.plan # Unknown

Paying == plan # Free

PaidInv ==
    NothingEnded =>
        /\ \A s \in Sub : rows[s] # None => rows[s].status # "canceled"
        /\ \A r \in Runner : pc[r] \in {"fetch", "row", "write"} /\ loaded[r].plan # Free => Paying
        /\ \A r \in Runner :
              pc[r] = "finish" /\ job[r].event # 0 /\ Grants(job[r].snap) => Paying
        /\ \A e \in DOMAIN sent : claim[e] = "processed" /\ Grants(sent[e].snap) => Paying

\* Stripe's current state of a subscription is that of one of its events; one that has not ended
\* has no event that says so, and one Stripe does not know has no event.
SentInv ==
    \A s \in Sub :
        /\ stripe[s] = None => SentFor(s) = {}
        /\ stripe[s] # None /\ stripe[s].status # "canceled"
              => \A snap \in SentFor(s) : snap.status # "canceled"

NewestInv == newest # NoSub => newest \in Sub /\ rows[newest] # None

PlanInv == SentInv /\ NewestInv /\ PaidInv
-----------------------------------------------------------------------------
LEMMA InitPlanInv == Init => PlanInv
<1> SUFFICES ASSUME Init PROVE PlanInv
  OBVIOUS
<1>1. DOMAIN sent = {}
  BY DEF Init
<1> QED
  BY <1>1 DEF Init, PlanInv, SentInv, SentFor, NewestInv, PaidInv

LEMMA StripePlanStep ==
    ASSUME IInv, PlanInv, NEW s \in Sub, NEW snap \in Snapshot, StripeChanges(s, snap)
    PROVE  PlanInv'
<1>1. TypeOK
  BY DEF IInv
<1>2. /\ DOMAIN sent' = DOMAIN sent \union {Len(sent) + 1}
      /\ Len(sent) + 1 \notin DOMAIN sent
      /\ \A e \in DOMAIN sent : sent'[e] = sent[e] /\ claim'[e] = claim[e]
      /\ sent'[Len(sent) + 1] = [sub |-> s, snap |-> snap]
      /\ claim'[Len(sent) + 1] = "none"
  BY <1>1, AppendEvent
<1>3. /\ stripe' = [stripe EXCEPT ![s] = snap]
      /\ UNCHANGED <<rows, newest, plan, pc, job, loaded>>
  BY DEF StripeChanges, local
<1>4. SentFor(s)' = SentFor(s) \union {snap} /\ \A t \in Sub \ {s} : SentFor(t)' = SentFor(t)
  BY <1>2 DEF SentFor
<1>5. SentInv'
  <2>1. snap # None /\ stripe'[s] = snap /\ \A t \in Sub \ {s} : stripe'[t] = stripe[t]
    BY <1>1, <1>3, KindAssumption DEF TypeOK
  <2>2. stripe[s] # None => stripe[s].status # "canceled"
    BY DEF StripeChanges, Follows
  <2> QED
    BY <1>4, <2>1, <2>2 DEF PlanInv, SentInv
<1>6. NewestInv'
  BY <1>3 DEF PlanInv, NewestInv
<1>7. PaidInv'
  <2>1. NothingEnded' => NothingEnded
    BY <1>2 DEF NothingEnded
  <2> QED
    BY <1>2, <1>3, <2>1 DEF PlanInv, PaidInv, Paying
<1> QED
  BY <1>5, <1>6, <1>7 DEF PlanInv

\* What Stripe has sent and the rows stay as they are, and a plan is not taken away: the
\* invariant then only speaks of what requests have loaded and reported.
LEMMA ReadingPlanStep ==
    ASSUME IInv, PlanInv, UNCHANGED <<stripe, sent, rows, newest>>,
           NothingEnded /\ Paying => Paying',
           NothingEnded => \A q \in Runner :
                 pc'[q] \in {"fetch", "row", "write"} /\ loaded'[q].plan # Free => Paying',
           NothingEnded => \A q \in Runner :
                 pc'[q] = "finish" /\ job'[q].event # 0 /\ Grants(job'[q].snap) => Paying',
           NothingEnded => \A e \in DOMAIN sent :
                 claim'[e] = "processed" /\ Grants(sent[e].snap) => Paying'
    PROVE  PlanInv'
<1>1. SentInv' /\ NewestInv'
  BY DEF PlanInv, SentInv, SentFor, NewestInv
<1>2. NothingEnded' <=> NothingEnded
  BY DEF NothingEnded
<1>3. PaidInv'
  BY <1>2 DEF PlanInv, PaidInv
<1> QED
  BY <1>1, <1>3 DEF PlanInv

\* The write of a snapshot that is no end: the row shows no end either, the plan stays or becomes
\* the snapshot's, and is not free after the write of a granting one.
LEMMA WritePlanStep == ASSUME IInv, PlanInv, NEW r \in Runner, Write(r) PROVE PlanInv'
<1> DEFINE s == job[r].sub
           snap == job[r].snap
<1>1. /\ TypeOK /\ pc[r] = "write" /\ snap \in Row /\ s \in Sub /\ snap \in SentFor(s)
      /\ job[r].event # 0 => snap = sent[job[r].event].snap
  BY DEF IInv, JobInv, JobOf, Write, Row, Snapshot
<1>2. /\ UNCHANGED <<stripe, sent, claim, job, loaded>>
      /\ pc' = [pc EXCEPT ![r] = "finish"]
      /\ rows' = [rows EXCEPT ![s] = FlushedRow(snap, loaded[r].row, rows[s])]
      /\ newest' = IF loaded[r].row = None THEN s ELSE newest
      /\ plan' = Flushed(PlanAfter(snap, loaded[r].plan), loaded[r].plan, plan)
  BY DEF Write, Goto, external
<1>3. /\ \A t \in Sub : rows[t] # None => rows'[t] # None
      /\ rows'[s] # None /\ \A t \in Sub \ {s} : rows'[t] = rows[t]
  BY WriteResult
<1>4. SentInv'
  BY <1>2 DEF PlanInv, SentInv, SentFor
<1>5. NewestInv'
  BY <1>1, <1>2, <1>3 DEF PlanInv, NewestInv
<1>6. PaidInv'
  <2> SUFFICES ASSUME NothingEnded' PROVE PaidInv'
    BY DEF PaidInv
  <2>1. NothingEnded /\ snap.status # "canceled"
    BY <1>1, <1>2 DEF NothingEnded, SentFor
  <2>2. /\ \A t \in Sub : rows[t] # None => rows[t].status # "canceled"
        /\ loaded[r].plan # Free => Paying
        /\ \A q \in Runner : pc[q] \in {"fetch", "row", "write"} /\ loaded[q].plan # Free => Paying
        /\ \A q \in Runner : pc[q] = "finish" /\ job[q].event # 0 /\ Grants(job[q].snap) => Paying
        /\ \A e \in DOMAIN sent : claim[e] = "processed" /\ Grants(sent[e].snap) => Paying
    BY <1>1, <2>1 DEF PlanInv, PaidInv
  <2>3. \A t \in Sub : rows'[t] # None => rows'[t].status # "canceled"
    <3>1. loaded[r].row # None => rows[s] # None
      BY <1>1 DEF IInv, LoadedInv
    <3>2. rows[s] \in Row \union {None}
      BY <1>1 DEF TypeOK
    <3>3. FlushedRow(snap, loaded[r].row, rows[s]).status # "canceled"
      BY <1>1, <2>1, <2>2, <3>1, <3>2 DEF FlushedRow, Flushed
    <3>4. rows'[s] = FlushedRow(snap, loaded[r].row, rows[s])
      BY <1>1, <1>2 DEF TypeOK
    <3> QED
      BY <1>3, <2>2, <3>3, <3>4
  <2>4. PlanAfter(snap, loaded[r].plan) \in {snap.plan, loaded[r].plan}
    BY <2>1 DEF PlanAfter
  <2>5. snap.plan # Free /\ snap.plan # Unknown
    BY <1>1, SubscriptionAssumption DEF Row
  <2>6. Paying => Paying'
    BY <1>2, <2>4, <2>5 DEF Paying, Flushed
  <2>7. snap.status = "active" => Paying'
    <3>1. CASE loaded[r].plan = snap.plan
      BY <2>2, <2>5, <2>6, <3>1
    <3>2. CASE loaded[r].plan # snap.plan
      <4>1. snap.status = "active" => plan' = snap.plan
        BY <1>2, <3>2 DEF PlanAfter, Flushed
      <4> QED
        BY <2>5, <4>1 DEF Paying
    <3> QED
      BY <3>1, <3>2
  <2>8. \A q \in Runner : pc'[q] \in {"fetch", "row", "write"} => pc[q] = pc'[q]
    BY <1>1, <1>2 DEF TypeOK
  <2>9. \A q \in Runner : pc'[q] = "finish" => pc[q] = "finish" \/ q = r
    BY <1>1, <1>2 DEF TypeOK
  <2> QED
    BY <1>2, <2>2, <2>3, <2>6, <2>7, <2>8, <2>9 DEF PaidInv, Grants
<1> QED
  BY <1>4, <1>5, <1>6 DEF PlanInv

\* A request starts or goes on without writing.
LEMMA QuietPlanStep ==
    ASSUME IInv, PlanInv, NEW r \in Runner,
           UNCHANGED <<stripe, sent, rows, newest, plan>>,
           \A e \in DOMAIN sent : claim'[e] = "processed" =>
               claim[e] = "processed" \/ (pc[r] = "finish" /\ job[r].event = e),
           \A q \in Runner \ {r} :
               pc'[q] = pc[q] /\ job'[q] = job[q] /\ loaded'[q] = loaded[q],
           pc'[r] \in {"fetch", "row", "write"} =>
               loaded'[r].plan = plan \/ (pc[r] \in {"fetch", "row", "write"} /\ loaded'[r].plan = loaded[r].plan),
           pc'[r] = "finish" => job'[r].event = 0 \/ job'[r].snap.plan = Unknown
    PROVE  PlanInv'
<1>1. TypeOK /\ 0 \notin DOMAIN sent /\ JobOf(r)
  BY EventTypes DEF IInv, JobInv
<1>2. Paying' <=> Paying
  BY DEF Paying
<1>3. ASSUME NothingEnded
      PROVE  /\ \A q \in Runner : pc[q] \in {"fetch", "row", "write"} /\ loaded[q].plan # Free => Paying
             /\ \A q \in Runner : pc[q] = "finish" /\ job[q].event # 0 /\ Grants(job[q].snap) => Paying
             /\ \A e \in DOMAIN sent : claim[e] = "processed" /\ Grants(sent[e].snap) => Paying
  BY <1>3 DEF PlanInv, PaidInv
<1>4. NothingEnded => \A q \in Runner :
          pc'[q] \in {"fetch", "row", "write"} /\ loaded'[q].plan # Free => Paying'
  BY <1>2, <1>3 DEF Paying
<1>5. NothingEnded => \A q \in Runner :
          pc'[q] = "finish" /\ job'[q].event # 0 /\ Grants(job'[q].snap) => Paying'
  BY <1>2, <1>3 DEF Grants
<1>6. NothingEnded => \A e \in DOMAIN sent :
          claim'[e] = "processed" /\ Grants(sent[e].snap) => Paying'
  BY <1>1, <1>2, <1>3 DEF JobOf
<1> QED
  BY <1>2, <1>4, <1>5, <1>6, ReadingPlanStep
-----------------------------------------------------------------------------
LEMMA NextPlanInv == ASSUME IInv, PlanInv, [Next]_vars PROVE PlanInv'
<1>0. TypeOK /\ DOMAIN claim = DOMAIN sent /\ 0 \notin DOMAIN sent
  BY EventTypes DEF IInv, TypeOK
<1>1. CASE UNCHANGED vars
  <2>1. UNCHANGED <<stripe, sent, claim, rows, newest, plan, pc, job, loaded, alone>>
    BY <1>1 DEF vars, external, local
  <2> QED
    BY <2>1 DEF PlanInv, SentInv, SentFor, NewestInv, PaidInv, NothingEnded, Paying
<1>2. ASSUME NEW s \in Sub, NEW snap \in Snapshot, StripeChanges(s, snap) PROVE PlanInv'
  BY <1>2, StripePlanStep
<1>3. ASSUME NEW r \in Runner, NEW task \in Job, NEW phase \in {"restart", "user"},
             Start(r, task, phase),
             UNCHANGED claim \/ claim' = [claim EXCEPT ![task.event] = "processing"]
      PROVE  PlanInv'
  <2>1. /\ UNCHANGED <<stripe, sent, rows, newest, plan>>
        /\ pc'[r] = phase
        /\ \A q \in Runner \ {r} :
              pc'[q] = pc[q] /\ job'[q] = job[q] /\ loaded'[q] = loaded[q]
    BY <1>0, <1>3 DEF Start, Goto, TypeOK, external, local
  <2>2. \A e \in DOMAIN sent : claim'[e] = "processed" => claim[e] = "processed"
    BY <1>0, <1>3 DEF TypeOK
  <2> QED
    BY <2>1, <2>2, QuietPlanStep
<1>4. ASSUME NEW r \in Runner, NEW e \in DOMAIN sent, Deliver(r, e) \/ Reprocess(r, e)
      PROVE  PlanInv'
  <2>1. TaskOf(e) \in Job /\ TaskOf(e).event = e
    BY <1>0, EventTypes DEF TaskOf, Job
  <2> QED
    BY <1>3, <1>4, <2>1 DEF Deliver, Reprocess
<1>5. ASSUME NEW r \in Runner, Resync(r) PROVE PlanInv'
  <2>1. NoJob \in Job
    BY SubscriptionAssumption DEF NoJob, Job
  <2> QED
    BY <1>3, <1>5, <2>1 DEF Resync
<1>6. ASSUME NEW r \in Runner, NEW p \in Comp, Override(r, p) PROVE PlanInv'
  <2> DEFINE task == [NoJob EXCEPT !.snap = p]
  <2>1. task \in Job
    BY SubscriptionAssumption DEF NoJob, Job
  <2>2. Start(r, task, "user") /\ UNCHANGED claim
    BY <1>6 DEF Override
  <2> HIDE DEF task
  <2> QED
    BY <1>3, <2>1, <2>2
<1>7. ASSUME NEW r \in Runner, Step(r) PROVE PlanInv'
  <2>1. CASE Restart(r)
    <3>1. /\ UNCHANGED <<stripe, sent, rows, newest, plan, job, loaded>>
          /\ pc' = [pc EXCEPT ![r] = "user"]
          /\ claim' = [claim EXCEPT ![job[r].event] = "processing"]
      BY <2>1 DEF Restart, Goto, external, local
    <3>2. /\ pc'[r] = "user" /\ \A q \in Runner \ {r} : pc'[q] = pc[q]
          /\ \A e \in DOMAIN sent : claim'[e] = "processed" => claim[e] = "processed"
      BY <1>0, <3>1 DEF TypeOK
    <3> QED
      BY <3>1, <3>2, QuietPlanStep
  <2>2. CASE LoadUser(r)
    <3>1. /\ UNCHANGED <<stripe, sent, rows, newest, plan, job, claim>>
          /\ loaded' = [loaded EXCEPT ![r].plan = plan]
      BY <2>2 DEF LoadUser, external, local
    <3>2. /\ \A q \in Runner \ {r} : pc'[q] = pc[q] /\ loaded'[q] = loaded[q]
          /\ loaded'[r].plan = plan
          /\ pc'[r] = "finish" => job[r].snap.plan = Unknown
      BY <1>0, <2>2, <3>1 DEF TypeOK, LoadUser, Goto
    <3> QED
      BY <3>1, <3>2, QuietPlanStep
  <2>3. CASE Fetch(r)
    <3>1. UNCHANGED <<stripe, sent, rows, newest, plan, claim, loaded>> /\ job[r].event = 0
      BY <2>3 DEF Fetch, external, local, IInv, JobInv, JobOf
    <3>2. PICK s \in Sub :
              /\ job' = [job EXCEPT ![r].sub = s, ![r].snap = stripe[s]]
              /\ pc' = [pc EXCEPT ![r] = IF stripe[s].plan = Unknown THEN "finish" ELSE "row"]
      BY <2>3 DEF Fetch, Goto
    <3>3. /\ \A q \in Runner \ {r} : pc'[q] = pc[q] /\ job'[q] = job[q]
          /\ job'[r].event = 0
      BY <1>0, <3>1, <3>2 DEF TypeOK, Job
    <3> QED
      BY <2>3, <3>1, <3>3, QuietPlanStep DEF Fetch
  <2>4. CASE LoadRow(r)
    <3>1. /\ UNCHANGED <<stripe, sent, rows, newest, plan, job, claim>>
          /\ pc[r] = "row" /\ pc' = [pc EXCEPT ![r] = "write"]
          /\ loaded' = [loaded EXCEPT ![r].row = rows[job[r].sub]]
      BY <2>4 DEF LoadRow, Goto, external, local
    <3>2. /\ \A q \in Runner \ {r} : pc'[q] = pc[q] /\ loaded'[q] = loaded[q]
          /\ loaded'[r].plan = loaded[r].plan /\ pc'[r] = "write"
      BY <1>0, <3>1 DEF TypeOK
    <3> QED
      BY <3>1, <3>2, QuietPlanStep
  <2>5. CASE Write(r)
    BY <2>5, WritePlanStep
  <2>6. ASSUME EndRequest(r), UNCHANGED <<rows, newest, plan>>,
               NEW v \in {"processed", "failed"}, v = "processed" => pc[r] = "finish",
               \/ UNCHANGED claim
               \/ claim' = [e \in DOMAIN claim |-> IF e = job[r].event THEN v ELSE claim[e]]
        PROVE  PlanInv'
    <3>1. /\ UNCHANGED <<stripe, sent>> /\ pc'[r] = "idle"
          /\ \A q \in Runner \ {r} :
                pc'[q] = pc[q] /\ job'[q] = job[q] /\ loaded'[q] = loaded[q]
      BY <1>0, <2>6 DEF EndRequest, Goto, TypeOK, external
    <3>2. \A e \in DOMAIN sent : claim'[e] = "processed" =>
              claim[e] = "processed" \/ (pc[r] = "finish" /\ job[r].event = e)
      BY <1>0, <2>6
    <3> QED
      BY <2>6, <3>1, <3>2, QuietPlanStep
  <2>7. CASE NothingToFetch(r) \/ RowTaken(r)
    BY <2>6, <2>7 DEF NothingToFetch, RowTaken, local
  <2>8. CASE Finish(r)
    BY <2>6, <2>8 DEF Finish, local
  <2>9. CASE Fail(r)
    BY <2>6, <2>9 DEF Fail, local
  <2>10. CASE SavePlan(r)
    <3>1. /\ UNCHANGED <<stripe, sent, rows, newest, claim>> /\ pc'[r] = "idle"
          /\ \A q \in Runner \ {r} :
                pc'[q] = pc[q] /\ job'[q] = job[q] /\ loaded'[q] = loaded[q]
          /\ plan' = Flushed(job[r].snap, loaded[r].plan, plan)
          /\ job[r].snap \in Comp
      BY <1>0, <2>10 DEF SavePlan, EndRequest, Goto, TypeOK, external, IInv, JobInv, JobOf
    <3>2. NothingEnded /\ Paying => Paying'
      BY <3>1 DEF NothingEnded, Paying, Flushed
    <3> QED
      BY <3>1, <3>2, ReadingPlanStep DEF PlanInv, PaidInv
  <2> QED
    BY <1>7, <2>1, <2>2, <2>3, <2>4, <2>5, <2>7, <2>8, <2>9, <2>10 DEF Step
<1> QED
  BY <1>1, <1>2, <1>4, <1>5, <1>6, <1>7 DEF Next

\* Once all is handled, Stripe's state of the only subscription was processed, and what it
\* granted is still there.
LEMMA SoleKeeps == ASSUME IInv, PlanInv PROVE SoleSubscriberKeepsPlan
<1> SUFFICES ASSUME AllHandled, Free \notin Comp,
                    NEW s \in Sub, Pays(s), \A t \in Sub \ {s} : stripe[t] = None
             PROVE  EffectivePlan # Free
  BY DEF SoleSubscriberKeepsPlan
<1>1. TypeOK
  BY DEF IInv
<1>2. \A e \in DOMAIN sent : sent[e].sub = s
  <2> SUFFICES ASSUME NEW e \in DOMAIN sent, sent[e].sub # s PROVE FALSE
    OBVIOUS
  <2>1. sent[e].sub \in Sub \ {s}
    BY <1>1, EventTypes
  <2>2. sent[e].snap \in SentFor(sent[e].sub)
    BY DEF SentFor
  <2> QED
    BY <2>1, <2>2 DEF PlanInv, SentInv
<1>3. NothingEnded
  BY <1>2 DEF Pays, PlanInv, SentInv, SentFor, NothingEnded
<1>4. PICK e \in DOMAIN sent : sent[e].snap = stripe[s]
  BY DEF Pays, IInv, StripeInv, SentFor
<1>5. Paying
  BY <1>3, <1>4 DEF AllHandled, Pays, Grants, PlanInv, PaidInv
<1>6. newest # NoSub => rows[newest].status # "canceled"
  BY <1>3 DEF PlanInv, PaidInv, NewestInv
<1> QED
  BY <1>5, <1>6 DEF EffectivePlan, Paying

\* A customer whose only subscription is active keeps a paid plan, in whatever order, number
\* and interleaving its events are delivered, replayed and resynced.
THEOREM SoleSubscriberAlwaysKeepsPlan == Spec => []SoleSubscriberKeepsPlan
<1>1. IInv /\ PlanInv /\ [Next]_vars => PlanInv'
  BY NextPlanInv
<1>2. IInv /\ PlanInv => SoleSubscriberKeepsPlan
  BY SoleKeeps
<1> QED
  BY <1>1, <1>2, InitPlanInv, SubscriptionInvariant, PTL DEF Spec
=============================================================================
