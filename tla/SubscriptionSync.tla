-------------------------- MODULE SubscriptionSync --------------------------
(***************************************************************************)
(* How the local rows of one Stripe customer follow Stripe's               *)
(* subscriptions (services/billing_service.py): webhook deliveries and     *)
(* their replays, the administrator's resync and plan override, each a     *)
(* request with a session of its own.                                      *)
(*                                                                         *)
(* A session remembers what it loaded.  At the commit the ORM writes only  *)
(* the attributes that differ from the loaded ones, so two overlapping     *)
(* requests leave a mixture behind, and a replayed or late event writes an *)
(* old state over a new one.                                               *)
(*                                                                         *)
(* Customers share nothing but the claim of events, which StripeWebhook    *)
(* models with its failures; here a claim is one step.  The user row names *)
(* the customer before Stripe can create a subscription of it, so the user *)
(* is always found; that two first checkouts at once may create two        *)
(* customers is left out.                                                  *)
(***************************************************************************)
EXTENDS Naturals, Sequences

CONSTANTS Sub,      \* Stripe subscriptions of the customer
          NoSub,    \* not in Sub
          Plan,     \* plans one pays for
          Free,     \* the plan of everybody else
          Unknown,  \* what a price id outside the price table stands for
          Comp,     \* plans administrators give away
          None,     \* no row, no snapshot
          Runner,   \* slots for concurrent requests
          MaxEvents \* Stripe's state changes at most so often

ASSUME SubscriptionAssumption ==
    /\ NoSub \notin Sub
    /\ Free \notin Plan
    /\ Unknown \notin Plan \union {Free}
    /\ Comp \subseteq Plan \union {Free}
    /\ MaxEvents \in Nat

\* Statuses the service tells apart: trialing counts as active, unpaid and
\* incomplete_expired as canceled, paused as incomplete.
Status == {"incomplete", "active", "past_due", "canceled"}

Snapshot == [status : Status, plan : Plan \union {Unknown}]

Row == [status : Status, plan : Plan]

\* Snapshots, plans and None are different kinds of things.
ASSUME KindAssumption ==
    /\ None \notin Snapshot \union Plan \union {Free}
    /\ Snapshot \intersect (Plan \union {Free}) = {}

VARIABLES stripe, \* stripe[s]: what Stripe knows of s
          sent,   \* the events so far, oldest first: a subscription and its snapshot
          claim,  \* claim[e]: webhook_events.status of the e-th event
          rows,   \* rows[s]: the subscriptions row of s
          newest, \* the subscription whose row was created last
          plan,   \* users.plan
          pc,     \* pc[r]: where request r stands
          job,    \* job[r]: its task
          loaded, \* loaded[r]: the user's plan and the row its session holds
          alone   \* history: requests that no other request has overlapped

local == <<rows, newest, plan>>
external == <<stripe, sent>>
vars == <<external, claim, local, pc, job, loaded, alone>>

Phase == {"idle", "restart", "user", "fetch", "row", "write", "save", "finish"}

\* A task: an event (0: none), the subscription it is about, the snapshot to apply.
\* An override carries the plan to set instead.
NoJob == [event |-> 0, sub |-> NoSub, snap |-> None]

Job == [event : 0 .. MaxEvents, sub : Sub \union {NoSub},
        snap : Snapshot \union Comp \union {None}]

NothingLoaded == [plan |-> Free, row |-> None]
-----------------------------------------------------------------------------
Init ==
    /\ stripe = [s \in Sub |-> None]
    /\ sent = <<>>
    /\ claim = <<>>
    /\ rows = [s \in Sub |-> None]
    /\ newest = NoSub
    /\ plan = Free
    /\ pc = [r \in Runner |-> "idle"]
    /\ job = [r \in Runner |-> NoJob]
    /\ loaded = [r \in Runner |-> NothingLoaded]
    /\ alone = {}

\* Stripe: a subscription starts, is paid, changes plan, falls due, recovers or ends;
\* an event with the new state is on its way.  Nothing follows the end.
Follows(old, new) ==
    \/ old = None /\ new.status \in {"incomplete", "active"}
    \/ /\ old # None
       /\ old # new
       /\ old.status # "canceled"
       /\ new.status = "incomplete" => old.status = "incomplete"
       /\ new.status = "past_due" => old.status \in {"active", "past_due"}

StripeChanges(s, snap) ==
    /\ Len(sent) < MaxEvents
    /\ Follows(stripe[s], snap)
    /\ stripe' = [stripe EXCEPT ![s] = snap]
    /\ sent' = Append(sent, [sub |-> s, snap |-> snap])
    /\ claim' = Append(claim, "none")
    /\ UNCHANGED <<local, pc, job, loaded, alone>>
-----------------------------------------------------------------------------
Goto(r, phase) == pc' = [pc EXCEPT ![r] = phase]

Start(r, task, phase) ==
    /\ pc[r] = "idle"
    /\ Goto(r, phase)
    /\ job' = [job EXCEPT ![r] = task]
    /\ alone' = IF \A q \in Runner : pc[q] = "idle" THEN {r} ELSE {}
    /\ UNCHANGED <<external, local, loaded>>

EndRequest(r) ==
    /\ Goto(r, "idle")
    /\ job' = [job EXCEPT ![r] = NoJob]
    /\ loaded' = [loaded EXCEPT ![r] = NothingLoaded]
    /\ UNCHANGED <<external, alone>>

TaskOf(e) == [event |-> e, sub |-> sent[e].sub, snap |-> sent[e].snap]

\* A delivery claims the event; deliveries of a claimed one end there.
Deliver(r, e) ==
    /\ claim[e] = "none"
    /\ claim' = [claim EXCEPT ![e] = "processing"]
    /\ Start(r, TaskOf(e), "user")

\* An administrator replays a handled event, whose stored state is fetched first.
Reprocess(r, e) ==
    /\ claim[e] \in {"processed", "failed"}
    /\ Start(r, TaskOf(e), "restart")
    /\ UNCHANGED claim

Restart(r) ==
    /\ pc[r] = "restart"
    /\ claim' = [claim EXCEPT ![job[r].event] = "processing"]
    /\ Goto(r, "user")
    /\ UNCHANGED <<external, local, job, loaded, alone>>

Resync(r) ==
    /\ Start(r, NoJob, "user")
    /\ UNCHANGED claim

Override(r, p) ==
    /\ Start(r, [NoJob EXCEPT !.snap = p], "user")
    /\ UNCHANGED claim
-----------------------------------------------------------------------------
LoadUserUnchecked(r) ==
    /\ pc[r] = "user"
    /\ loaded' = [loaded EXCEPT ![r].plan = plan]
    /\ \/ job[r].snap \in Comp /\ Goto(r, "save")
       \/ job[r].snap = None /\ Goto(r, "fetch")
       \/ job[r].snap \in Snapshot /\ Goto(r, "row")
    /\ UNCHANGED <<external, claim, local, job, alone>>

\* The user is loaded once; a later SELECT in the session returns the same object,
\* not refreshed.  A subscription of an unknown price is skipped.
LoadUser(r) ==
    /\ pc[r] = "user"
    /\ loaded' = [loaded EXCEPT ![r].plan = plan]
    /\ \/ job[r].snap \in Comp /\ Goto(r, "save")
       \/ job[r].snap = None /\ Goto(r, "fetch")
       \/ /\ job[r].snap \in Snapshot
          /\ Goto(r, IF job[r].snap.plan = Unknown THEN "finish" ELSE "row")
    /\ UNCHANGED <<external, claim, local, job, alone>>

\* Resync picks, among the customer's subscriptions, the one whose period ends last;
\* periods are not modelled, so that it may be any.
Fetch(r) ==
    /\ pc[r] = "fetch"
    /\ \E s \in Sub :
          /\ stripe[s] # None
          /\ job' = [job EXCEPT ![r].sub = s, ![r].snap = stripe[s]]
          /\ Goto(r, IF stripe[s].plan = Unknown THEN "finish" ELSE "row")
    /\ UNCHANGED <<external, claim, local, loaded, alone>>

NothingToFetch(r) ==
    /\ pc[r] = "fetch"
    /\ \A s \in Sub : stripe[s] = None
    /\ EndRequest(r)
    /\ UNCHANGED <<claim, local>>

LoadRow(r) ==
    /\ pc[r] = "row"
    /\ loaded' = [loaded EXCEPT ![r].row = rows[job[r].sub]]
    /\ Goto(r, "write")
    /\ UNCHANGED <<external, claim, local, job, alone>>

PlanAfterAnyStatus(snap, current) == IF snap.status = "canceled" THEN Free ELSE snap.plan

\* users.plan after a snapshot: past_due keeps it for the grace period.
PlanAfter(snap, current) ==
    CASE snap.status = "active" -> snap.plan
      [] snap.status = "canceled" -> Free
      [] OTHER -> current

\* The flush of an attribute: written only if it differs from what was loaded.
Flushed(new, old, stored) == IF new # old THEN new ELSE stored

FlushedRowWithoutPlan(new, old, stored) ==
    IF old = None THEN new
    ELSE [stored EXCEPT !.status = Flushed(new.status, old.status, stored.status)]

FlushedRow(new, old, stored) ==
    IF old = None THEN new
    ELSE [status |-> Flushed(new.status, old.status, stored.status),
          plan |-> Flushed(new.plan, old.plan, stored.plan)]

WriteEverything(r) ==
    LET s == job[r].sub
        snap == job[r].snap
    IN  /\ pc[r] = "write"
        /\ loaded[r].row = None => rows[s] = None
        /\ rows' = [rows EXCEPT ![s] = snap]
        /\ newest' = IF loaded[r].row = None THEN s ELSE newest
        /\ plan' = PlanAfter(snap, loaded[r].plan)
        /\ Goto(r, "finish")
        /\ UNCHANGED <<external, claim, job, loaded, alone>>

Write(r) ==
    LET s == job[r].sub
        snap == job[r].snap
    IN  /\ pc[r] = "write"
        /\ loaded[r].row = None => rows[s] = None
        /\ rows' = [rows EXCEPT ![s] = FlushedRow(snap, loaded[r].row, rows[s])]
        /\ newest' = IF loaded[r].row = None THEN s ELSE newest
        /\ plan' = Flushed(PlanAfter(snap, loaded[r].plan), loaded[r].plan, plan)
        /\ Goto(r, "finish")
        /\ UNCHANGED <<external, claim, job, loaded, alone>>

\* Another request has inserted the row meanwhile: the unique index refuses this
\* one's, and its session cannot record the failure.
RowTaken(r) ==
    /\ pc[r] = "write"
    /\ loaded[r].row = None
    /\ rows[job[r].sub] # None
    /\ EndRequest(r)
    /\ UNCHANGED <<claim, local>>

SavePlan(r) ==
    /\ pc[r] = "save"
    /\ plan' = Flushed(job[r].snap, loaded[r].plan, plan)
    /\ EndRequest(r)
    /\ UNCHANGED <<claim, rows, newest>>

\* Audit row and final status; a resync has no event.
Finish(r) ==
    /\ pc[r] = "finish"
    /\ claim' = [e \in DOMAIN claim |->
                    IF e = job[r].event THEN "processed" ELSE claim[e]]
    /\ EndRequest(r)
    /\ UNCHANGED local

FailAsProcessed(r) ==
    /\ pc[r] # "idle"
    /\ claim' = [e \in DOMAIN claim |->
                    IF e = job[r].event THEN "processed" ELSE claim[e]]
    /\ EndRequest(r)
    /\ UNCHANGED local

\* An error ends the request; the status says "failed" if it can still be written.
Fail(r) ==
    /\ pc[r] # "idle"
    /\ \/ UNCHANGED claim
       \/ /\ pc[r] \notin {"restart", "save"}
          /\ claim' = [e \in DOMAIN claim |->
                          IF e = job[r].event THEN "failed" ELSE claim[e]]
    /\ EndRequest(r)
    /\ UNCHANGED local
-----------------------------------------------------------------------------
Step(r) ==
    \/ Restart(r) \/ LoadUser(r) \/ Fetch(r) \/ NothingToFetch(r) \/ LoadRow(r)
    \/ Write(r) \/ RowTaken(r) \/ SavePlan(r) \/ Finish(r) \/ Fail(r)

Next ==
    \/ \E s \in Sub, snap \in Snapshot : StripeChanges(s, snap)
    \/ \E r \in Runner :
          \/ \E e \in DOMAIN sent : Deliver(r, e) \/ Reprocess(r, e)
          \/ Resync(r)
          \/ \E p \in Comp : Override(r, p)
          \/ Step(r)

Spec == Init /\ [][Next]_vars
-----------------------------------------------------------------------------
TypeOK ==
    /\ stripe \in [Sub -> Snapshot \union {None}]
    /\ sent \in Seq([sub : Sub, snap : Snapshot])
    /\ Len(sent) <= MaxEvents
    /\ claim \in [DOMAIN sent -> {"none", "processing", "processed", "failed"}]
    /\ rows \in [Sub -> Row \union {None}]
    /\ newest \in Sub \union {NoSub}
    /\ plan \in Plan \union {Free}
    /\ pc \in [Runner -> Phase]
    /\ job \in [Runner -> Job]
    /\ loaded \in [Runner -> [plan : Plan \union {Free}, row : Row \union {None}]]
    /\ alone \subseteq Runner

\* A plan is free of charge only by an administrator's gift: whatever is replayed,
\* reordered or mixed up, users.plan was paid for under that name at some time.
\* (sync_subscription_from_stripe sets it on active and trialing only.)
PaidPlans == {sent[e].snap.plan : e \in {i \in DOMAIN sent : sent[i].snap.status = "active"}}

GrantedWasPaid == plan \in {Free} \union Comp \union PaidPlans

\* An event reported as processed has left its subscription in the database, even
\* when two events of a new subscription raced to insert its row.
ProcessedIsStored ==
    \A e \in DOMAIN sent :
        claim[e] = "processed" /\ sent[e].snap.plan # Unknown
            => rows[sent[e].sub] # None

\* "Idempotent - safe to call multiple times with same data" (the docstring of
\* sync_subscription_from_stripe): a sync that nothing overlaps leaves exactly the
\* state it was given, whatever races and replays came before.
SyncAloneMirrorsStripe ==
    [][\A r \in alone :
          Write(r) => /\ rows' = [rows EXCEPT ![job[r].sub] = job[r].snap]
                      /\ plan' = PlanAfter(job[r].snap, plan)]_vars

\* compute_entitlements, over the row get_active_subscription finds.
EffectivePlan ==
    IF newest # NoSub /\ rows[newest].status = "canceled" THEN Free ELSE plan

AllHandled ==
    /\ \A r \in Runner : pc[r] = "idle"
    /\ \A e \in DOMAIN sent : claim[e] = "processed"

Pays(s) ==
    /\ stripe[s] # None
    /\ stripe[s].status = "active"
    /\ stripe[s].plan # Unknown

\* A customer with one subscription, active at Stripe, is not on the free plan once
\* all its events are processed, in whatever order, number and interleaving.
SoleSubscriberKeepsPlan ==
    AllHandled /\ Free \notin Comp
               /\ (\E s \in Sub : Pays(s) /\ \A t \in Sub \ {s} : stripe[t] = None)
        => EffectivePlan # Free

\* "Keep User.plan in sync" (sync_subscription_from_stripe): so does a customer with
\* several subscriptions, which create_checkout_session allows.
PayingKeepsPlan ==
    AllHandled /\ Free \notin Comp /\ (\E s \in Sub : Pays(s))
        => EffectivePlan # Free

\* "Syncs User.plan to match subscription status" (the same docstring): with no
\* request open, the plan is the one of an active row and free after a canceled one.
PlanMatchesRow ==
    (\A r \in Runner : pc[r] = "idle")
        => \A s \in Sub : rows[s] # None => plan = PlanAfter(rows[s], plan)
=============================================================================
