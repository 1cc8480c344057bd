---------------------------- MODULE StripeWebhook ----------------------------
(***************************************************************************)
(* Stripe's events on their way to the credit account: the webhook         *)
(* endpoint (routers/billing.py stripe_webhook, over                       *)
(* core/monetization/webhook_handler_service.py) and the administrator's   *)
(* replay of a stored event (routers/admin.py admin_reprocess_webhook).    *)
(* Both run services/billing_service.py process_stripe_event.              *)
(*                                                                         *)
(* Stripe delivers an event until one delivery is answered with 200, and   *)
(* now and then once more.  The row of webhook_events is what keeps a      *)
(* second delivery from processing it; the idempotency key of the ledger   *)
(* row is what keeps a replay from paying it twice.  Every awaited         *)
(* statement may fail, and a failed statement may leave the request's      *)
(* database session unusable for the statements that were to record the    *)
(* failure.                                                                *)
(*                                                                         *)
(* The account itself is CreditAccount, which the credit service           *)
(* implements (CreditLedger).                                              *)
(***************************************************************************)
EXTENDS CreditAccount, FiniteSetsExt

CONSTANTS Event,         \* Stripe events
          Delivery,      \* slots for concurrent webhook requests
          Admin,         \* slots for concurrent reprocess requests
          NoEvent,       \* the slot is free
          CheckoutOf,    \* CheckoutOf[e]: the checkout session of e, NoKey for an
                         \* event of a type process_stripe_event does not handle
          BuyerOf,       \* BuyerOf[k]: client_reference_id of checkout session k
          CreditsOf,     \* CreditsOf[k]: credits in its metadata
          MaxDeliveries, \* Stripe delivers an event at most so often
          MaxReplays,    \* administrators start so many replays in all
          MaxFaults      \* so many requests meet a fault in all

Runner == Delivery \union Admin

ASSUME WebhookAssumption ==
    /\ NoKey \notin Key
    /\ NoEvent \notin Event
    /\ Delivery \intersect Admin = {}
    /\ CheckoutOf \in [Event -> Key \union {NoKey}]
    /\ BuyerOf \in [Key -> User]
    /\ CreditsOf \in [Key -> Amount]
    /\ Amount \subseteq Int
    /\ \A k \in Key : CreditsOf[k] > 0
    /\ MaxDeliveries \in Nat /\ MaxReplays \in Nat /\ MaxFaults \in Nat

VARIABLES status,     \* status[e]: webhook_events.status of e, "none" without a row
          audited,    \* checkout sessions with a credits_purchased audit row
          deliveries, \* deliveries[e]: how often Stripe has sent e
          acked,      \* events one delivery of which Stripe saw answered with 200
          pc,         \* pc[r]: where request r stands
          event,      \* event[r]: the event r is about
          session,    \* session[r]: the state of r's database session
          replays,
          faults

rows == <<status, audited, accountVars>>
stripe == <<deliveries, acked>>
budget == <<replays, faults>>
vars == <<rows, stripe, pc, event, session, budget>>

Status == {"none", "processing", "processed", "ignored", "failed"}

Phase == {"idle", "claim", "restart", "check", "post", "audit", "finish", "except",
          "exit"}

\* A session whose transaction PostgreSQL aborted refuses every statement but ends
\* with an empty COMMIT; one whose flush or connection failed refuses that as well.
Session == {"usable", "aborted", "dead"}
-----------------------------------------------------------------------------
Goto(r, phase) == pc' = [pc EXCEPT ![r] = phase]

FreeSlot(r) ==
    /\ pc' = [pc EXCEPT ![r] = "idle"]
    /\ event' = [event EXCEPT ![r] = NoEvent]
    /\ session' = [session EXCEPT ![r] = "usable"]

\* A request meets a fault: its session ends up in a state of "left" and it goes on
\* at "phase".
Fault(r, left, phase) ==
    /\ faults < MaxFaults
    /\ faults' = faults + 1
    /\ \E s \in left : session' = [session EXCEPT ![r] = s]
    /\ Goto(r, phase)
    /\ UNCHANGED <<rows, stripe, event, replays>>

SetStatus(r, value) == status' = [status EXCEPT ![event[r]] = value]

Checkout(r) == CheckoutOf[event[r]]

Credited(k) == \E p \in posted : p.key = k
-----------------------------------------------------------------------------
Init ==
    /\ AccountInit
    /\ status = [e \in Event |-> "none"]
    /\ audited = {}
    /\ deliveries = [e \in Event |-> 0]
    /\ acked = {}
    /\ pc = [r \in Runner |-> "idle"]
    /\ event = [r \in Runner |-> NoEvent]
    /\ session = [r \in Runner |-> "usable"]
    /\ replays = 0
    /\ faults = 0

\* Stripe posts e; the signature holds and the handler starts.
Deliver(r, e) ==
    /\ r \in Delivery
    /\ pc[r] = "idle"
    /\ deliveries[e] < MaxDeliveries
    /\ deliveries' = [deliveries EXCEPT ![e] = @ + 1]
    /\ event' = [event EXCEPT ![r] = e]
    /\ Goto(r, "claim")
    /\ UNCHANGED <<rows, acked, session, budget>>

\* claim_webhook_event: INSERT and COMMIT against the unique index; a conflict is
\* caught and answered as a duplicate.
ClaimUpserting(r) ==
    /\ pc[r] = "claim"
    /\ \/ /\ status[event[r]] \in {"none", "failed"}
          /\ SetStatus(r, "processing")
          /\ Goto(r, "check")
       \/ /\ status[event[r]] \notin {"none", "failed"}
          /\ Goto(r, "exit")
          /\ UNCHANGED status
    /\ UNCHANGED <<audited, accountVars, stripe, event, session, budget>>

ClaimRaisingDuplicate(r) ==
    /\ pc[r] = "claim"
    /\ \/ /\ status[event[r]] = "none"
          /\ SetStatus(r, "processing")
          /\ Goto(r, "check")
          /\ UNCHANGED session
       \/ /\ status[event[r]] # "none"
          /\ Goto(r, "exit")
          /\ session' = [session EXCEPT ![r] = "dead"]
          /\ UNCHANGED status
    /\ UNCHANGED <<audited, accountVars, stripe, event, budget>>

Claim(r) ==
    /\ pc[r] = "claim"
    /\ \/ /\ status[event[r]] = "none"
          /\ SetStatus(r, "processing")
          /\ Goto(r, "check")
       \/ /\ status[event[r]] # "none"
          /\ Goto(r, "exit")
          /\ UNCHANGED status
    /\ UNCHANGED <<audited, accountVars, stripe, event, session, budget>>

\* Any other error of the INSERT leaves the handler, which answers 200 all the same;
\* but the failed flush left the session dead.
ClaimFails(r) ==
    /\ pc[r] = "claim"
    /\ Fault(r, {"dead"}, "exit")

\* An administrator asks for e again: refused while it is "processing", and with
\* force only once it was "processed".  An exchange with Stripe and one more statement
\* lie between this check and the reset, and the row may change meanwhile.
ReprocessUnchecked(r, e) ==
    /\ r \in Admin
    /\ pc[r] = "idle"
    /\ replays < MaxReplays
    /\ status[e] # "none"
    /\ replays' = replays + 1
    /\ event' = [event EXCEPT ![r] = e]
    /\ Goto(r, "restart")
    /\ UNCHANGED <<rows, stripe, session, faults>>

Reprocess(r, e) ==
    /\ r \in Admin
    /\ pc[r] = "idle"
    /\ replays < MaxReplays
    /\ status[e] \notin {"none", "processing"}
    /\ replays' = replays + 1
    /\ event' = [event EXCEPT ![r] = e]
    /\ Goto(r, "restart")
    /\ UNCHANGED <<rows, stripe, session, faults>>

\* The row is set back to "processing", whatever it says by now.
Restart(r) ==
    /\ pc[r] = "restart"
    /\ SetStatus(r, "processing")
    /\ Goto(r, "check")
    /\ UNCHANGED <<audited, accountVars, stripe, event, session, budget>>

\* process_stripe_event: add_credits looks its key up.  An event of another type
\* has nothing to do.
Check(r) ==
    /\ pc[r] = "check"
    /\ Goto(r, IF Checkout(r) = NoKey THEN "finish"
               ELSE IF Credited(Checkout(r)) THEN "audit" ELSE "post")
    /\ UNCHANGED <<rows, stripe, event, session, budget>>

\* The ledger row is committed.  Where another request has committed the key since
\* the check, add_credits rolls back and raises.
PostUnkeyed(r) ==
    LET k == Checkout(r)
    IN  /\ pc[r] = "post"
        /\ Credit(BuyerOf[k], NoKey, CreditsOf[k])
        /\ Goto(r, "audit")
        /\ UNCHANGED <<status, audited, stripe, event, session, budget>>

Post(r) ==
    LET k == Checkout(r)
    IN  /\ pc[r] = "post"
        /\ \/ /\ Credit(BuyerOf[k], k, CreditsOf[k])
              /\ Goto(r, "audit")
           \/ /\ Credited(k)
              /\ Goto(r, "except")
              /\ UNCHANGED accountVars
        /\ UNCHANGED <<status, audited, stripe, event, session, budget>>

\* An error before the credit is committed.  Inside its try block add_credits rolls
\* back first, outside it the transaction stays broken.
ProcessFails(r) ==
    /\ pc[r] \in {"check", "post"}
    /\ Fault(r, Session, "except")

\* The audit row, committed by handle_checkout_completed after the credit.
Audit(r) ==
    /\ pc[r] = "audit"
    /\ audited' = audited \union {Checkout(r)}
    /\ Goto(r, "finish")
    /\ UNCHANGED <<status, accountVars, stripe, event, session, budget>>

AuditFails(r) ==
    /\ pc[r] = "audit"
    /\ Fault(r, {"dead"}, "except")

\* update_webhook_status with what process_stripe_event returned.
FinishWithoutReturn(r) ==
    /\ pc[r] = "finish"
    /\ SetStatus(r, "null")
    /\ Goto(r, "exit")
    /\ UNCHANGED <<audited, accountVars, stripe, event, session, budget>>

FinishAlsoAfterCheck(r) ==
    /\ pc[r] \in {"post", "finish"}
    /\ SetStatus(r, IF Checkout(r) = NoKey THEN "ignored" ELSE "processed")
    /\ Goto(r, "exit")
    /\ UNCHANGED <<audited, accountVars, stripe, event, session, budget>>

Finish(r) ==
    /\ pc[r] = "finish"
    /\ SetStatus(r, IF Checkout(r) = NoKey THEN "ignored" ELSE "processed")
    /\ Goto(r, "exit")
    /\ UNCHANGED <<audited, accountVars, stripe, event, session, budget>>

\* The except branch records the failure with the same session: if that is not
\* usable, the UPDATE raises in its turn and the row keeps what it said.
MarkFailed(r) ==
    /\ pc[r] = "except"
    /\ \/ session[r] = "usable" /\ SetStatus(r, "failed")
       \/ session[r] # "usable" /\ UNCHANGED status
    /\ Goto(r, "exit")
    /\ UNCHANGED <<audited, accountVars, stripe, event, session, budget>>

\* The UPDATE of the status itself fails.
StatusFails(r) ==
    /\ pc[r] \in {"restart", "finish", "except"}
    /\ session[r] = "usable"
    /\ Fault(r, {"aborted", "dead"}, "exit")

\* The endpoint returns 200 with or without an error; then get_db commits.  On a dead
\* session that raises, and the answer becomes 500.  An administrator's answer
\* changes nothing.
ExitAnsweringFirst(r) ==
    /\ pc[r] = "exit"
    /\ acked' = acked \union {e \in {event[r]} : r \in Delivery}
    /\ FreeSlot(r)
    /\ UNCHANGED <<rows, deliveries, budget>>

Exit(r) ==
    /\ pc[r] = "exit"
    /\ acked' = acked \union {e \in {event[r]} : r \in Delivery /\ session[r] # "dead"}
    /\ FreeSlot(r)
    /\ UNCHANGED <<rows, deliveries, budget>>

\* The process dies, the client gives up, or the fetch from Stripe fails.
Crash(r) ==
    /\ pc[r] # "idle"
    /\ faults < MaxFaults
    /\ faults' = faults + 1
    /\ FreeSlot(r)
    /\ UNCHANGED <<rows, stripe, replays>>

Step(r) ==
    \/ Claim(r) \/ Restart(r) \/ Check(r) \/ Post(r) \/ Audit(r) \/ Finish(r)
    \/ MarkFailed(r) \/ Exit(r)

Fail(r) ==
    \/ ClaimFails(r) \/ ProcessFails(r) \/ AuditFails(r) \/ StatusFails(r) \/ Crash(r)

Next ==
    \/ \E r \in Runner, e \in Event : Deliver(r, e) \/ Reprocess(r, e)
    \/ \E r \in Runner : Step(r) \/ Fail(r)

Spec == Init /\ [][Next]_vars

\* Requests keep running and Stripe keeps delivering what it saw no 200 for.
Redeliver(e) == e \notin acked /\ \E r \in Runner : Deliver(r, e)

Fairness ==
    /\ \A r \in Runner : WF_vars(Step(r))
    /\ \A e \in Event : SF_vars(Redeliver(e))

FairSpec == Spec /\ Fairness
-----------------------------------------------------------------------------
TypeOK ==
    /\ AccountTypeOK
    /\ status \in [Event -> Status]
    /\ audited \subseteq Key
    /\ deliveries \in [Event -> 0 .. MaxDeliveries]
    /\ acked \subseteq Event
    /\ pc \in [Runner -> Phase]
    /\ event \in [Runner -> Event \union {NoEvent}]
    /\ session \in [Runner -> Session]
    /\ replays \in 0 .. MaxReplays
    /\ faults \in 0 .. MaxFaults

Running(r) == pc[r] \in {"check", "post", "audit", "finish", "except"}

\* A buyer's balance is exactly what the credited checkout sessions were worth:
\* redeliveries, two events for one session, forced replays and two administrators
\* at once never pay a session twice.
PaidBy(u) == {k \in Key : BuyerOf[k] = u /\ Credited(k)}

CreditedOnce ==
    \A u \in User :
        balance[u] = FoldSet(LAMBDA k, sum : sum + CreditsOf[k], 0, PaidBy(u))

\* "processed" is never shown for a checkout that was not credited and audited,
\* whoever set it, and however many requests worked on the event.
ProcessedMeansApplied ==
    \A e \in Event : status[e] = "processed" =>
        Credited(CheckoutOf[e]) /\ CheckoutOf[e] \in audited

\* While a delivery processes an event nobody else does: no second delivery and no
\* administrator, although the replay reads the status once and resets it later,
\* unconditionally.
DeliveryRunsAlone ==
    \A r \in Delivery, q \in Runner :
        Running(r) /\ Running(q) /\ event[q] = event[r] => q = r

\* Stripe stops delivering only what has a row: a claim that fails on a database
\* error is answered with an error after all, although the handler returns 200.
AckedIsStored == \A e \in acked : status[e] # "none"

\* Only an administrator reopens an event whose outcome is recorded.
RedeliveryNeverReopens ==
    [][\A e \in Event :
          status[e] \in {"processed", "ignored", "failed"} /\ status'[e] # status[e]
              => \E a \in Admin : event[a] = e]_vars

\* A delivered event is answered with 200 in the end, as long as faults end and
\* Stripe goes on: no event is delivered for ever.
DeliveriesEnd == \A e \in Event : deliveries[e] > 0 ~> e \in acked

\* README.md "Use POST /api/v1/admin/webhooks/{stripe_event_id}/reprocess to replay a
\* stored event", which is refused as "Webhook event is already processing" (admin.py)
\* for a row that says so: it says so only while a request processes the event.
ProcessingIsInProgress ==
    \A e \in Event : status[e] = "processing" =>
        \E r \in Runner : event[r] = e /\ pc[r] # "idle"
=============================================================================
