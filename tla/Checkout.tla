------------------------------- MODULE Checkout -------------------------------
(***************************************************************************)
(* One user's purchases (routers/billing.py, services/billing_service.py):   *)
(* the Stripe customer a first checkout creates, the subscriptions to one     *)
(* module that checkouts lead to, and the user_modules row that their events, *)
(* an administrator and the deletion of the account change.                   *)
(* StripeWebhook has the delivery of an event, SubscriptionSync the plans:    *)
(* here an event is applied once, in one step, in any order.                  *)
(***************************************************************************)
EXTENDS Naturals, FiniteSets

CONSTANTS
    Buyers,     \* requests of the user in progress
    Customers,  \* Stripe customer ids
    Nobody,
    Subs,       \* checkout sessions of the module, and the subscription each one starts
    NoSub,
    MaxSent     \* bound: subscription events Stripe sends

ASSUME CheckoutAssumption == Nobody \notin Customers /\ NoSub \notin Subs /\ MaxSent \in Nat

Ids == Customers \cup {Nobody}
Statuses == {"active", "past_due", "canceled"}

VARIABLES
    linked,     \* users.stripe_customer_id
    closed,     \* the account is deleted
    created,    \* customers Stripe has created for the user
    buyer,      \* [Buyers -> where the request is, the customer id it has]
    sub,        \* [Subs -> its customer, its status, the events it began and ended with]
    sent,       \* subscription events on their way: number, subscription, status
    events,     \* subscription events sent so far
    moduleRow,     \* the user_modules row: subscription, status, a past expiry; or none
    \* history
    racing,     \* two first checkouts have overlapped, or the account was deleted
    known,      \* the number of the last event applied
    touched     \* an event overtook another, or an administrator changed the row

checkoutVars == <<linked, closed, created, buyer, sub, sent, events, moduleRow,
                  racing, known, touched>>

NoAccess == [of |-> NoSub, status |-> "none", over |-> FALSE]
Gone == [at |-> "away", id |-> Nobody]
Unopened == [of |-> Nobody, status |-> "none", from |-> 0, until |-> 0]

CheckoutInit ==
    /\ linked = Nobody /\ closed = FALSE /\ created = {}
    /\ buyer = [b \in Buyers |-> Gone]
    /\ sub = [s \in Subs |-> Unopened] /\ sent = {} /\ events = 0
    /\ moduleRow = NoAccess
    /\ racing = FALSE /\ known = 0 /\ touched = FALSE

\* A request is between loading a user without a customer and committing one.
Creating == \E b \in Buyers : buyer[b].at \in {"create", "commit"}

Paid(s) == sub[s].status \in Statuses

\* UserModule.is_active, for has_module_access; and what my-modules shows.
IsActive == moduleRow.status = "active" /\ ~moduleRow.over
Shown == moduleRow.status = "active"

\* The second subscription was begun before the first one ended.
Overlap(s, t) == sub[s].from <= sub[t].from /\ sub[t].from <= sub[s].until

-----------------------------------------------------------------------------
\* A checkout of a plan, a module, credits or an add-on loads the user.
BeginCheckout(b) ==
    /\ buyer[b] = Gone /\ ~closed
    /\ buyer' = [buyer EXCEPT ![b] = [at |-> IF linked = Nobody THEN "create" ELSE "session",
                                      id |-> linked]]
    /\ racing' = (racing \/ (linked = Nobody /\ Creating))
    /\ UNCHANGED <<linked, closed, created, sub, sent, events, moduleRow, known, touched>>

\* get_or_create_stripe_customer: create at Stripe, then commit the id.
CreateCustomer(b) ==
    /\ buyer[b].at = "create"
    /\ \E i \in Customers \ created :
         /\ created' = created \cup {i}
         /\ buyer' = [buyer EXCEPT ![b] = [at |-> "commit", id |-> i]]
    /\ UNCHANGED <<linked, closed, sub, sent, events, moduleRow, racing, known, touched>>

\* Mutant: the id is left to the commit at the end of the request.
CommitLater(b) ==
    /\ buyer[b].at = "commit"
    /\ buyer' = [buyer EXCEPT ![b].at = "session"]
    /\ UNCHANGED <<linked, closed, created, sub, sent, events, moduleRow,
                   racing, known, touched>>

CommitCustomer(b) ==
    /\ buyer[b].at = "commit"
    /\ linked' = buyer[b].id
    /\ buyer' = [buyer EXCEPT ![b].at = "session"]
    /\ UNCHANGED <<closed, created, sub, sent, events, moduleRow, racing, known, touched>>

\* A module's session is opened whatever the user has subscribed to already.
OpenSession(b) ==
    /\ buyer[b].at = "session"
    /\ \E s \in Subs :
         /\ sub[s] = Unopened
         /\ sub' = [sub EXCEPT ![s] = [Unopened EXCEPT !.of = buyer[b].id, !.status = "open"]]
    /\ buyer' = [buyer EXCEPT ![b] = Gone]
    /\ UNCHANGED <<linked, closed, created, sent, events, moduleRow, racing, known, touched>>

\* Stripe refuses, the process dies, the commit fails, or something else than the module is
\* bought: nothing more is written here.
CheckoutFails(b) ==
    /\ buyer[b].at # "away"
    /\ buyer' = [buyer EXCEPT ![b] = Gone]
    /\ UNCHANGED <<linked, closed, created, sub, sent, events, moduleRow,
                   racing, known, touched>>

-----------------------------------------------------------------------------
Event(s, status) == [n |-> events + 1, sub |-> s, status |-> status]

\* Stripe: the session is paid, which starts its subscription beside any other ...
Pay(s) ==
    /\ sub[s].status = "open" /\ events < MaxSent
    /\ sub' = [sub EXCEPT ![s].status = "active", ![s].from = events + 1, ![s].until = MaxSent + 1]
    /\ sent' = sent \cup {Event(s, "active")}
    /\ events' = events + 1
    /\ UNCHANGED <<linked, closed, created, buyer, moduleRow, racing, known, touched>>

\* ... which falls due, recovers or ends, in the portal or for want of payment.
StripeMoves(s, status) ==
    /\ sub[s].status \in {"active", "past_due"} /\ status # sub[s].status /\ events < MaxSent
    /\ sub' = [sub EXCEPT ![s].status = status,
                          ![s].until = IF status = "canceled" THEN events + 1 ELSE MaxSent + 1]
    /\ sent' = sent \cup {Event(s, status)}
    /\ events' = events + 1
    /\ UNCHANGED <<linked, closed, created, buyer, moduleRow, racing, known, touched>>

\* The period the row knows of ends; the renewal's event is yet to come.
PeriodEnds ==
    /\ moduleRow.of # NoSub /\ Shown /\ ~moduleRow.over
    /\ moduleRow' = [moduleRow EXCEPT !.over = TRUE]
    /\ UNCHANGED <<linked, closed, created, buyer, sub, sent, events,
                   racing, known, touched>>

\* handle_checkout_completed names the user: it links the customer of a user without one,
\* at once, late or again.  It would activate a module that the session's metadata names,
\* but a module's session has the names in its subscription's metadata only.
CheckoutCompleted(s) ==
    /\ Paid(s) /\ linked = Nobody
    /\ linked' = sub[s].of
    /\ UNCHANGED <<closed, created, buyer, sub, sent, events, moduleRow, racing, known, touched>>

\* Mutant: the subscription is named when the row is made only.
RowOfFirst(s, status) ==
    [of |-> IF moduleRow.of = NoSub THEN s ELSE moduleRow.of, status |-> status, over |-> FALSE]

\* sync_module_subscription_from_stripe: one row for all subscriptions to the module.
RowOf(s, status) == [of |-> s, status |-> status, over |-> FALSE]

\* The user is found by the subscription's customer, or the event is dropped.
SubscriptionEvent(e) ==
    /\ e \in sent
    /\ sent' = sent \ {e}
    /\ known' = IF e.n > known THEN e.n ELSE known
    /\ touched' = (touched \/ \E d \in sent : d.n < e.n \/ known > e.n)
    /\ moduleRow' = IF sub[e.sub].of = linked THEN RowOf(e.sub, e.status) ELSE moduleRow
    /\ UNCHANGED <<linked, closed, created, buyer, sub, events, racing>>

-----------------------------------------------------------------------------
\* An administrator grants the module, without a subscription of its own ...
Grant ==
    /\ moduleRow' = [moduleRow EXCEPT !.status = "active", !.over = FALSE]
    /\ touched' = TRUE
    /\ UNCHANGED <<linked, closed, created, buyer, sub, sent, events, racing, known>>

\* ... or revokes it; Stripe goes on charging.
RevokeModule ==
    /\ moduleRow.status # "none"
    /\ moduleRow' = [moduleRow EXCEPT !.status = "canceled"]
    /\ touched' = TRUE
    /\ UNCHANGED <<linked, closed, created, buyer, sub, sent, events, racing, known>>

\* The subscriptions of a customer with the latest end of period: none that ended before
\* another began.
Latest(i) ==
    {s \in Subs : /\ Paid(s) /\ sub[s].of = i
                  /\ \A t \in Subs : Paid(t) /\ sub[t].of = i => sub[t].from <= sub[s].until}

\* resync_user_subscription_from_stripe looks for a customer when the user has none, and
\* applies the customer's latest subscription, of the module or of something else.
Resync ==
    /\ \E i \in IF linked = Nobody THEN created ELSE {linked} :
         /\ linked' = i
         /\ \/ UNCHANGED moduleRow
            \/ \E s \in Latest(i) : moduleRow' = RowOf(s, sub[s].status)
    /\ racing' = (racing \/ (linked = Nobody /\ Creating))
    /\ UNCHANGED <<closed, created, buyer, sub, sent, events, known, touched>>

DeleteAccount ==
    /\ ~closed
    /\ closed' = TRUE /\ linked' = Nobody
    /\ racing' = TRUE
    /\ UNCHANGED <<created, buyer, sub, sent, events, moduleRow, known, touched>>

CheckoutNext ==
    \/ \E b \in Buyers : \/ BeginCheckout(b) \/ CreateCustomer(b) \/ CommitCustomer(b)
                         \/ OpenSession(b) \/ CheckoutFails(b)
    \/ \E s \in Subs : \/ Pay(s) \/ CheckoutCompleted(s)
                       \/ \E status \in Statuses : StripeMoves(s, status)
    \/ \E e \in sent : SubscriptionEvent(e)
    \/ PeriodEnds \/ Grant \/ RevokeModule \/ Resync \/ DeleteAccount

CheckoutSpec == CheckoutInit /\ [][CheckoutNext]_checkoutVars

-----------------------------------------------------------------------------
CheckoutTypeOK ==
    /\ linked \in Ids /\ created \subseteq Customers /\ \A s \in Subs : sub[s].of \in created \cup {Nobody}
    /\ buyer \in [Buyers -> [at : {"away", "create", "commit", "session"}, id : Ids]]
    /\ sub \in [Subs -> [of : Ids, status : Statuses \cup {"none", "open"},
                         from : 0..MaxSent, until : 0..MaxSent + 1]]
    /\ sent \subseteq [n : 1..MaxSent, sub : Subs, status : Statuses]
    /\ moduleRow \in [of : Subs \cup {NoSub}, status : Statuses \cup {"none"}, over : BOOLEAN]
    /\ closed \in BOOLEAN /\ racing \in BOOLEAN /\ touched \in BOOLEAN
    /\ events \in 0..MaxSent /\ known \in 0..MaxSent

\* Whoever pays is the user's customer, so that the events find the user: unless two first
\* checkouts overlapped or the account was deleted, and whatever failed in between.
PayerIsLinked == ~racing => \A s \in Subs : sub[s] # Unopened => sub[s].of = linked

\* When every event has arrived in order and no administrator stepped in, the row says of the
\* subscription it names what Stripe says, so that no one uses the module for whom nothing is
\* active; and whoever has an active one is shown it, and can use it in the period the row
\* knows of, unless another subscription overlapped it.
AccessFollows ==
    ~racing /\ ~touched /\ sent = {} =>
        /\ moduleRow.of # NoSub => moduleRow.status = sub[moduleRow.of].status
        /\ Shown => \E s \in Subs : sub[s].status = "active"
        /\ \A s \in Subs : sub[s].status = "active" =>
             \/ moduleRow.of = s /\ Shown /\ (IsActive \/ moduleRow.over)
             \/ \E t \in Subs \ {s} : Paid(t) /\ (Overlap(s, t) \/ Overlap(t, s))
=============================================================================
