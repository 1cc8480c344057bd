--------------------------- MODULE PlatformProofs ---------------------------
(***************************************************************************)
(* Proofs about Checkout, Gateway, RuntimeConfig and Deployment, each with   *)
(* all its actions at once and for every value of its constants, and about   *)
(* the instance that joins them with the account modules: a behaviour of     *)
(* the instance is one of each module.                                       *)
(***************************************************************************)
EXTENDS MCPlatform, AccountProofs

-----------------------------------------------------------------------------
(* Checkout.  As long as no two first checkouts overlap, one request at a     *)
(* time creates the customer and everything else is about the linked one; as *)
(* long as no event overtakes another, those to come are the numbers after   *)
(* the last one applied, and the last of a subscription has its status.  The *)
(* row names a subscription that did not end before another one known of     *)
(* began.                                                                    *)

BuyerRows == [at : {"away", "create", "commit", "session"}, id : Ids]
SubRows == [of : Ids, status : Statuses \cup {"none", "open"}, from : 0..MaxSent, until : 0..MaxSent + 1]
AccessRows == [of : Subs \cup {NoSub}, status : Statuses \cup {"none"}, over : BOOLEAN]

\* Who is linked, pays or is written about is a customer Stripe has created.
KnownCustomers ==
    /\ linked \in created \cup {Nobody}
    /\ \A b \in Buyers : buyer[b].at \in {"commit", "session"} => buyer[b].id \in created
    /\ \A s \in Subs : sub[s] # Unopened => sub[s].of \in created

\* What is sent or written is about a subscription that was paid for, while it lasted.
PaidFor ==
    /\ \A s \in Subs : Paid(s) => /\ sub[s].from <= events
                                  /\ sub[s].status # "canceled" => sub[s].until = MaxSent + 1
    /\ \A e \in sent : Paid(e.sub) /\ e.n <= sub[e.sub].until /\ e.n <= events
    /\ moduleRow.of # NoSub => Paid(moduleRow.of)
    /\ known <= events

InCreation(b) == buyer[b].at \in {"create", "commit"}

\* One request at a time creates the customer; everything else is about the linked one.
OneCustomer ==
    /\ \A b \in Buyers : buyer[b].at = "session" => buyer[b].id = linked
    /\ \A b \in Buyers : InCreation(b) => linked = Nobody
    /\ \A b, c \in Buyers : InCreation(b) /\ InCreation(c) => b = c
    /\ \A s \in Subs : sub[s] # Unopened => sub[s].of = linked

\* The events still to come are those after the last one applied, each once, and the last one
\* of a subscription has its status.
EventsInOrder ==
    /\ \A n \in (known + 1)..events : \E e \in sent : e.n = n
    /\ \A e \in sent : e.n > known
    /\ \A d, e \in sent : d.n = e.n => d = e
    /\ \A e \in sent : (\A d \in sent : d.sub = e.sub => d.n <= e.n) => e.status = sub[e.sub].status

\* The row has the status of its subscription, or an event is to come; no other subscription
\* began after the one it names had ended, among those known of.
RowUpToDate ==
    /\ \/ moduleRow.of = NoSub /\ moduleRow.status = "none"
       \/ moduleRow.of \in Subs /\ moduleRow.status = sub[moduleRow.of].status
       \/ \E e \in sent : e.sub = moduleRow.of
    /\ \A s \in Subs : Paid(s) /\ sub[s].from <= known =>
         moduleRow.of # NoSub /\ sub[s].from <= sub[moduleRow.of].until

CheckoutInv ==
    /\ CheckoutTypeOK /\ KnownCustomers /\ PaidFor
    /\ ~racing => OneCustomer
    /\ ~touched => EventsInOrder
    /\ ~racing /\ ~touched => RowUpToDate

\* The types by the names of the rows, and what they say of numbers.
LEMMA CheckoutTypes ==
    CheckoutTypeOK =>
        /\ buyer \in [Buyers -> BuyerRows] /\ sub \in [Subs -> SubRows] /\ moduleRow \in AccessRows
        /\ events \in Nat /\ known \in Nat /\ MaxSent \in Nat
        /\ \A e \in sent : e.n \in Nat /\ e.n \in 1..MaxSent /\ e.sub \in Subs /\ e.status \in Statuses
BY CheckoutAssumption DEF CheckoutTypeOK, BuyerRows, SubRows, AccessRows

LEMMA CheckoutInitInv == CheckoutInit => CheckoutInv
<1> SUFFICES ASSUME CheckoutInit PROVE CheckoutInv
  OBVIOUS
<1>1. Gone \in BuyerRows /\ Unopened \in SubRows /\ NoAccess \in AccessRows /\ 0 \in 0..MaxSent
  BY CheckoutAssumption DEF BuyerRows, SubRows, AccessRows, Gone, Unopened, NoAccess, Ids, Statuses
<1>2. \A s \in Subs : sub[s] = Unopened /\ ~Paid(s)
  BY DEF CheckoutInit, Unopened, Paid, Statuses
<1>3. CheckoutTypeOK
  BY <1>1 DEF CheckoutInit, CheckoutTypeOK, Ids, BuyerRows, SubRows, AccessRows, Unopened
<1>4. KnownCustomers /\ OneCustomer
  BY <1>2 DEF CheckoutInit, KnownCustomers, OneCustomer, InCreation, Gone
<1>5. PaidFor /\ RowUpToDate
  BY <1>2 DEF CheckoutInit, PaidFor, RowUpToDate, NoAccess
<1>6. EventsInOrder
  <2>1. \A n \in (known + 1)..events : FALSE
    BY DEF CheckoutInit
  <2> QED
    BY <2>1 DEF CheckoutInit, EventsInOrder
<1> QED
  BY <1>3, <1>4, <1>5, <1>6 DEF CheckoutInv

\* No event is sent or applied and the row keeps its status.
LEMMA QuietEvents ==
    ASSUME CheckoutInv, UNCHANGED <<sent, events, known, touched>>,
           \A s \in Subs : sub'[s] = sub[s] \/ (~Paid(s) /\ ~Paid(s)'),
           moduleRow'.of = moduleRow.of, moduleRow'.status = moduleRow.status, racing => racing'
    PROVE  PaidFor' /\ (~touched' => EventsInOrder') /\ (~racing' /\ ~touched' => RowUpToDate')
<1>1. \A e \in sent : e.sub \in Subs /\ Paid(e.sub)
  BY CheckoutTypes DEF CheckoutInv, PaidFor
<1>2. \A s \in Subs : Paid(s) => sub'[s] = sub[s]
  OBVIOUS
<1>3. \A s \in Subs : Paid(s)' <=> Paid(s)
  BY DEF Paid
<1>4. moduleRow.of # NoSub => moduleRow.of \in Subs /\ Paid(moduleRow.of)
  BY CheckoutTypes DEF CheckoutInv, PaidFor, AccessRows
<1>5. PaidFor'
  BY <1>1, <1>2, <1>3, <1>4 DEF CheckoutInv, PaidFor
<1>6. ~touched' => EventsInOrder'
  BY <1>1, <1>2 DEF CheckoutInv, EventsInOrder
<1>7. ASSUME ~racing', ~touched' PROVE RowUpToDate'
  BY <1>2, <1>3, <1>4, <1>7, CheckoutAssumption DEF CheckoutInv, RowUpToDate
<1> QED
  BY <1>5, <1>6, <1>7

-----------------------------------------------------------------------------
LEMMA BeginCheckoutStep ==
    ASSUME CheckoutInv, NEW b \in Buyers, BeginCheckout(b)
    PROVE  CheckoutInv'
<1> PICK q : q = [at |-> IF linked = Nobody THEN "create" ELSE "session", id |-> linked]
  OBVIOUS
<1>0. CheckoutTypeOK /\ KnownCustomers
  BY DEF CheckoutInv
<1>1. /\ buyer[b] = Gone /\ buyer' = [buyer EXCEPT ![b] = q]
      /\ racing' = (racing \/ (linked = Nobody /\ Creating))
      /\ UNCHANGED <<linked, closed, created, sub, sent, events, moduleRow, known, touched>>
  BY DEF BeginCheckout
<1>2. q \in [at : {"away", "create", "commit", "session"}, id : Ids]
  BY <1>0 DEF CheckoutTypeOK
<1>3. CheckoutTypeOK'
  BY <1>0, <1>1, <1>2 DEF CheckoutTypeOK
<1>4. buyer'[b] = q /\ \A c \in Buyers : c # b => buyer'[c] = buyer[c]
  BY <1>0, <1>1 DEF CheckoutTypeOK
<1>5. KnownCustomers'
  BY <1>0, <1>1, <1>4 DEF KnownCustomers
<1>6. ASSUME ~racing' PROVE OneCustomer'
  <2>1. ~racing /\ OneCustomer /\ (linked = Nobody => \A c \in Buyers : ~InCreation(c))
    BY <1>0, <1>1, <1>6 DEF CheckoutInv, Creating, InCreation, CheckoutTypeOK
  <2>2. q.at = "session" => q.id = linked
    OBVIOUS
  <2>3. q.at \in {"create", "commit"} => linked = Nobody
    OBVIOUS
  <2>4. \A c \in Buyers : c # b => (InCreation(c)' <=> InCreation(c))
    BY <1>4 DEF InCreation
  <2>5. InCreation(b)' <=> q.at \in {"create", "commit"}
    BY <1>4 DEF InCreation
  <2>6. \A c, d \in Buyers : InCreation(c)' /\ InCreation(d)' => c = d
    BY <2>1, <2>3, <2>4, <2>5 DEF OneCustomer
  <2>7. \A c \in Buyers : buyer'[c].at = "session" => buyer'[c].id = linked
    BY <1>4, <2>1, <2>2 DEF OneCustomer
  <2> QED
    BY <1>1, <2>1, <2>3, <2>4, <2>5, <2>6, <2>7 DEF OneCustomer
<1>7. UNCHANGED sub /\ moduleRow' = moduleRow
  BY <1>1
<1> QED
  BY <1>1, <1>3, <1>5, <1>6, <1>7, QuietEvents DEF CheckoutInv

\* A request gets further or ends; nothing that is paid for changes.
LEMMA BuyerMoves ==
    ASSUME CheckoutInv, NEW b \in Buyers, NEW q, buyer[b].at # "away", buyer' = [buyer EXCEPT ![b] = q],
           q \in [at : {"away", "create", "commit", "session"}, id : Ids],
           q.at \in {"commit", "session"} => q.id \in created',
           q.at = "session" => q.id = linked',
           q.at \in {"create", "commit"} => InCreation(b) /\ linked' = Nobody,
           created \subseteq created', created' \subseteq Customers,
           linked' \in created' \cup {Nobody},
           linked' # linked => linked = Nobody /\ InCreation(b),
           UNCHANGED <<closed, sub, sent, events, moduleRow, racing, known, touched>>
    PROVE  CheckoutInv'
<1>0. CheckoutTypeOK /\ KnownCustomers
  BY DEF CheckoutInv
<1>2. CheckoutTypeOK'
  BY <1>0 DEF CheckoutTypeOK, Ids
<1>3. buyer'[b] = q /\ \A c \in Buyers : c # b => buyer'[c] = buyer[c]
  BY <1>0 DEF CheckoutTypeOK
<1>4. KnownCustomers'
  BY <1>0, <1>3 DEF KnownCustomers
<1>5. ASSUME ~racing' PROVE OneCustomer'
  <2>1. OneCustomer
    BY <1>5 DEF CheckoutInv
  <2>2. \A c \in Buyers : c # b => (InCreation(c)' <=> InCreation(c))
    BY <1>3 DEF InCreation
  <2>3. InCreation(b)' <=> q.at \in {"create", "commit"}
    BY <1>3 DEF InCreation
  <2>4. \A c, d \in Buyers : InCreation(c)' /\ InCreation(d)' => c = d
    BY <2>1, <2>2, <2>3 DEF OneCustomer
  <2>5. ASSUME linked' # linked, NEW i \in created PROVE i # linked
    BY <1>0, <2>5, CheckoutAssumption DEF CheckoutTypeOK
  <2>6. \A c \in Buyers : InCreation(c)' => linked' = Nobody
    <3>1. CASE linked' = linked
      BY <2>1, <2>2, <2>3, <3>1 DEF OneCustomer
    <3>2. CASE linked' # linked
      BY <2>1, <2>2, <2>3, <3>2 DEF OneCustomer
    <3> QED
      BY <3>1, <3>2
  <2>7. \A c \in Buyers : buyer'[c].at = "session" => buyer'[c].id = linked'
    <3>1. ASSUME NEW c \in Buyers, c # b, buyer[c].at = "session" PROVE linked' = linked
      BY <1>0, <2>1, <2>5, <3>1 DEF OneCustomer, KnownCustomers
    <3> QED
      BY <1>3, <2>1, <3>1 DEF OneCustomer
  <2>8. \A s \in Subs : sub'[s] # Unopened => sub'[s].of = linked'
    <3> SUFFICES ASSUME NEW s \in Subs, sub[s] # Unopened PROVE sub[s].of = linked'
      OBVIOUS
    <3>1. sub[s].of = linked /\ sub[s].of \in created
      BY <1>0, <2>1 DEF OneCustomer, KnownCustomers
    <3> QED
      BY <2>5, <3>1
  <2> QED
    BY <2>4, <2>6, <2>7, <2>8 DEF OneCustomer
<1>6. UNCHANGED sub /\ moduleRow' = moduleRow
  OBVIOUS
<1> QED
  BY <1>2, <1>4, <1>5, <1>6, QuietEvents DEF CheckoutInv

LEMMA BuyerStep ==
    ASSUME CheckoutInv, NEW b \in Buyers,
           CreateCustomer(b) \/ CommitCustomer(b) \/ CheckoutFails(b)
    PROVE  CheckoutInv'
<1>0. CheckoutTypeOK /\ KnownCustomers
  BY DEF CheckoutInv
<1>1. buyer[b] \in [at : {"away", "create", "commit", "session"}, id : Ids]
  BY <1>0 DEF CheckoutTypeOK
<1>2. created \subseteq Customers /\ linked \in created \cup {Nobody}
  BY <1>0 DEF CheckoutTypeOK, KnownCustomers
<1>3. CASE CreateCustomer(b)
  <2> PICK i \in Customers \ created :
         /\ created' = created \cup {i}
         /\ buyer' = [buyer EXCEPT ![b] = [at |-> "commit", id |-> i]]
    BY <1>3 DEF CreateCustomer
  <2> DEFINE q == [at |-> "commit", id |-> i]
  <2>1. /\ q \in [at : {"away", "create", "commit", "session"}, id : Ids]
        /\ q.at = "commit" /\ q.id = i
    BY DEF Ids
  <2>2. buyer[b].at = "create" /\ buyer' = [buyer EXCEPT ![b] = q]
        /\ UNCHANGED <<linked, closed, sub, sent, events, moduleRow, racing, known, touched>>
    BY <1>3 DEF CreateCustomer
  <2>3. InCreation(b)
    BY <2>2 DEF InCreation
  <2> HIDE DEF q
  <2>4. CASE racing
    <3>1. CheckoutTypeOK'
      BY <1>0, <2>1, <2>2 DEF CheckoutTypeOK
    <3>2. buyer'[b] = q /\ \A c \in Buyers : c # b => buyer'[c] = buyer[c]
      BY <1>0, <2>2 DEF CheckoutTypeOK
    <3>3. KnownCustomers'
      BY <1>0, <2>1, <2>2, <3>2 DEF KnownCustomers
    <3> QED
      BY <2>2, <2>4, <3>1, <3>3, QuietEvents DEF CheckoutInv
  <2>5. CASE ~racing
    <3>1. linked = Nobody
      BY <2>3, <2>5 DEF CheckoutInv, OneCustomer
    <3> QED
      BY <1>2, <2>1, <2>2, <2>3, <3>1, BuyerMoves
  <2> QED
    BY <1>0, <2>4, <2>5
<1>4. CASE CommitCustomer(b)
  <2> PICK q : q = [buyer[b] EXCEPT !.at = "session"]
    OBVIOUS
  <2>1. /\ buyer[b].at = "commit" /\ linked' = buyer[b].id
        /\ UNCHANGED <<closed, created, sub, sent, events, moduleRow, racing, known, touched>>
    BY <1>4 DEF CommitCustomer
  <2>2. buyer' = [buyer EXCEPT ![b] = q]
    BY <1>4 DEF CommitCustomer
  <2>3. /\ q \in [at : {"away", "create", "commit", "session"}, id : Ids]
        /\ q.at = "session" /\ q.id = buyer[b].id
    BY <1>1
  <2>4. InCreation(b) /\ buyer[b].id \in created
    BY <1>0, <2>1 DEF InCreation, KnownCustomers
  <2>5. CASE racing
    <3>1. CheckoutTypeOK'
      BY <1>0, <1>1, <2>1, <2>2, <2>3 DEF CheckoutTypeOK
    <3>2. buyer'[b] = q /\ \A c \in Buyers : c # b => buyer'[c] = buyer[c]
      BY <1>0, <2>2 DEF CheckoutTypeOK
    <3>3. KnownCustomers'
      BY <1>0, <2>1, <2>3, <2>4, <3>2 DEF KnownCustomers
    <3> QED
      BY <2>1, <2>5, <3>1, <3>3, QuietEvents DEF CheckoutInv
  <2>6. CASE ~racing
    <3>1. linked = Nobody
      BY <2>4, <2>6 DEF CheckoutInv, OneCustomer
    <3> QED
      BY <1>2, <2>1, <2>2, <2>3, <2>4, <3>1, BuyerMoves
  <2> QED
    BY <2>5, <2>6
<1>5. CASE CheckoutFails(b)
  <2>1. /\ buyer[b].at # "away" /\ buyer' = [buyer EXCEPT ![b] = Gone]
        /\ UNCHANGED <<linked, closed, created, sub, sent, events, moduleRow,
                       racing, known, touched>>
    BY <1>5 DEF CheckoutFails
  <2>2. Gone \in [at : {"away", "create", "commit", "session"}, id : Ids] /\ Gone.at = "away"
    BY DEF Gone, Ids
  <2> QED
    BY <1>2, <2>1, <2>2, BuyerMoves
<1> QED
  BY <1>3, <1>4, <1>5


LEMMA OpenedRow ==
    \A i \in Ids : [of |-> i, status |-> "open", from |-> 0, until |-> 0] \in SubRows
BY CheckoutAssumption DEF SubRows

LEMMA OpenSessionStep ==
    ASSUME CheckoutInv, NEW b \in Buyers, OpenSession(b)
    PROVE  CheckoutInv'
<1> PICK s \in Subs : /\ sub[s] = Unopened
                      /\ sub' = [sub EXCEPT ![s] = [Unopened EXCEPT !.of = buyer[b].id, !.status = "open"]]
  BY DEF OpenSession
<1> PICK r : r = [Unopened EXCEPT !.of = buyer[b].id, !.status = "open"]
  OBVIOUS
<1>0. CheckoutTypeOK /\ KnownCustomers
  BY DEF CheckoutInv
<1>1. /\ buyer[b].at = "session" /\ buyer' = [buyer EXCEPT ![b] = Gone] /\ sub' = [sub EXCEPT ![s] = r]
      /\ UNCHANGED <<linked, closed, created, sent, events, moduleRow, racing, known, touched>>
  BY DEF OpenSession
<1>2. buyer[b].id \in created /\ created \subseteq Customers
  BY <1>0, <1>1 DEF KnownCustomers, CheckoutTypeOK
<1>3. /\ r \in SubRows /\ r.of = buyer[b].id /\ r.status = "open"
      /\ Gone \in BuyerRows /\ Gone.at = "away"
  <2>1. r = [of |-> buyer[b].id, status |-> "open", from |-> 0, until |-> 0]
    BY DEF Unopened
  <2>2. buyer[b].id \in Ids /\ 0 \in 0..MaxSent /\ 0 \in 0..MaxSent + 1
    BY <1>2, CheckoutAssumption DEF Ids
  <2>3. r \in SubRows
    BY <2>1, <2>2, OpenedRow
  <2> QED
    BY <2>1, <2>3 DEF BuyerRows, Gone, Ids
<1>4. sub'[s] = r /\ \A t \in Subs : t # s => sub'[t] = sub[t]
  BY <1>0, <1>1 DEF CheckoutTypeOK
<1>5. buyer'[b] = Gone /\ \A c \in Buyers : c # b => buyer'[c] = buyer[c]
  BY <1>0, <1>1 DEF CheckoutTypeOK
<1>6. CheckoutTypeOK'
  <2>1. buyer' \in [Buyers -> BuyerRows] /\ sub' \in [Subs -> SubRows]
    BY <1>0, <1>1, <1>3, CheckoutTypes
  <2>2. \A t \in Subs : sub'[t].of \in created \cup {Nobody}
    BY <1>0, <1>2, <1>3, <1>4 DEF CheckoutTypeOK
  <2> QED
    BY <1>0, <1>1, <2>1, <2>2 DEF CheckoutTypeOK, BuyerRows, SubRows
<1>7. KnownCustomers'
  BY <1>0, <1>1, <1>2, <1>3, <1>4, <1>5 DEF KnownCustomers
<1>8. ASSUME ~racing' PROVE OneCustomer'
  <2>1. OneCustomer /\ buyer[b].id = linked
    BY <1>1, <1>8 DEF CheckoutInv, OneCustomer
  <2>2. \A c \in Buyers : /\ InCreation(c)' => InCreation(c)
                          /\ buyer'[c].at = "session" => buyer[c].at = "session" /\ buyer'[c].id = buyer[c].id
    BY <1>3, <1>5 DEF InCreation
  <2> QED
    BY <1>1, <1>3, <1>4, <2>1, <2>2 DEF OneCustomer
<1>9. ~Paid(s) /\ ~Paid(s)'
  BY <1>3, <1>4 DEF Paid, Unopened, Statuses
<1>10. \A t \in Subs : sub'[t] = sub[t] \/ (~Paid(t) /\ ~Paid(t)')
  BY <1>4, <1>9
<1>11. moduleRow'.of = moduleRow.of /\ moduleRow'.status = moduleRow.status
  BY <1>1
<1> QED
  BY <1>1, <1>6, <1>7, <1>8, <1>10, <1>11, QuietEvents DEF CheckoutInv

-----------------------------------------------------------------------------
\* Stripe starts or changes a subscription and sends the event.
LEMMA AnnouncedStep ==
    ASSUME CheckoutInv, NEW s \in Subs, NEW r \in SubRows, events < MaxSent, sub[s] # Unopened,
           r.of = sub[s].of, r.status \in Statuses,
           r.from = IF Paid(s) THEN sub[s].from ELSE events + 1,
           r.until = IF r.status = "canceled" THEN events + 1 ELSE MaxSent + 1,
           sub' = [sub EXCEPT ![s] = r], sent' = sent \cup {Event(s, r.status)},
           events' = events + 1,
           UNCHANGED <<linked, closed, created, buyer, moduleRow, racing, known, touched>>
    PROVE  CheckoutInv'
<1> PICK l : l = Event(s, r.status)
  OBVIOUS
<1>0. /\ CheckoutTypeOK /\ KnownCustomers /\ PaidFor
      /\ events \in Nat /\ known \in Nat /\ MaxSent \in Nat /\ known <= events
  BY CheckoutTypes DEF CheckoutInv, PaidFor
<1>1. l.n = events + 1 /\ l.sub = s /\ l.status = r.status /\ sent' = sent \cup {l}
  BY DEF Event
<1>2. sub'[s] = r /\ \A t \in Subs : t # s => sub'[t] = sub[t]
  BY <1>0 DEF CheckoutTypeOK
<1>3. \A t \in Subs : sub[t].from \in Nat /\ sub[t].until \in Nat /\ sub[t].from <= MaxSent
  BY <1>0, CheckoutTypes DEF SubRows
<1>4. \A e \in sent : e.n \in Nat /\ e.n <= events /\ e.sub \in Subs /\ Paid(e.sub) /\ e.n <= sub[e.sub].until
  BY <1>0, CheckoutTypes DEF PaidFor
<1>5. Paid(s)' /\ \A t \in Subs : t # s => (Paid(t)' <=> Paid(t))
  BY <1>2 DEF Paid
<1>6. CheckoutTypeOK'
  <2>1. sub' \in [Subs -> SubRows] /\ \A t \in Subs : sub'[t].of \in created \cup {Nobody}
    BY <1>0, <1>2, CheckoutTypes DEF CheckoutTypeOK
  <2>2. l \in [n : 1..MaxSent, sub : Subs, status : Statuses] /\ events' \in 0..MaxSent
    BY <1>0 DEF Event
  <2> QED
    BY <1>0, <1>1, <2>1, <2>2 DEF CheckoutTypeOK, SubRows
<1>7. KnownCustomers'
  BY <1>0, <1>2 DEF KnownCustomers
<1>8. r.from \in Nat /\ r.from <= events + 1 /\ r.until \in Nat /\ events + 1 <= r.until
  BY <1>0, <1>3 DEF PaidFor
<1>9. PaidFor'
  <2>1. ASSUME NEW t \in Subs, Paid(t)'
        PROVE  sub'[t].from <= events' /\ (sub'[t].status # "canceled" => sub'[t].until = MaxSent + 1)
    <3>1. CASE t = s
      BY <1>2, <1>8, <3>1
    <3>2. CASE t # s
      BY <1>0, <1>2, <1>3, <1>5, <2>1, <3>2 DEF PaidFor
    <3> QED
      BY <3>1, <3>2
  <2>2. ASSUME NEW e \in sent' PROVE Paid(e.sub)' /\ e.n <= sub'[e.sub].until /\ e.n <= events'
    <3>1. CASE e = l
      BY <1>0, <1>1, <1>2, <1>5, <1>8, <3>1
    <3>2. CASE e \in sent /\ e.sub = s
      BY <1>0, <1>2, <1>4, <1>5, <1>8, <3>2
    <3>3. CASE e \in sent /\ e.sub # s
      BY <1>0, <1>2, <1>4, <1>5, <3>3
    <3> QED
      BY <1>1, <3>1, <3>2, <3>3
  <2>3. moduleRow.of # NoSub => moduleRow.of \in Subs /\ Paid(moduleRow.of)'
    BY <1>0, <1>5, CheckoutTypes DEF PaidFor, AccessRows
  <2>4. known <= events'
    BY <1>0
  <2> QED
    BY <2>1, <2>2, <2>3, <2>4 DEF PaidFor
<1>10. ~racing' => OneCustomer'
  BY <1>2 DEF CheckoutInv, OneCustomer, InCreation
<1>11. ASSUME ~touched' PROVE EventsInOrder'
  <2>1. EventsInOrder
    BY <1>11 DEF CheckoutInv
  <2>2. ASSUME NEW n \in (known + 1)..(events + 1) PROVE \E e \in sent' : e.n = n
    <3>1. n \in (known + 1)..events \/ n = events + 1
      BY <1>0
    <3> QED
      BY <1>1, <2>1, <3>1 DEF EventsInOrder
  <2>3. \A e \in sent' : e.n > known
    BY <1>0, <1>1, <2>1 DEF EventsInOrder
  <2>4. \A d, e \in sent' : d.n = e.n => d = e
    <3>1. \A c \in sent : c.n # l.n
      BY <1>0, <1>1, <1>4
    <3> QED
      BY <1>1, <2>1, <3>1 DEF EventsInOrder
  <2>5. ASSUME NEW e \in sent', \A d \in sent' : d.sub = e.sub => d.n <= e.n
        PROVE  e.status = sub'[e.sub].status
    <3>1. CASE e = l
      BY <1>1, <1>2, <3>1
    <3>2. CASE e # l
      <4>1. e \in sent /\ e.sub # s
        BY <1>0, <1>1, <1>4, <2>5, <3>2
      <4> QED
        BY <1>1, <1>2, <1>4, <2>1, <2>5, <4>1 DEF EventsInOrder
    <3> QED
      BY <3>1, <3>2
  <2> QED
    BY <2>2, <2>3, <2>4, <2>5 DEF EventsInOrder
<1>12. ASSUME ~racing', ~touched' PROVE RowUpToDate'
  <2>1. RowUpToDate
    BY <1>12 DEF CheckoutInv
  <2>2. \/ moduleRow.of = NoSub /\ moduleRow.status = "none"
        \/ moduleRow.of \in Subs /\ moduleRow.status = sub'[moduleRow.of].status
        \/ \E e \in sent' : e.sub = moduleRow.of
    <3>1. CASE moduleRow.of = s
      BY <1>1, <3>1
    <3>2. CASE moduleRow.of # s
      BY <1>1, <1>2, <2>1, <3>2 DEF RowUpToDate
    <3> QED
      BY <3>1, <3>2
  <2>3. ASSUME NEW t \in Subs, Paid(t)', sub'[t].from <= known
        PROVE  moduleRow.of # NoSub /\ sub'[t].from <= sub'[moduleRow.of].until
    <3>1. Paid(t) /\ sub'[t].from = sub[t].from
      BY <1>0, <1>2, <1>5, <2>3
    <3>2. moduleRow.of # NoSub /\ sub[t].from <= sub[moduleRow.of].until
      BY <2>1, <2>3, <3>1 DEF RowUpToDate
    <3>3. moduleRow.of \in Subs
      BY <1>0, <3>2, CheckoutTypes DEF AccessRows
    <3>4. CASE moduleRow.of = s
      BY <1>0, <1>2, <1>3, <1>8, <2>3, <3>1, <3>2, <3>4
    <3>5. CASE moduleRow.of # s
      BY <1>2, <3>1, <3>2, <3>3, <3>5
    <3> QED
      BY <3>4, <3>5
  <2> QED
    BY <2>2, <2>3 DEF RowUpToDate
<1> QED
  BY <1>6, <1>7, <1>9, <1>10, <1>11, <1>12 DEF CheckoutInv

LEMMA StripeStep ==
    ASSUME CheckoutInv, NEW s \in Subs,
           Pay(s) \/ \E status \in Statuses : StripeMoves(s, status)
    PROVE  CheckoutInv'
<1>0. sub \in [Subs -> SubRows] /\ sub[s] \in SubRows /\ events \in Nat /\ MaxSent \in Nat
  BY CheckoutTypes DEF CheckoutInv
<1>1. CASE Pay(s)
  <2> PICK r : r = [sub[s] EXCEPT !.status = "active", !.from = events + 1, !.until = MaxSent + 1]
    OBVIOUS
  <2>1. /\ sub[s].status = "open" /\ events < MaxSent
        /\ sent' = sent \cup {Event(s, "active")} /\ events' = events + 1
        /\ UNCHANGED <<linked, closed, created, buyer, moduleRow, racing, known, touched>>
    BY <1>1 DEF Pay
  <2>2. sub' = [sub EXCEPT ![s] = r]
    BY <1>0, <1>1 DEF Pay
  <2>3. /\ r \in SubRows /\ r.of = sub[s].of /\ r.status = "active"
        /\ r.from = events + 1 /\ r.until = MaxSent + 1
    <3>1. r = [of |-> sub[s].of, status |-> "active", from |-> events + 1, until |-> MaxSent + 1]
      BY <1>0 DEF SubRows
    <3>2. sub[s].of \in Ids /\ events + 1 \in 0..MaxSent /\ MaxSent + 1 \in 0..MaxSent + 1
      BY <1>0, <2>1 DEF SubRows
    <3> QED
      BY <3>1, <3>2 DEF SubRows, Statuses
  <2>4. ~Paid(s) /\ sub[s] # Unopened /\ r.status \in Statuses
    BY <2>1, <2>3 DEF Paid, Statuses, Unopened
  <2> QED
    BY <2>1, <2>2, <2>3, <2>4, AnnouncedStep
<1>2. ASSUME NEW status \in Statuses, StripeMoves(s, status) PROVE CheckoutInv'
  <2> PICK r : r = [sub[s] EXCEPT !.status = status,
                      !.until = IF status = "canceled" THEN events + 1 ELSE MaxSent + 1]
    OBVIOUS
  <2>1. /\ sub[s].status \in {"active", "past_due"} /\ events < MaxSent
        /\ sent' = sent \cup {Event(s, status)} /\ events' = events + 1
        /\ UNCHANGED <<linked, closed, created, buyer, moduleRow, racing, known, touched>>
    BY <1>2 DEF StripeMoves
  <2>2. sub' = [sub EXCEPT ![s] = r]
    BY <1>0, <1>2 DEF StripeMoves
  <2>3. /\ r \in SubRows /\ r.of = sub[s].of /\ r.status = status /\ r.from = sub[s].from
        /\ r.until = IF status = "canceled" THEN events + 1 ELSE MaxSent + 1
    <3> PICK u : u = IF status = "canceled" THEN events + 1 ELSE MaxSent + 1
      OBVIOUS
    <3>1. r = [of |-> sub[s].of, status |-> status, from |-> sub[s].from, until |-> u]
      BY <1>0 DEF SubRows
    <3>2. sub[s].of \in Ids /\ sub[s].from \in 0..MaxSent /\ u \in 0..MaxSent + 1
      BY <1>0, <2>1 DEF SubRows
    <3> QED
      BY <3>1, <3>2 DEF SubRows
  <2>4. Paid(s) /\ sub[s] # Unopened
    BY <2>1 DEF Paid, Statuses, Unopened
  <2> QED
    BY <2>1, <2>2, <2>3, <2>4, AnnouncedStep
<1> QED
  BY <1>1, <1>2

\* A session names the user's customer already, unless two first checkouts overlapped.
LEMMA CompletedStep ==
    ASSUME CheckoutInv, NEW s \in Subs, CheckoutCompleted(s)
    PROVE  CheckoutInv'
<1>0. CheckoutTypeOK /\ KnownCustomers
  BY DEF CheckoutInv
<1>1. /\ Paid(s) /\ linked = Nobody /\ linked' = sub[s].of
      /\ UNCHANGED <<closed, created, buyer, sub, sent, events, moduleRow, racing, known, touched>>
  BY DEF CheckoutCompleted
<1>2. sub[s] # Unopened
  BY <1>1 DEF Paid, Unopened, Statuses
<1>3. sub[s].of \in created /\ created \subseteq Customers
  BY <1>0, <1>2 DEF KnownCustomers, CheckoutTypeOK
<1>4. racing
  BY <1>1, <1>2, <1>3, CheckoutAssumption DEF CheckoutInv, OneCustomer
<1>5. CheckoutTypeOK' /\ KnownCustomers'
  BY <1>0, <1>1, <1>3 DEF CheckoutTypeOK, KnownCustomers, Ids
<1>6. UNCHANGED sub /\ moduleRow' = moduleRow
  BY <1>1
<1> QED
  BY <1>1, <1>4, <1>5, <1>6, QuietEvents DEF CheckoutInv

LEMMA SubscriptionEventStep ==
    ASSUME CheckoutInv, NEW e \in sent, SubscriptionEvent(e)
    PROVE  CheckoutInv'
<1>0. /\ CheckoutTypeOK /\ KnownCustomers /\ PaidFor
      /\ events \in Nat /\ known \in Nat /\ MaxSent \in Nat /\ known <= events
  BY CheckoutTypes DEF CheckoutInv, PaidFor
<1>1. /\ sent' = sent \ {e} /\ known' = IF e.n > known THEN e.n ELSE known
      /\ touched' = (touched \/ \E d \in sent : d.n < e.n \/ known > e.n)
      /\ moduleRow' = IF sub[e.sub].of = linked THEN RowOf(e.sub, e.status) ELSE moduleRow
      /\ UNCHANGED <<linked, closed, created, buyer, sub, events, racing>>
  BY DEF SubscriptionEvent
<1>2. \A d \in sent : /\ d.n \in Nat /\ d.n <= events /\ d.n \in 1..MaxSent /\ d.sub \in Subs
                      /\ d.status \in Statuses /\ Paid(d.sub) /\ d.n <= sub[d.sub].until
  BY <1>0, CheckoutTypes DEF PaidFor
<1>3. known' \in Nat /\ known' <= events /\ known' \in 0..MaxSent
  <2>1. known \in 0..MaxSent
    BY <1>0 DEF CheckoutTypeOK
  <2> QED
    BY <1>0, <1>1, <1>2, <2>1
<1>4. \A t \in Subs : (Paid(t)' <=> Paid(t)) /\ sub'[t] = sub[t]
  BY <1>1 DEF Paid
<1>5. CheckoutTypeOK'
  <2>1. moduleRow' \in AccessRows
    BY <1>0, <1>1, <1>2, CheckoutTypes DEF AccessRows, RowOf
  <2>2. touched' \in BOOLEAN
    BY <1>0, <1>1 DEF CheckoutTypeOK
  <2> QED
    BY <1>0, <1>1, <1>3, <2>1, <2>2 DEF CheckoutTypeOK, AccessRows
<1>6. KnownCustomers'
  BY <1>0, <1>1 DEF KnownCustomers
<1>7. PaidFor'
  <2>1. moduleRow'.of # NoSub => moduleRow'.of \in Subs /\ Paid(moduleRow'.of)
    BY <1>0, <1>1, <1>2, CheckoutTypes DEF PaidFor, AccessRows, RowOf
  <2> QED
    BY <1>0, <1>1, <1>2, <1>3, <1>4, <2>1 DEF PaidFor
<1>8. ~racing' => OneCustomer'
  BY <1>1 DEF CheckoutInv, OneCustomer, InCreation
<1>9. ASSUME ~touched'
      PROVE  /\ ~touched /\ EventsInOrder /\ known' = e.n /\ EventsInOrder'
  <2>1. ~touched /\ ~(known > e.n) /\ \A d \in sent : ~(d.n < e.n)
    BY <1>1, <1>9
  <2>2. EventsInOrder
    BY <2>1 DEF CheckoutInv
  <2>3. e.n > known /\ known' = e.n
    BY <1>1, <2>2 DEF EventsInOrder
  <2>4. \A d \in sent' : d.n > e.n
    <3> SUFFICES ASSUME NEW d \in sent, d # e PROVE d.n > e.n
      BY <1>1
    <3>1. d.n # e.n /\ ~(d.n < e.n)
      BY <2>1, <2>2 DEF EventsInOrder
    <3> QED
      BY <1>2, <3>1
  <2>5. ASSUME NEW n \in (e.n + 1)..events PROVE \E d \in sent' : d.n = n
    <3>1. n \in (known + 1)..events /\ n # e.n
      BY <1>0, <1>2, <2>3
    <3> QED
      BY <1>1, <2>2, <3>1 DEF EventsInOrder
  <2>6. ASSUME NEW d \in sent', \A c \in sent' : c.sub = d.sub => c.n <= d.n
        PROVE  d.status = sub[d.sub].status
    <3>1. d \in sent /\ e.n <= d.n
      BY <1>1, <1>2, <2>4
    <3>2. \A c \in sent : c.sub = d.sub => c.n <= d.n
      BY <1>1, <2>6, <3>1
    <3> QED
      BY <2>2, <3>1, <3>2 DEF EventsInOrder
  <2>7. \A c, d \in sent' : c.n = d.n => c = d
    BY <1>1, <2>2 DEF EventsInOrder
  <2> QED
    BY <1>1, <2>1, <2>2, <2>3, <2>4, <2>5, <2>6, <2>7 DEF EventsInOrder
<1>10. ASSUME ~racing', ~touched' PROVE RowUpToDate'
  <2>1. OneCustomer /\ EventsInOrder /\ known' = e.n
    BY <1>1, <1>9, <1>10 DEF CheckoutInv
  <2>2. Paid(e.sub) /\ e.sub \in Subs /\ e.n <= sub[e.sub].until
    BY <1>2
  <2>3. sub[e.sub].of = linked
    BY <2>1, <2>2 DEF OneCustomer, Paid, Unopened, Statuses
  <2>4. moduleRow'.of = e.sub /\ moduleRow'.status = e.status
    BY <1>1, <2>3 DEF RowOf
  <2>5. e.status = sub[e.sub].status \/ \E d \in sent' : d.sub = e.sub
    <3>1. CASE \A d \in sent : d.sub = e.sub => d.n <= e.n
      BY <2>1, <3>1 DEF EventsInOrder
    <3>2. CASE \E d \in sent : d.sub = e.sub /\ ~(d.n <= e.n)
      BY <1>1, <1>2, <3>2
    <3> QED
      BY <3>1, <3>2
  <2>6. \A t \in Subs : Paid(t) /\ sub[t].from <= e.n => sub[t].from <= sub[e.sub].until
    <3>1. \A t \in Subs : sub[t].from \in Nat /\ sub[t].until \in Nat
      BY <1>0, CheckoutTypes DEF SubRows
    <3> QED
      BY <1>2, <2>2, <3>1
  <2> QED
    BY <1>1, <1>4, <2>1, <2>2, <2>4, <2>5, <2>6, CheckoutAssumption DEF RowUpToDate
<1> QED
  BY <1>5, <1>6, <1>7, <1>8, <1>9, <1>10 DEF CheckoutInv

-----------------------------------------------------------------------------
\* The row changes: its period ends, or an administrator changes it.
LEMMA RowStep ==
    ASSUME CheckoutInv, PeriodEnds \/ Grant \/ RevokeModule
    PROVE  CheckoutInv'
<1>0. CheckoutTypeOK /\ KnownCustomers /\ PaidFor /\ moduleRow \in AccessRows
  BY CheckoutTypes DEF CheckoutInv
<1>1. UNCHANGED <<linked, closed, created, buyer, sub, sent, events, racing, known>>
  BY DEF PeriodEnds, Grant, RevokeModule
<1>2. moduleRow' \in AccessRows /\ moduleRow'.of = moduleRow.of /\ touched' \in BOOLEAN
  BY <1>0 DEF PeriodEnds, Grant, RevokeModule, AccessRows, Statuses, CheckoutTypeOK
<1>3. CheckoutTypeOK'
  BY <1>0, <1>1, <1>2 DEF CheckoutTypeOK, AccessRows
<1>4. KnownCustomers' /\ PaidFor' /\ (~racing' => OneCustomer')
  BY <1>0, <1>1, <1>2 DEF KnownCustomers, PaidFor, Paid, CheckoutInv, OneCustomer, InCreation
<1>5. (~touched' => EventsInOrder') /\ (~racing' /\ ~touched' => RowUpToDate')
  <2>1. CASE PeriodEnds
    <3>1. moduleRow'.status = moduleRow.status /\ touched' = touched
      BY <1>0, <2>1 DEF PeriodEnds, AccessRows
    <3> QED
      BY <1>1, <1>2, <3>1, QuietEvents
  <2>2. CASE Grant \/ RevokeModule
    BY <2>2 DEF Grant, RevokeModule
  <2> QED
    BY <2>1, <2>2
<1> QED
  BY <1>3, <1>4, <1>5 DEF CheckoutInv

\* The latest subscription did not end before another one began.
LEMMA ResyncStep == CheckoutInv /\ Resync => CheckoutInv'
<1> SUFFICES ASSUME CheckoutInv, Resync PROVE CheckoutInv'
  OBVIOUS
<1>0. CheckoutTypeOK /\ KnownCustomers /\ PaidFor /\ moduleRow \in AccessRows
  BY CheckoutTypes DEF CheckoutInv
<1>1. /\ \/ moduleRow' = moduleRow
         \/ \E s \in Latest(linked') : moduleRow' = RowOf(s, sub[s].status)
      /\ linked # Nobody => linked' = linked
      /\ linked = Nobody => linked' \in created
      /\ racing' = (racing \/ (linked = Nobody /\ Creating))
      /\ UNCHANGED <<closed, created, buyer, sub, sent, events, known, touched>>
  BY DEF Resync
<1>2. \A i, s : s \in Latest(i) =>
        /\ s \in Subs /\ Paid(s) /\ sub[s].of = i
        /\ \A t \in Subs : Paid(t) /\ sub[t].of = i => sub[t].from <= sub[s].until
  BY DEF Latest
<1>3. linked' \in created \cup {Nobody} /\ created \subseteq Customers /\ Nobody \notin created
  BY <1>0, <1>1, CheckoutAssumption DEF KnownCustomers, CheckoutTypeOK
<1>4. moduleRow' \in AccessRows /\ (moduleRow'.of # NoSub => moduleRow'.of \in Subs /\ Paid(moduleRow'.of))
  <2>1. CASE moduleRow' = moduleRow
    BY <1>0, <2>1 DEF AccessRows, PaidFor
  <2>2. CASE \E s \in Latest(linked') : moduleRow' = RowOf(s, sub[s].status)
    BY <1>2, <2>2 DEF AccessRows, RowOf, Paid
  <2> QED
    BY <1>1, <2>1, <2>2
<1>5. CheckoutTypeOK' /\ KnownCustomers' /\ PaidFor'
  <2>1. CheckoutTypeOK'
    BY <1>0, <1>1, <1>3, <1>4 DEF CheckoutTypeOK, AccessRows, Ids
  <2>2. KnownCustomers'
    BY <1>0, <1>1, <1>3 DEF KnownCustomers
  <2>3. PaidFor'
    BY <1>0, <1>1, <1>4 DEF PaidFor, Paid
  <2> QED
    BY <2>1, <2>2, <2>3
<1>6. ASSUME ~racing' PROVE /\ OneCustomer /\ OneCustomer'
                            /\ linked' # linked => \A s \in Subs : ~Paid(s)
  <2>1. OneCustomer
    BY <1>1, <1>6 DEF CheckoutInv
  <2>2. CASE linked' = linked
    BY <1>1, <2>1, <2>2 DEF OneCustomer, InCreation
  <2>3. CASE linked' # linked
    <3>1. linked = Nobody /\ \A b \in Buyers : ~InCreation(b)
      BY <1>1, <1>6, <2>3 DEF Creating, InCreation
    <3>2. /\ \A b \in Buyers : buyer[b].at # "session"
          /\ \A s \in Subs : sub[s] = Unopened
      BY <1>0, <1>3, <2>1, <3>1 DEF OneCustomer, KnownCustomers
    <3>3. \A s \in Subs : ~Paid(s)
      BY <3>2 DEF Paid, Unopened, Statuses
    <3> QED
      BY <1>1, <2>1, <3>1, <3>2, <3>3 DEF OneCustomer, InCreation
  <2> QED
    BY <2>2, <2>3
<1>7. ~touched' => EventsInOrder'
  BY <1>1 DEF CheckoutInv, EventsInOrder
<1>8. ASSUME ~racing', ~touched' PROVE RowUpToDate'
  <2>0. RowUpToDate /\ \A t \in Subs : (Paid(t)' <=> Paid(t)) /\ sub'[t] = sub[t]
    BY <1>1, <1>8 DEF CheckoutInv, Paid
  <2>1. CASE moduleRow' = moduleRow
    <3>1. moduleRow.of # NoSub => moduleRow.of \in Subs
      BY <1>0 DEF AccessRows
    <3> QED
      BY <1>1, <2>0, <2>1, <3>1 DEF RowUpToDate
  <2>2. CASE \E s \in Latest(linked') : moduleRow' = RowOf(s, sub[s].status)
    <3> PICK s \in Latest(linked') : moduleRow' = RowOf(s, sub[s].status)
      BY <2>2
    <3>1. s \in Subs /\ Paid(s) /\ moduleRow'.of = s /\ moduleRow'.status = sub[s].status
      BY <1>2 DEF RowOf
    <3>2. linked' = linked
      BY <1>6, <1>8, <3>1
    <3>3. \A t \in Subs : Paid(t) => sub[t].of = linked
      BY <1>6, <1>8 DEF OneCustomer, Paid, Unopened, Statuses
    <3>4. \A t \in Subs : Paid(t) => sub[t].from <= sub[s].until
      BY <1>2, <3>2, <3>3
    <3> QED
      BY <1>1, <2>0, <3>1, <3>4, CheckoutAssumption DEF RowUpToDate
  <2> QED
    BY <1>1, <2>1, <2>2
<1> QED
  BY <1>5, <1>6, <1>7, <1>8 DEF CheckoutInv

LEMMA DeleteAccountStep == CheckoutInv /\ DeleteAccount => CheckoutInv'
<1> SUFFICES ASSUME CheckoutInv, DeleteAccount PROVE CheckoutInv'
  OBVIOUS
<1>1. /\ linked' = Nobody /\ closed' = TRUE /\ racing' = TRUE
      /\ UNCHANGED <<created, buyer, sub, sent, events, moduleRow, known, touched>>
  BY DEF DeleteAccount
<1>2. CheckoutTypeOK' /\ KnownCustomers'
  BY <1>1 DEF CheckoutInv, CheckoutTypeOK, KnownCustomers, Ids
<1>3. UNCHANGED sub /\ moduleRow' = moduleRow
  BY <1>1
<1> QED
  BY <1>1, <1>2, <1>3, QuietEvents DEF CheckoutInv

LEMMA CheckoutStep == CheckoutInv /\ [CheckoutNext]_checkoutVars => CheckoutInv'
<1> SUFFICES ASSUME CheckoutInv, [CheckoutNext]_checkoutVars PROVE CheckoutInv'
  OBVIOUS
<1>1. CASE \E b \in Buyers : BeginCheckout(b)
  BY <1>1, BeginCheckoutStep
<1>2. CASE \E b \in Buyers : CreateCustomer(b) \/ CommitCustomer(b) \/ CheckoutFails(b)
  BY <1>2, BuyerStep
<1>3. CASE \E b \in Buyers : OpenSession(b)
  BY <1>3, OpenSessionStep
<1>4. CASE \E s \in Subs : Pay(s) \/ \E status \in Statuses : StripeMoves(s, status)
  BY <1>4, StripeStep
<1>5. CASE \E s \in Subs : CheckoutCompleted(s)
  BY <1>5, CompletedStep
<1>6. CASE \E e \in sent : SubscriptionEvent(e)
  BY <1>6, SubscriptionEventStep
<1>7. CASE PeriodEnds \/ Grant \/ RevokeModule
  BY <1>7, RowStep
<1>8. CASE Resync \/ DeleteAccount
  BY <1>8, ResyncStep, DeleteAccountStep
<1>9. CASE UNCHANGED checkoutVars
  BY <1>9 DEF checkoutVars, CheckoutInv, CheckoutTypeOK, KnownCustomers, PaidFor, Paid, OneCustomer,
              InCreation, EventsInOrder, RowUpToDate
<1> QED
  BY <1>1, <1>2, <1>3, <1>4, <1>5, <1>6, <1>7, <1>8, <1>9 DEF CheckoutNext

LEMMA CheckoutInvImplies == CheckoutInv => CheckoutTypeOK /\ PayerIsLinked /\ AccessFollows
<1> SUFFICES ASSUME CheckoutInv PROVE PayerIsLinked /\ AccessFollows
  BY DEF CheckoutInv
<1>1. PayerIsLinked
  BY DEF CheckoutInv, OneCustomer, PayerIsLinked
<1>2. SUFFICES ASSUME ~racing, ~touched, sent = {}
      PROVE  /\ moduleRow.of # NoSub => moduleRow.status = sub[moduleRow.of].status
             /\ Shown => \E s \in Subs : sub[s].status = "active"
             /\ \A s \in Subs : sub[s].status = "active" =>
                  \/ moduleRow.of = s /\ Shown /\ (IsActive \/ moduleRow.over)
                  \/ \E t \in Subs \ {s} : Paid(t) /\ (Overlap(s, t) \/ Overlap(t, s))
  BY <1>1 DEF AccessFollows
<1>3. RowUpToDate /\ EventsInOrder /\ PaidFor /\ moduleRow \in AccessRows
  BY <1>2, CheckoutTypes DEF CheckoutInv
<1>4. known = events
  <2>1. known \in Nat /\ events \in Nat /\ known <= events
    BY <1>3, CheckoutTypes DEF CheckoutInv, PaidFor
  <2>2. ~(events \in (known + 1)..events)
    BY <1>2, <1>3 DEF EventsInOrder
  <2> QED
    BY <2>1, <2>2
<1>5. \/ moduleRow.of = NoSub /\ moduleRow.status = "none"
      \/ moduleRow.of \in Subs /\ moduleRow.status = sub[moduleRow.of].status
  BY <1>2, <1>3 DEF RowUpToDate
<1>6. ASSUME NEW s \in Subs, sub[s].status = "active"
      PROVE  \/ moduleRow.of = s /\ Shown /\ (IsActive \/ moduleRow.over)
             \/ \E t \in Subs \ {s} : Paid(t) /\ (Overlap(s, t) \/ Overlap(t, s))
  <2>1. Paid(s) /\ sub[s].from <= known /\ sub[s].until = MaxSent + 1
    BY <1>3, <1>4, <1>6 DEF Paid, Statuses, PaidFor
  <2>2. moduleRow.of \in Subs /\ Paid(moduleRow.of) /\ sub[s].from <= sub[moduleRow.of].until
    BY <1>3, <2>1 DEF RowUpToDate, PaidFor, AccessRows
  <2>3. CASE moduleRow.of = s
    BY <1>5, <1>6, <2>2, <2>3, CheckoutAssumption DEF Shown, IsActive
  <2>4. CASE moduleRow.of # s
    <3>1. \A t \in Subs : sub[t].from \in Nat /\ sub[t].until \in Nat /\ sub[t].from <= MaxSent
      BY CheckoutTypes DEF CheckoutInv, SubRows
    <3>2. MaxSent \in Nat
      BY CheckoutAssumption
    <3>3. Overlap(s, moduleRow.of) \/ Overlap(moduleRow.of, s)
      BY <2>1, <2>2, <3>1, <3>2 DEF Overlap
    <3> QED
      BY <2>2, <2>4, <3>3
  <2> QED
    BY <2>3, <2>4
<1>7. Shown => \E s \in Subs : sub[s].status = "active"
  BY <1>5 DEF Shown
<1> QED
  BY <1>5, <1>6, <1>7, CheckoutAssumption

\* Whoever pays is the linked customer, and with every event applied in order the one row has
\* the status of the subscription it names: it is shown only if a subscription is active, and
\* the user of an active one is shown it unless another subscription overlapped it; with any
\* number of requests, customers and subscriptions (get_or_create_stripe_customer,
\* create_module_checkout_session, sync_module_subscription_from_stripe,
\* resync_user_subscription_from_stripe, handle_checkout_completed).
THEOREM CheckoutKept == CheckoutSpec => [](CheckoutTypeOK /\ PayerIsLinked /\ AccessFollows)
<1>1. CheckoutSpec => []CheckoutInv
  BY CheckoutInitInv, CheckoutStep, PTL DEF CheckoutSpec
<1> QED
  BY <1>1, CheckoutInvImplies, PTL

-----------------------------------------------------------------------------
(* Gateway.  A number within the limit that no request waits to use is spent; *)
(* a counter lets in one request for each number it spends, and numbers are   *)
(* drawn once.                                                               *)

GatewayTypes ==
    /\ counter \in [CounterKeys -> [n : 0..MaxCount, ttl : BOOLEAN]]
    /\ hits \in [Apis -> [Addresses -> 0..BanHits]]
    /\ banned \in [Apis -> SUBSET Addresses]
    /\ exchange \in [Exchanges -> {Away} \cup Exchange]
    /\ passed \in [CounterKeys -> Nat]
    /\ immortal \subseteq CounterKeys

Inside(p) == {e \in Exchanges : At(e, "inside") /\ exchange[e].api = p}

InsideInv ==
    /\ inflight \in [Apis -> Nat]
    /\ \A p \in Apis : IsFiniteSet(Inside(p)) /\ inflight[p] = Cardinality(Inside(p))

\* A request that has drawn a number of the window of k that still runs, and has not used it.
Pending(e, k) ==
    /\ At(e, "expire") \/ At(e, "decide")
    /\ exchange[e].key = k /\ ~exchange[e].old

\* Numbers are drawn once; who has to set the expiry drew the first.
NumbersInv ==
    /\ \A e \in Exchanges, k \in CounterKeys : Pending(e, k) => exchange[e].n \in 1..counter[k].n
    /\ \A e, f \in Exchanges, k \in CounterKeys :
         Pending(e, k) /\ Pending(f, k) /\ exchange[e].n = exchange[f].n => e = f
    /\ \A e \in Exchanges : At(e, "incr") => ~exchange[e].old
    /\ \A e \in Exchanges : At(e, "expire") =>
         ~exchange[e].old /\ exchange[e].n = 1 /\ ~counter[exchange[e].key].ttl
    /\ \A k \in CounterKeys : counter[k].n = 0 => ~counter[k].ttl

\* The numbers within the limit that nobody can use any more.
Spent(k) ==
    {n \in 1..Limit : n <= counter[k].n /\ \A e \in Exchanges : Pending(e, k) => exchange[e].n # n}

SpentInv == \A k \in CounterKeys : passed[k] <= Cardinality(Spent(k))

GatewayInv == GatewayTypes /\ InsideInv /\ NumbersInv /\ SpentInv /\ CountersExpire

LEMMA SpentFinite ==
    GatewayTypes => \A k \in CounterKeys :
        /\ IsFiniteSet(Spent(k)) /\ Cardinality(Spent(k)) \in Nat
        /\ Cardinality(Spent(k)) <= Limit /\ Cardinality(Spent(k)) <= counter[k].n
<1> SUFFICES ASSUME GatewayTypes, NEW k \in CounterKeys
             PROVE  /\ IsFiniteSet(Spent(k)) /\ Cardinality(Spent(k)) \in Nat
                    /\ Cardinality(Spent(k)) <= Limit /\ Cardinality(Spent(k)) <= counter[k].n
  OBVIOUS
<1>1. Limit \in Nat /\ counter[k].n \in Nat
  BY GatewayAssumption DEF GatewayTypes
<1>2. ASSUME NEW n \in Nat PROVE IsFiniteSet(1..n) /\ Cardinality(1..n) = n
  BY FS_Interval
<1>3. Spent(k) \subseteq 1..Limit /\ Spent(k) \subseteq 1..counter[k].n
  BY <1>1 DEF Spent
<1> QED
  BY <1>1, <1>2, <1>3, FS_Subset, FS_CardinalityType

LEMMA GatewayInitInv == GatewayInit => GatewayInv
<1> SUFFICES ASSUME GatewayInit PROVE GatewayInv
  OBVIOUS
<1>1. GatewayTypes
  BY GatewayAssumption DEF GatewayInit, GatewayTypes
<1>2. \A e \in Exchanges : \A l : ~At(e, l)
  BY DEF GatewayInit, At
<1>3. \A p \in Apis : Inside(p) = {}
  BY <1>2 DEF Inside
<1>4. InsideInv
  BY <1>3, FS_EmptySet DEF InsideInv, GatewayInit
<1>5. NumbersInv
  BY <1>2 DEF NumbersInv, Pending, GatewayInit
<1>6. SpentInv
  BY <1>1, SpentFinite DEF SpentInv, GatewayInit
<1>7. CountersExpire
  BY DEF CountersExpire, GatewayInit
<1> QED
  BY <1>1, <1>4, <1>5, <1>6, <1>7 DEF GatewayInv

\* A step of e that leaves its other fields alone, or takes it away.
LEMMA ExchangeMoves ==
    ASSUME GatewayTypes, NEW e \in Exchanges, exchange[e] # Away, NEW l,
           exchange' = [exchange EXCEPT ![e].at = l]
    PROVE  /\ \A f \in Exchanges : f # e => exchange'[f] = exchange[f]
           /\ exchange'[e] = [exchange[e] EXCEPT !.at = l]
           /\ exchange[e] \in Exchange
           /\ exchange'[e].at = l /\ exchange'[e].api = exchange[e].api
           /\ exchange'[e].key = exchange[e].key /\ exchange'[e].n = exchange[e].n
           /\ exchange'[e].old = exchange[e].old
<1>1. exchange[e] \in Exchange
  BY DEF GatewayTypes
<1>2. /\ exchange'[e] = [exchange[e] EXCEPT !.at = l]
      /\ \A f \in Exchanges : f # e => exchange'[f] = exchange[f]
  BY DEF GatewayTypes
<1>3. PICK q \in Exchange : q = exchange[e]
  BY <1>1
<1>4. exchange'[e] = [q EXCEPT !.at = l]
  BY <1>2, <1>3
<1>5. exchange'[e].at = l /\ exchange'[e].api = q.api /\ exchange'[e].key = q.key
      /\ exchange'[e].n = q.n /\ exchange'[e].old = q.old
  BY <1>4 DEF Exchange
<1> QED
  BY <1>1, <1>2, <1>3, <1>5

LEMMA RecordNotAway == \A q \in Exchange : q # Away
BY DEF Exchange, Away

-----------------------------------------------------------------------------
LEMMA InsideFrame ==
    ASSUME InsideInv, inflight' = inflight,
           \A f \in Exchanges, p \in Apis : f \in Inside(p)' <=> f \in Inside(p)
    PROVE  InsideInv'
<1>1. \A p \in Apis : Inside(p)' = Inside(p)
  BY DEF Inside
<1> QED
  BY <1>1 DEF InsideInv

\* No number is drawn.
LEMMA NumbersFrame ==
    ASSUME NumbersInv, counter' = counter,
           \A f \in Exchanges, k \in CounterKeys :
               Pending(f, k)' => Pending(f, k) /\ exchange'[f].n = exchange[f].n,
           \A f \in Exchanges : At(f, "incr")' => ~exchange'[f].old,
           \A f \in Exchanges : At(f, "expire")' => exchange'[f] = exchange[f]
    PROVE  NumbersInv'
<1>1. \A f \in Exchanges : At(f, "expire")' => At(f, "expire")
  BY DEF At
<1> QED
  BY <1>1 DEF NumbersInv

LEMMA SpentFrame ==
    ASSUME GatewayTypes, GatewayTypes', NEW k \in CounterKeys,
           counter[k].n <= counter'[k].n, passed'[k] = passed[k],
           passed[k] <= Cardinality(Spent(k)),
           \A f \in Exchanges : Pending(f, k)' =>
               \/ Pending(f, k) /\ exchange'[f].n = exchange[f].n
               \/ exchange'[f].n > counter[k].n
    PROVE  passed'[k] <= Cardinality(Spent(k)')
<1>1. counter[k].n \in Nat /\ counter'[k].n \in Nat /\ passed[k] \in Nat
  BY GatewayAssumption DEF GatewayTypes
<1>2. ASSUME NEW n \in Spent(k) PROVE n \in Spent(k)'
  <2>1. n \in 1..Limit /\ n <= counter[k].n /\ n \in Nat
    BY <1>2, GatewayAssumption DEF Spent
  <2>2. n <= counter'[k].n
    BY <1>1, <2>1
  <2>3. \A f \in Exchanges : Pending(f, k)' => exchange'[f].n # n
    BY <1>1, <1>2, <2>1 DEF Spent
  <2> QED
    BY <2>1, <2>2, <2>3 DEF Spent
<1>3. IsFiniteSet(Spent(k)') /\ Cardinality(Spent(k)') \in Nat
  <2>1. IsFiniteSet(1..Limit) /\ Spent(k)' \subseteq 1..Limit
    BY FS_Interval, GatewayAssumption DEF Spent
  <2> QED
    BY <2>1, FS_Subset, FS_CardinalityType
<1>4. Cardinality(Spent(k)) \in Nat /\ Cardinality(Spent(k)) <= Cardinality(Spent(k)')
  BY <1>2, <1>3, FS_Subset, SpentFinite
<1> QED
  BY <1>1, <1>3, <1>4

LEMMA ExpireFrame ==
    ASSUME CountersExpire, counter' = counter, immortal \subseteq immortal',
           \A f \in Exchanges : At(f, "expire") =>
               \/ At(f, "expire")' /\ exchange'[f].key = exchange[f].key
               \/ exchange[f].key \in immortal'
    PROVE  CountersExpire'
BY DEF CountersExpire

\* No number is drawn, no counter changes.
LEMMA QuietStep ==
    ASSUME GatewayInv, GatewayTypes', counter' = counter, passed' = passed,
           immortal \subseteq immortal',
           \A f \in Exchanges, k \in CounterKeys :
               Pending(f, k)' => Pending(f, k) /\ exchange'[f].n = exchange[f].n,
           \A f \in Exchanges : At(f, "incr")' => ~exchange'[f].old,
           \A f \in Exchanges : At(f, "expire")' => exchange'[f] = exchange[f],
           \A f \in Exchanges : At(f, "expire") =>
               \/ At(f, "expire")' /\ exchange'[f].key = exchange[f].key
               \/ exchange[f].key \in immortal'
    PROVE  NumbersInv' /\ SpentInv' /\ CountersExpire'
<1>0. GatewayTypes /\ InsideInv /\ NumbersInv /\ SpentInv /\ CountersExpire
  BY DEF GatewayInv
<1>1. NumbersInv'
  BY <1>0, NumbersFrame
<1>2. SpentInv'
  <2> SUFFICES ASSUME NEW k \in CounterKeys PROVE passed'[k] <= Cardinality(Spent(k)')
    BY DEF SpentInv
  <2>1. counter[k].n <= counter'[k].n
    BY <1>0, GatewayAssumption DEF GatewayTypes
  <2>2. passed[k] <= Cardinality(Spent(k)) /\ passed'[k] = passed[k]
    BY <1>0 DEF SpentInv
  <2> QED
    BY <1>0, <2>1, <2>2, SpentFrame
<1>3. CountersExpire'
  BY <1>0, ExpireFrame
<1> QED
  BY <1>1, <1>2, <1>3

LEMMA ArriveStep ==
    ASSUME GatewayInv, NEW e \in Exchanges, NEW p \in Apis, NEW a \in Addresses, NEW b \in Buckets,
           Arrive(e, p, a, b)
    PROVE  GatewayInv'
<1> DEFINE q == [at |-> "incr", api |-> p, key |-> <<a, b>>, n |-> 0, old |-> FALSE]
<1>0. GatewayTypes /\ InsideInv /\ NumbersInv
  BY DEF GatewayInv
<1>1. /\ exchange[e] = Away /\ exchange' = [exchange EXCEPT ![e] = q]
      /\ UNCHANGED <<counter, hits, banned, inflight, passed, immortal>>
  BY DEF Arrive
<1>2. q \in Exchange
  BY GatewayAssumption DEF Exchange, CounterKeys
<1>3. GatewayTypes'
  BY <1>0, <1>1, <1>2 DEF GatewayTypes
<1>4. /\ exchange'[e] = q /\ q.at = "incr" /\ ~q.old /\ q # Away
      /\ \A f \in Exchanges : f # e => exchange'[f] = exchange[f]
  BY <1>0, <1>1, <1>2, RecordNotAway DEF GatewayTypes
<1> HIDE DEF q
<1>5. \A f \in Exchanges, l \in {"expire", "decide", "inside"} :
        At(f, l)' <=> At(f, l) /\ f # e /\ exchange'[f] = exchange[f]
  BY <1>1, <1>4 DEF At
<1>6. InsideInv'
  <2>1. \A f \in Exchanges, x \in Apis : f \in Inside(x)' <=> f \in Inside(x)
    BY <1>1, <1>4, <1>5 DEF Inside, At
  <2> QED
    BY <1>0, <1>1, <2>1, InsideFrame
<1>7. NumbersInv' /\ SpentInv' /\ CountersExpire'
  <2>1. \A f \in Exchanges, k \in CounterKeys :
          Pending(f, k)' => Pending(f, k) /\ exchange'[f].n = exchange[f].n
    BY <1>5 DEF Pending
  <2>2. \A f \in Exchanges : At(f, "incr")' => ~exchange'[f].old
    BY <1>0, <1>4 DEF NumbersInv, At
  <2>3. \A f \in Exchanges : At(f, "expire") => At(f, "expire")' /\ exchange'[f].key = exchange[f].key
    BY <1>1, <1>4, <1>5 DEF At
  <2> QED
    BY <1>1, <1>3, <1>5, <2>1, <2>2, <2>3, QuietStep
<1> QED
  BY <1>3, <1>6, <1>7 DEF GatewayInv

\* One request more, or one less, inside p.
LEMMA InsideAdds ==
    ASSUME InsideInv, NEW p \in Apis, NEW e \in Exchanges, e \notin Inside(p),
           Inside(p)' = Inside(p) \cup {e},
           \A x \in Apis : x # p => Inside(x)' = Inside(x) /\ inflight'[x] = inflight[x],
           inflight' \in [Apis -> Nat], inflight'[p] = inflight[p] + 1
    PROVE  InsideInv'
<1>1. IsFiniteSet(Inside(p)) /\ inflight[p] = Cardinality(Inside(p))
  BY DEF InsideInv
<1>2. IsFiniteSet(Inside(p) \cup {e}) /\ Cardinality(Inside(p) \cup {e}) = inflight[p] + 1
  BY <1>1, FS_AddElement
<1>3. ASSUME NEW x \in Apis PROVE IsFiniteSet(Inside(x)') /\ inflight'[x] = Cardinality(Inside(x)')
  <2>1. CASE x = p
    BY <1>2, <2>1
  <2>2. CASE x # p
    BY <2>2 DEF InsideInv
  <2> QED
    BY <2>1, <2>2
<1> QED
  BY <1>3 DEF InsideInv

LEMMA InsideLoses ==
    ASSUME InsideInv, NEW p \in Apis, NEW e \in Inside(p),
           Inside(p)' = Inside(p) \ {e},
           \A x \in Apis : x # p => Inside(x)' = Inside(x),
           inflight' = [inflight EXCEPT ![p] = @ - 1]
    PROVE  InsideInv'
<1>1. IsFiniteSet(Inside(p)) /\ inflight[p] = Cardinality(Inside(p)) /\ inflight \in [Apis -> Nat]
  BY DEF InsideInv
<1>2. IsFiniteSet(Inside(p) \ {e}) /\ Cardinality(Inside(p) \ {e}) = inflight[p] - 1
  BY <1>1, FS_RemoveElement
<1>3. inflight[p] - 1 \in Nat
  BY <1>2, FS_CardinalityType
<1>4. /\ inflight' \in [Apis -> Nat] /\ inflight'[p] = inflight[p] - 1
      /\ \A x \in Apis : x # p => inflight'[x] = inflight[x]
  BY <1>1, <1>3
<1>5. ASSUME NEW x \in Apis PROVE IsFiniteSet(Inside(x)') /\ inflight'[x] = Cardinality(Inside(x)')
  <2>1. CASE x = p
    BY <1>2, <1>4, <2>1
  <2>2. CASE x # p
    BY <1>4, <2>2 DEF InsideInv
  <2> QED
    BY <2>1, <2>2
<1> QED
  BY <1>4, <1>5 DEF InsideInv

\* e goes inside: the process counts it.
LEMMA LetInStep ==
    ASSUME GatewayTypes, InsideInv, NEW e \in Exchanges, exchange[e] # Away, ~At(e, "inside"), LetIn(e)
    PROVE  InsideInv'
<1>1. exchange[e] \in Exchange
  BY DEF GatewayTypes
<1>2. PICK p \in Apis : p = exchange[e].api
  BY <1>1 DEF Exchange
<1>3. exchange' = [exchange EXCEPT ![e].at = "inside"] /\ inflight' = [inflight EXCEPT ![p] = @ + 1]
  BY <1>2 DEF LetIn
<1>4. /\ \A f \in Exchanges : f # e => exchange'[f] = exchange[f]
      /\ exchange'[e] = [exchange[e] EXCEPT !.at = "inside"]
      /\ exchange'[e].at = "inside" /\ exchange'[e].api = p
  BY <1>2, <1>3, ExchangeMoves
<1>5. exchange'[e] # Away
  BY <1>4 DEF Away
<1>6. Inside(p)' = Inside(p) \cup {e} /\ e \notin Inside(p)
  BY <1>4, <1>5 DEF Inside, At
<1>7. \A x \in Apis : x # p => Inside(x)' = Inside(x)
  BY <1>2, <1>4, <1>5 DEF Inside, At
<1>8. /\ inflight' \in [Apis -> Nat] /\ inflight'[p] = inflight[p] + 1
      /\ \A x \in Apis : x # p => inflight'[x] = inflight[x]
  BY <1>3 DEF InsideInv
<1> QED
  BY <1>6, <1>7, <1>8, InsideAdds

LEMMA RespondStep ==
    ASSUME GatewayInv, NEW e \in Exchanges, Respond(e)
    PROVE  GatewayInv'
<1>0. GatewayTypes /\ InsideInv /\ NumbersInv
  BY DEF GatewayInv
<1> PICK p \in Apis : p = exchange[e].api
  BY <1>0 DEF Respond, GatewayTypes, At, Exchange
<1>1. /\ At(e, "inside") /\ exchange' = [exchange EXCEPT ![e] = Away]
      /\ inflight' = [inflight EXCEPT ![p] = @ - 1]
      /\ UNCHANGED <<counter, hits, banned, passed, immortal>>
  BY DEF Respond
<1>2. GatewayTypes'
  BY <1>0, <1>1 DEF GatewayTypes
<1>3. exchange'[e] = Away /\ \A f \in Exchanges : f # e => exchange'[f] = exchange[f]
  BY <1>0, <1>1 DEF GatewayTypes
<1>5. \A f \in Exchanges : \A l : At(f, l)' <=> At(f, l) /\ f # e
  BY <1>3 DEF At
<1>6. InsideInv'
  <2>1. Inside(p)' = Inside(p) \ {e} /\ e \in Inside(p)
    BY <1>1, <1>3, <1>5 DEF Inside
  <2>2. \A x \in Apis : x # p => Inside(x)' = Inside(x)
    BY <1>3, <1>5 DEF Inside
  <2> QED
    BY <1>0, <1>1, <2>1, <2>2, InsideLoses
<1>7. NumbersInv' /\ SpentInv' /\ CountersExpire'
  <2>1. \A f \in Exchanges, k \in CounterKeys :
          Pending(f, k)' => Pending(f, k) /\ exchange'[f].n = exchange[f].n
    BY <1>3, <1>5 DEF Pending
  <2>2. \A f \in Exchanges : At(f, "incr")' => ~exchange'[f].old
    BY <1>0, <1>3, <1>5 DEF NumbersInv
  <2>3. \A f \in Exchanges : At(f, "expire") => At(f, "expire")' /\ exchange'[f].key = exchange[f].key
    BY <1>1, <1>3, <1>5 DEF At
  <2>4. \A f \in Exchanges : At(f, "expire")' => exchange'[f] = exchange[f]
    BY <1>3, <1>5
  <2> QED
    BY <1>1, <1>2, <2>1, <2>2, <2>3, <2>4, QuietStep
<1> QED
  BY <1>2, <1>6, <1>7 DEF GatewayInv

LEMMA IncrementStep ==
    ASSUME GatewayInv, NEW e \in Exchanges, Increment(e)
    PROVE  GatewayInv'
<1>0. GatewayTypes /\ InsideInv /\ NumbersInv /\ SpentInv /\ CountersExpire
  BY DEF GatewayInv
<1>1. At(e, "incr") /\ exchange[e] \in Exchange /\ ~exchange[e].old
  BY <1>0 DEF Increment, At, GatewayTypes, NumbersInv
<1> PICK c \in CounterKeys : c = exchange[e].key
  BY <1>1 DEF Exchange
<1> PICK n \in Nat : n = counter[c].n + 1
  BY <1>0, GatewayAssumption DEF GatewayTypes
<1> PICK l \in {"expire", "decide"} : l = IF n = 1 THEN "expire" ELSE "decide"
  OBVIOUS
<1>2. /\ n <= MaxCount /\ counter' = [counter EXCEPT ![c].n = n]
      /\ exchange' = [exchange EXCEPT ![e].n = n, ![e].at = l]
      /\ UNCHANGED <<hits, banned, inflight, passed, immortal>>
  BY DEF Increment
<1>3. n \in 1..MaxCount
  BY <1>0, <1>2, GatewayAssumption DEF GatewayTypes
<1>4. /\ \A k \in CounterKeys : k # c => counter'[k] = counter[k]
      /\ counter'[c] = [counter[c] EXCEPT !.n = n]
      /\ counter[c] \in [n : 0..MaxCount, ttl : BOOLEAN]
  BY <1>0, <1>2 DEF GatewayTypes
<1>5. counter'[c] \in [n : 0..MaxCount, ttl : BOOLEAN]
      /\ counter'[c].n = n /\ counter'[c].ttl = counter[c].ttl
  BY <1>3, <1>4
<1>6. /\ \A f \in Exchanges : f # e => exchange'[f] = exchange[f]
      /\ exchange'[e] = [exchange[e] EXCEPT !.n = n, !.at = l]
  BY <1>0, <1>2 DEF GatewayTypes
<1>7. exchange'[e] = [at |-> l, api |-> exchange[e].api, key |-> c, n |-> n, old |-> FALSE]
  BY <1>1, <1>6 DEF Exchange
<1>8. exchange'[e] \in Exchange
  <2> PICK r : r = exchange[e]
    OBVIOUS
  <2>1. r.api \in Apis /\ l \in {"incr", "expire", "decide", "inside"} /\ n \in 0..MaxCount
    BY <1>1, <1>3 DEF Exchange
  <2> QED
    BY <1>7, <2>1 DEF Exchange
<1>9. GatewayTypes'
  <2>1. counter' \in [CounterKeys -> [n : 0..MaxCount, ttl : BOOLEAN]]
    BY <1>0, <1>2, <1>4, <1>5 DEF GatewayTypes
  <2>2. exchange' \in [Exchanges -> {Away} \cup Exchange]
    BY <1>0, <1>2, <1>6, <1>8 DEF GatewayTypes
  <2> QED
    BY <1>0, <1>2, <2>1, <2>2 DEF GatewayTypes
<1>10. exchange'[e] # Away
  BY <1>8, RecordNotAway
<1>11. \A f \in Exchanges : f # e =>
          (\A x : At(f, x)' <=> At(f, x)) /\ \A k \in CounterKeys : Pending(f, k)' <=> Pending(f, k)
  BY <1>6 DEF At, Pending
<1>12. \A k \in CounterKeys : ~Pending(e, k) /\ (Pending(e, k)' <=> k = c)
  BY <1>1, <1>7, <1>10 DEF At, Pending
<1>13. exchange'[e].n = n /\ exchange'[e].at = l /\ exchange'[e].key = c /\ ~exchange'[e].old
  BY <1>7
<1>14. \A k \in CounterKeys : counter[k].n \in Nat /\ counter'[k].n \in Nat
                              /\ counter[k].n <= counter'[k].n
  BY <1>0, <1>4, <1>5, GatewayAssumption DEF GatewayTypes
<1>15. InsideInv'
  <2>1. \A f \in Exchanges, x \in Apis : f \in Inside(x)' <=> f \in Inside(x)
    BY <1>1, <1>6, <1>11, <1>13 DEF Inside, At
  <2> QED
    BY <1>0, <1>2, <2>1, InsideFrame
<1>16. NumbersInv'
  <2>1. ASSUME NEW f \in Exchanges, NEW k \in CounterKeys, Pending(f, k)'
        PROVE  exchange'[f].n \in 1..counter'[k].n
    <3>1. CASE f = e
      BY <1>3, <1>5, <1>12, <1>13, <2>1, <3>1
    <3>2. CASE f # e
      <4>1. exchange'[f].n = exchange[f].n /\ exchange[f].n \in 1..counter[k].n
        BY <1>0, <1>6, <1>11, <2>1, <3>2 DEF NumbersInv
      <4> QED
        BY <1>14, <4>1
    <3> QED
      BY <3>1, <3>2
  <2>2. ASSUME NEW f \in Exchanges, NEW g \in Exchanges, NEW k \in CounterKeys,
               Pending(f, k)', Pending(g, k)', exchange'[f].n = exchange'[g].n
        PROVE  f = g
    <3>1. ASSUME NEW h \in Exchanges, h # e, Pending(h, k)' PROVE exchange'[h].n = exchange[h].n
          /\ Pending(h, k) /\ exchange[h].n <= counter[k].n
      BY <1>0, <1>6, <1>11, <3>1 DEF NumbersInv
    <3>2. ASSUME NEW h \in Exchanges, h # e, Pending(h, k)', k = c PROVE exchange'[h].n # n
      <4>1. exchange'[h].n = exchange[h].n /\ Pending(h, c) /\ exchange[h].n \in 1..counter[c].n
        BY <1>0, <3>1, <3>2 DEF NumbersInv
      <4> HIDE DEF Pending
      <4> QED
        BY <1>14, <4>1
    <3>3. CASE f = e /\ g # e
      BY <1>12, <1>13, <2>2, <3>2, <3>3
    <3>4. CASE g = e /\ f # e
      BY <1>12, <1>13, <2>2, <3>2, <3>4
    <3>5. CASE f # e /\ g # e
      BY <1>0, <2>2, <3>1, <3>5 DEF NumbersInv
    <3> QED
      BY <3>3, <3>4, <3>5
  <2>3. ASSUME NEW f \in Exchanges, At(f, "incr")' PROVE ~exchange'[f].old
    <3>1. f # e
      BY <1>13, <2>3 DEF At
    <3> QED
      BY <1>0, <1>6, <1>11, <2>3, <3>1 DEF NumbersInv
  <2>4. ASSUME NEW f \in Exchanges, At(f, "expire")'
        PROVE  ~exchange'[f].old /\ exchange'[f].n = 1 /\ ~counter'[exchange'[f].key].ttl
    <3>1. CASE f = e
      <4>1. n = 1
        BY <1>13, <2>4, <3>1 DEF At
      <4>2. counter[c].n = 0
        BY <1>14, <4>1
      <4>3. ~counter[c].ttl
        BY <1>0, <4>2 DEF NumbersInv
      <4> QED
        BY <1>5, <1>13, <3>1, <4>1, <4>3
    <3>2. CASE f # e
      <4>1. /\ exchange'[f] = exchange[f] /\ exchange[f].key \in CounterKeys
            /\ ~exchange[f].old /\ exchange[f].n = 1 /\ ~counter[exchange[f].key].ttl
        BY <1>0, <1>6, <1>11, <2>4, <3>2 DEF NumbersInv, GatewayTypes, At, Exchange
      <4> QED
        BY <1>4, <1>5, <4>1
    <3> QED
      BY <3>1, <3>2
  <2>5. ASSUME NEW k \in CounterKeys, counter'[k].n = 0 PROVE ~counter'[k].ttl
    <3>1. k # c
      BY <1>5, <1>14, <2>5
    <3> QED
      BY <1>0, <1>4, <2>5, <3>1 DEF NumbersInv
  <2> QED
    BY <2>1, <2>2, <2>3, <2>4, <2>5 DEF NumbersInv
<1>17. SpentInv'
  <2> SUFFICES ASSUME NEW k \in CounterKeys PROVE passed'[k] <= Cardinality(Spent(k)')
    BY DEF SpentInv
  <2>1. passed[k] <= Cardinality(Spent(k)) /\ passed'[k] = passed[k] /\ counter[k].n <= counter'[k].n
    BY <1>0, <1>2, <1>14 DEF SpentInv
  <2>2. ASSUME NEW f \in Exchanges, Pending(f, k)'
        PROVE  \/ Pending(f, k) /\ exchange'[f].n = exchange[f].n
               \/ exchange'[f].n > counter[k].n
    <3>1. CASE f = e
      <4>1. k = c /\ exchange'[f].n = n
        BY <1>12, <1>13, <2>2, <3>1
      <4> HIDE DEF Pending
      <4> QED
        BY <1>14, <4>1
    <3>2. CASE f # e
      BY <1>6, <1>11, <2>2, <3>2
    <3> QED
      BY <3>1, <3>2
  <2> QED
    BY <1>0, <1>9, <2>1, <2>2, SpentFrame
<1>18. CountersExpire'
  <2> SUFFICES ASSUME NEW k \in CounterKeys, counter'[k].n > 0, ~counter'[k].ttl
               PROVE  k \in immortal \/ \E f \in Exchanges : At(f, "expire")' /\ exchange'[f].key = k
    BY <1>2 DEF CountersExpire
  <2>1. CASE k = c /\ n = 1
    BY <1>10, <1>13, <2>1 DEF At
  <2>2. CASE k # c \/ n # 1
    <3>1. counter[k].n > 0 /\ ~counter[k].ttl
      BY <1>4, <1>5, <1>14, <2>2
    <3>2. CASE k \in immortal
      BY <3>2
    <3>3. CASE \E f \in Exchanges : At(f, "expire") /\ exchange[f].key = k
      <4> PICK f \in Exchanges : At(f, "expire") /\ exchange[f].key = k
        BY <3>3
      <4>1. f # e
        BY <1>1 DEF At
      <4> QED
        BY <1>6, <1>11, <4>1
    <3> QED
      BY <1>0, <3>1, <3>2, <3>3 DEF CountersExpire
  <2> QED
    BY <2>1, <2>2
<1> QED
  BY <1>9, <1>15, <1>16, <1>17, <1>18 DEF GatewayInv

LEMMA SetExpiryStep ==
    ASSUME GatewayInv, NEW e \in Exchanges, SetExpiry(e)
    PROVE  GatewayInv'
<1>0. GatewayTypes /\ InsideInv /\ NumbersInv /\ SpentInv /\ CountersExpire
  BY DEF GatewayInv
<1>1. /\ At(e, "expire") /\ exchange[e] \in Exchange /\ exchange[e] # Away
      /\ ~exchange[e].old /\ exchange[e].n = 1
  BY <1>0 DEF SetExpiry, At, GatewayTypes, NumbersInv
<1> PICK c \in CounterKeys : c = exchange[e].key
  BY <1>1 DEF Exchange
<1>2. /\ counter' = [counter EXCEPT ![c].ttl = TRUE]
      /\ exchange' = [exchange EXCEPT ![e].at = "decide"]
      /\ UNCHANGED <<hits, banned, inflight, passed, immortal>>
  BY DEF SetExpiry
<1>3. /\ \A f \in Exchanges : f # e => exchange'[f] = exchange[f]
      /\ exchange'[e] = [exchange[e] EXCEPT !.at = "decide"]
      /\ exchange'[e].at = "decide" /\ exchange'[e].key = c /\ exchange'[e].n = 1 /\ ~exchange'[e].old
      /\ exchange'[e].n = exchange[e].n
  BY <1>0, <1>1, <1>2, ExchangeMoves
<1>4. /\ \A k \in CounterKeys : k # c => counter'[k] = counter[k]
      /\ counter'[c] = [counter[c] EXCEPT !.ttl = TRUE]
      /\ counter[c] \in [n : 0..MaxCount, ttl : BOOLEAN]
  BY <1>0, <1>2 DEF GatewayTypes
<1>5. counter'[c] \in [n : 0..MaxCount, ttl : BOOLEAN] /\ counter'[c].n = counter[c].n
      /\ counter'[c].ttl
  BY <1>4
<1>6. exchange'[e] \in Exchange
  BY <1>1, <1>3 DEF Exchange
<1>7. GatewayTypes'
  <2>1. counter' \in [CounterKeys -> [n : 0..MaxCount, ttl : BOOLEAN]]
    BY <1>0, <1>2, <1>4, <1>5 DEF GatewayTypes
  <2>2. exchange' \in [Exchanges -> {Away} \cup Exchange]
    BY <1>0, <1>2, <1>3, <1>6 DEF GatewayTypes
  <2> QED
    BY <1>0, <1>2, <2>1, <2>2 DEF GatewayTypes
<1>8. exchange'[e] # Away
  BY <1>6, RecordNotAway
<1>9. \A f \in Exchanges : f # e => (\A l : At(f, l)' <=> At(f, l))
  BY <1>3 DEF At
<1>10. Pending(e, c) /\ \A f \in Exchanges, k \in CounterKeys :
          Pending(f, k)' <=> Pending(f, k)
  <2>1. \A k \in CounterKeys : Pending(e, k) <=> k = c
    BY <1>1 DEF Pending
  <2>2. \A k \in CounterKeys : Pending(e, k)' <=> k = c
    BY <1>3, <1>8 DEF Pending, At
  <2>3. \A f \in Exchanges, k \in CounterKeys : f # e => (Pending(f, k)' <=> Pending(f, k))
    BY <1>3, <1>9 DEF Pending
  <2> QED
    BY <2>1, <2>2, <2>3
<1>11. \A f \in Exchanges : exchange'[f].n = exchange[f].n
  BY <1>3
<1>12. \A k \in CounterKeys : counter[k].n \in Nat /\ counter'[k].n = counter[k].n
  BY <1>0, <1>4, <1>5, GatewayAssumption DEF GatewayTypes
<1>13. counter[c].n # 0
  BY <1>0, <1>1, <1>10, <1>12 DEF NumbersInv
<1>14. InsideInv'
  <2>1. \A f \in Exchanges, x \in Apis : f \in Inside(x)' <=> f \in Inside(x)
    BY <1>1, <1>3, <1>9 DEF Inside, At
  <2> QED
    BY <1>0, <1>2, <2>1, InsideFrame
<1>15. NumbersInv'
  <2>1. \A f \in Exchanges, k \in CounterKeys : Pending(f, k)' => exchange'[f].n \in 1..counter'[k].n
    BY <1>0, <1>10, <1>11, <1>12 DEF NumbersInv
  <2>2. \A f, g \in Exchanges, k \in CounterKeys :
          Pending(f, k)' /\ Pending(g, k)' /\ exchange'[f].n = exchange'[g].n => f = g
    BY <1>0, <1>10, <1>11 DEF NumbersInv
  <2>3. \A f \in Exchanges : At(f, "incr")' => ~exchange'[f].old
    BY <1>0, <1>3, <1>9 DEF NumbersInv
  <2>4. ASSUME NEW f \in Exchanges, At(f, "expire")'
        PROVE  ~exchange'[f].old /\ exchange'[f].n = 1 /\ ~counter'[exchange'[f].key].ttl
    <3>1. f # e
      BY <1>3, <2>4 DEF At
    <3>2. /\ exchange'[f] = exchange[f] /\ exchange[f].key \in CounterKeys /\ At(f, "expire")
          /\ ~exchange[f].old /\ exchange[f].n = 1 /\ ~counter[exchange[f].key].ttl
      BY <1>0, <1>3, <1>9, <2>4, <3>1 DEF NumbersInv, GatewayTypes, At, Exchange
    <3>3. exchange[f].key # c
      <4>1. SUFFICES ASSUME exchange[f].key = c PROVE FALSE
        OBVIOUS
      <4>2. Pending(f, c)
        BY <3>2, <4>1 DEF Pending
      <4> QED
        BY <1>0, <1>1, <1>10, <3>1, <3>2, <4>2 DEF NumbersInv
    <3> QED
      BY <1>4, <3>2, <3>3
  <2>5. \A k \in CounterKeys : counter'[k].n = 0 => ~counter'[k].ttl
    BY <1>0, <1>4, <1>12, <1>13 DEF NumbersInv
  <2> QED
    BY <2>1, <2>2, <2>3, <2>4, <2>5 DEF NumbersInv
<1>16. SpentInv'
  <2> SUFFICES ASSUME NEW k \in CounterKeys PROVE passed'[k] <= Cardinality(Spent(k)')
    BY DEF SpentInv
  <2>1. passed[k] <= Cardinality(Spent(k)) /\ passed'[k] = passed[k]
    BY <1>0, <1>2 DEF SpentInv
  <2>2. counter[k].n <= counter'[k].n
    BY <1>12
  <2> QED
    BY <1>0, <1>7, <1>10, <1>11, <2>1, <2>2, SpentFrame
<1>17. CountersExpire'
  <2> SUFFICES ASSUME NEW k \in CounterKeys, counter'[k].n > 0, ~counter'[k].ttl
               PROVE  k \in immortal \/ \E f \in Exchanges : At(f, "expire")' /\ exchange'[f].key = k
    BY <1>2 DEF CountersExpire
  <2>1. k # c /\ counter[k].n > 0 /\ ~counter[k].ttl
    BY <1>4, <1>5
  <2>2. CASE k \in immortal
    BY <2>2
  <2>3. CASE \E f \in Exchanges : At(f, "expire") /\ exchange[f].key = k
    BY <1>3, <1>9, <2>1, <2>3
  <2> QED
    BY <1>0, <2>1, <2>2, <2>3 DEF CountersExpire
<1> QED
  BY <1>7, <1>14, <1>15, <1>16, <1>17 DEF GatewayInv

LEMMA RedisFailsStep ==
    ASSUME GatewayInv, NEW e \in Exchanges, RedisFails(e)
    PROVE  GatewayInv'
<1>0. GatewayTypes /\ InsideInv /\ NumbersInv /\ SpentInv /\ CountersExpire
  BY DEF GatewayInv
<1>1. /\ exchange[e] \in Exchange /\ exchange[e] # Away /\ LetIn(e)
      /\ At(e, "incr") \/ At(e, "expire")
      /\ ~At(e, "inside")
  BY <1>0 DEF RedisFails, At, GatewayTypes
<1> PICK c \in CounterKeys : c = exchange[e].key
  BY <1>1 DEF Exchange
<1>2. /\ exchange' = [exchange EXCEPT ![e].at = "inside"]
      /\ immortal' = IF At(e, "expire") THEN immortal \cup {c} ELSE immortal
      /\ UNCHANGED <<counter, hits, banned, passed>>
  BY DEF RedisFails, LetIn
<1>3. /\ \A f \in Exchanges : f # e => exchange'[f] = exchange[f]
      /\ exchange'[e] = [exchange[e] EXCEPT !.at = "inside"] /\ exchange'[e].at = "inside"
  BY <1>0, <1>1, <1>2, ExchangeMoves
<1>4. exchange'[e] \in Exchange /\ exchange'[e] # Away
  BY <1>1, <1>3, RecordNotAway DEF Exchange
<1>5. GatewayTypes'
  <2>1. exchange' \in [Exchanges -> {Away} \cup Exchange]
    BY <1>0, <1>2, <1>3, <1>4 DEF GatewayTypes
  <2> QED
    BY <1>0, <1>2, <2>1 DEF GatewayTypes
<1>6. ~At(e, "inside")
  BY <1>1 DEF At
<1>7. InsideInv'
  BY <1>0, <1>1, <1>6, LetInStep
<1>8. \A f \in Exchanges : \A l : At(f, l)' <=> IF f = e THEN l = "inside" ELSE At(f, l)
  BY <1>3, <1>4 DEF At
<1>9. NumbersInv' /\ SpentInv' /\ CountersExpire'
  <2>1. \A f \in Exchanges, k \in CounterKeys :
          Pending(f, k)' => Pending(f, k) /\ exchange'[f].n = exchange[f].n
    BY <1>3, <1>8 DEF Pending
  <2>2. \A f \in Exchanges : At(f, "incr")' => ~exchange'[f].old
    BY <1>0, <1>3, <1>8 DEF NumbersInv
  <2>3. \A f \in Exchanges : At(f, "expire")' => exchange'[f] = exchange[f]
    BY <1>3, <1>8
  <2>4. \A f \in Exchanges : At(f, "expire") =>
          \/ At(f, "expire")' /\ exchange'[f].key = exchange[f].key
          \/ exchange[f].key \in immortal'
    BY <1>2, <1>3, <1>8
  <2> QED
    BY <1>2, <1>5, <2>1, <2>2, <2>3, <2>4, QuietStep
<1> QED
  BY <1>5, <1>7, <1>9 DEF GatewayInv

\* The number that lets e in is within the limit, and nobody else can use it.
LEMMA LetInDecided ==
    ASSUME GatewayInv, NEW e \in Exchanges, NEW c \in CounterKeys, c = exchange[e].key,
           At(e, "decide"), exchange[e].n <= Limit, LetIn(e),
           passed' = [passed EXCEPT ![c] = IF exchange[e].old THEN @ ELSE @ + 1],
           UNCHANGED <<counter, hits, banned, immortal>>
    PROVE  GatewayInv'
<1>0. GatewayTypes /\ InsideInv /\ NumbersInv /\ SpentInv /\ CountersExpire
  BY DEF GatewayInv
<1>1. exchange[e] \in Exchange /\ exchange[e] # Away /\ ~At(e, "inside")
  BY <1>0 DEF At, GatewayTypes
<1>2. exchange' = [exchange EXCEPT ![e].at = "inside"]
  BY DEF LetIn
<1>3. /\ \A f \in Exchanges : f # e => exchange'[f] = exchange[f]
      /\ exchange'[e] = [exchange[e] EXCEPT !.at = "inside"] /\ exchange'[e].at = "inside"
  BY <1>0, <1>1, <1>2, ExchangeMoves
<1>4. exchange'[e] \in Exchange /\ exchange'[e] # Away
  BY <1>1, <1>3, RecordNotAway DEF Exchange
<1>5. \A k \in CounterKeys : passed[k] \in Nat /\ passed'[k] \in Nat
        /\ passed'[k] = IF k = c /\ ~exchange[e].old THEN passed[k] + 1 ELSE passed[k]
  BY <1>0 DEF GatewayTypes
<1>6. GatewayTypes'
  <2>1. exchange' \in [Exchanges -> {Away} \cup Exchange]
    BY <1>0, <1>2, <1>3, <1>4 DEF GatewayTypes
  <2>2. passed' \in [CounterKeys -> Nat]
    BY <1>0, <1>5 DEF GatewayTypes
  <2> QED
    BY <1>0, <1>2, <2>1, <2>2 DEF GatewayTypes
<1>7. InsideInv'
  BY <1>0, <1>1, LetInStep
<1>8. \A f \in Exchanges : \A l : At(f, l)' <=> IF f = e THEN l = "inside" ELSE At(f, l)
  BY <1>3, <1>4 DEF At
<1>9. \A f \in Exchanges, k \in CounterKeys :
        Pending(f, k)' => f # e /\ Pending(f, k) /\ exchange'[f].n = exchange[f].n
  BY <1>3, <1>8 DEF Pending
<1>10. NumbersInv'
  <2>1. \A f \in Exchanges : At(f, "incr")' => ~exchange'[f].old
    BY <1>0, <1>3, <1>8 DEF NumbersInv
  <2>2. \A f \in Exchanges : At(f, "expire")' => exchange'[f] = exchange[f]
    BY <1>3, <1>8
  <2> QED
    BY <1>0, <1>9, <2>1, <2>2, NumbersFrame
<1>11. CountersExpire'
  <2>1. \A f \in Exchanges : At(f, "expire") => At(f, "expire")' /\ exchange'[f].key = exchange[f].key
    BY <1>3, <1>8 DEF At
  <2> QED
    BY <1>0, <2>1, ExpireFrame
<1>12. SpentInv'
  <2> SUFFICES ASSUME NEW k \in CounterKeys PROVE passed'[k] <= Cardinality(Spent(k)')
    BY DEF SpentInv
  <2>0. passed[k] <= Cardinality(Spent(k)) /\ counter'[k].n = counter[k].n /\ counter[k].n \in Nat
    BY <1>0, GatewayAssumption DEF SpentInv, GatewayTypes
  <2>1. CASE k # c \/ exchange[e].old
    <3>1. passed'[k] = passed[k]
      BY <1>5, <2>1
    <3>2. counter[k].n <= counter'[k].n
      BY <2>0
    <3> QED
      BY <1>0, <1>6, <1>9, <2>0, <3>1, <3>2, SpentFrame
  <2>2. CASE k = c /\ ~exchange[e].old
    <3> PICK n : n = exchange[e].n
      OBVIOUS
    <3>1. Pending(e, k)
      BY <2>2 DEF Pending
    <3>2. n \in 1..counter[k].n
      BY <1>0, <3>1 DEF NumbersInv
    <3>3. n \in 1..Limit /\ n <= counter[k].n
      BY <2>0, <3>2, GatewayAssumption
    <3>4. n \notin Spent(k)
      BY <3>1 DEF Spent
    <3>5. n \in Spent(k)'
      <4>1. \A f \in Exchanges : Pending(f, k)' => exchange'[f].n # n
        BY <1>0, <1>9, <3>1 DEF NumbersInv
      <4> QED
        BY <2>0, <3>3, <4>1 DEF Spent
    <3>6. ASSUME NEW m \in Spent(k) PROVE m \in Spent(k)'
      <4>1. m \in 1..Limit /\ m <= counter'[k].n
            /\ \A f \in Exchanges : Pending(f, k) => exchange[f].n # m
        BY <2>0, <3>6 DEF Spent
      <4>2. \A f \in Exchanges : Pending(f, k)' => exchange'[f].n # m
        BY <1>9, <4>1
      <4> QED
        BY <4>1, <4>2 DEF Spent
    <3>7. IsFiniteSet(Spent(k)') /\ IsFiniteSet(Spent(k)) /\ Cardinality(Spent(k)) \in Nat
          /\ Cardinality(Spent(k)') \in Nat
      <4>1. IsFiniteSet(1..Limit) /\ Spent(k)' \subseteq 1..Limit
        BY FS_Interval, GatewayAssumption DEF Spent
      <4> QED
        BY <1>0, <4>1, FS_Subset, FS_CardinalityType, SpentFinite
    <3>8. Cardinality(Spent(k) \cup {n}) = Cardinality(Spent(k)) + 1
      BY <3>4, <3>7, FS_AddElement
    <3>9. Cardinality(Spent(k) \cup {n}) <= Cardinality(Spent(k)')
      BY <3>5, <3>6, <3>7, FS_Subset
    <3>10. passed'[k] = passed[k] + 1 /\ passed[k] \in Nat
      BY <1>5, <2>2
    <3> QED
      BY <2>0, <3>7, <3>8, <3>9, <3>10
  <2> QED
    BY <2>1, <2>2
<1> QED
  BY <1>6, <1>7, <1>10, <1>11, <1>12 DEF GatewayInv

LEMMA LimitsBound == \A limit \in Limits : limit \in Nat /\ limit <= Limit
<1> SUFFICES ASSUME NEW q \in 1..4
             PROVE  LET s == (Limit * q) \div 4 IN
                    s \in Nat /\ s <= Limit /\ 1 <= Limit
  BY GatewayAssumption DEF Limits
<1>1. CASE q = 1
  BY <1>1, GatewayAssumption
<1>2. CASE q = 2
  BY <1>2, GatewayAssumption
<1>3. CASE q = 3
  BY <1>3, GatewayAssumption
<1>4. CASE q = 4
  BY <1>4, GatewayAssumption
<1> QED
  BY <1>1, <1>2, <1>3, <1>4

\* The request over the limit is answered.
LEMMA RefusedStep ==
    ASSUME GatewayInv, NEW e \in Exchanges, At(e, "decide"), GatewayTypes',
           exchange' = [exchange EXCEPT ![e] = Away],
           UNCHANGED <<counter, inflight, passed, immortal>>
    PROVE  GatewayInv'
<1>0. GatewayTypes /\ InsideInv /\ NumbersInv
  BY DEF GatewayInv
<1>1. exchange'[e] = Away /\ \A f \in Exchanges : f # e => exchange'[f] = exchange[f]
  BY <1>0 DEF GatewayTypes
<1>2. \A f \in Exchanges : \A l : At(f, l)' <=> At(f, l) /\ f # e
  BY <1>1 DEF At
<1>3. InsideInv'
  <2>1. \A f \in Exchanges, x \in Apis : f \in Inside(x)' <=> f \in Inside(x)
    BY <1>1, <1>2 DEF Inside, At
  <2> QED
    BY <1>0, <2>1, InsideFrame
<1>4. NumbersInv' /\ SpentInv' /\ CountersExpire'
  <2>1. \A f \in Exchanges, k \in CounterKeys :
          Pending(f, k)' => Pending(f, k) /\ exchange'[f].n = exchange[f].n
    BY <1>1, <1>2 DEF Pending
  <2>2. \A f \in Exchanges : At(f, "incr")' => ~exchange'[f].old
    BY <1>0, <1>1, <1>2 DEF NumbersInv
  <2>3. \A f \in Exchanges : At(f, "expire")' => exchange'[f] = exchange[f]
    BY <1>1, <1>2
  <2>4. \A f \in Exchanges : At(f, "expire") => At(f, "expire")' /\ exchange'[f].key = exchange[f].key
    BY <1>1, <1>2 DEF At
  <2> QED
    BY <2>1, <2>2, <2>3, <2>4, QuietStep
<1> QED
  BY <1>3, <1>4 DEF GatewayInv

LEMMA DecideStep ==
    ASSUME GatewayInv, NEW e \in Exchanges, Decide(e)
    PROVE  GatewayInv'
<1>0. GatewayTypes
  BY DEF GatewayInv
<1>1. At(e, "decide") /\ exchange[e] \in Exchange
  BY <1>0 DEF Decide, At, GatewayTypes
<1> PICK p \in Apis, a \in Addresses, b \in Buckets : p = exchange[e].api /\ <<a, b>> = exchange[e].key
  BY <1>1 DEF Exchange, CounterKeys
<1>2. <<a, b>> \in CounterKeys /\ exchange[e].key[1] = a /\ exchange[e].n \in Nat
  BY <1>1, GatewayAssumption DEF CounterKeys, Exchange
<1> PICK limit \in Limits :
       \/ /\ exchange[e].n <= limit
          /\ LetIn(e)
          /\ passed' = [passed EXCEPT ![<<a, b>>] = IF exchange[e].old THEN @ ELSE @ + 1]
          /\ UNCHANGED <<hits, banned>>
       \/ /\ exchange' = [exchange EXCEPT ![e] = Away]
          /\ hits' = [hits EXCEPT ![p][a] = IF @ < BanHits THEN @ + 1 ELSE @]
          /\ banned' = IF hits'[p][a] >= BanHits
                       THEN [banned EXCEPT ![p] = @ \cup {a}] ELSE banned
          /\ UNCHANGED <<inflight, passed>>
  BY <1>2 DEF Decide
<1>3. UNCHANGED <<counter, immortal>>
  BY DEF Decide
<1>4. CASE exchange[e].n <= limit /\ LetIn(e)
           /\ passed' = [passed EXCEPT ![<<a, b>>] = IF exchange[e].old THEN @ ELSE @ + 1]
           /\ UNCHANGED <<hits, banned>>
  <2>1. exchange[e].n <= Limit
    BY <1>2, <1>4, LimitsBound, GatewayAssumption
  <2> QED
    BY <1>1, <1>2, <1>3, <1>4, <2>1, LetInDecided
<1>5. CASE /\ exchange' = [exchange EXCEPT ![e] = Away]
           /\ hits' = [hits EXCEPT ![p][a] = IF @ < BanHits THEN @ + 1 ELSE @]
           /\ banned' = IF hits'[p][a] >= BanHits
                        THEN [banned EXCEPT ![p] = @ \cup {a}] ELSE banned
           /\ UNCHANGED <<inflight, passed>>
  <2>1. hits' \in [Apis -> [Addresses -> 0..BanHits]]
    <3>1. hits[p] \in [Addresses -> 0..BanHits] /\ hits[p][a] \in 0..BanHits
      BY <1>0 DEF GatewayTypes
    <3>2. (IF hits[p][a] < BanHits THEN hits[p][a] + 1 ELSE hits[p][a]) \in 0..BanHits
      BY <3>1, GatewayAssumption
    <3> QED
      BY <1>0, <1>5, <3>1, <3>2 DEF GatewayTypes
  <2>2. banned' \in [Apis -> SUBSET Addresses]
    BY <1>0, <1>5 DEF GatewayTypes
  <2>3. exchange' \in [Exchanges -> {Away} \cup Exchange]
    BY <1>0, <1>5 DEF GatewayTypes
  <2>4. GatewayTypes'
    BY <1>0, <1>3, <1>5, <2>1, <2>2, <2>3 DEF GatewayTypes
  <2> QED
    BY <1>1, <1>3, <1>5, <2>4, RefusedStep
<1> QED
  BY <1>4, <1>5

LEMMA WindowEndsStep ==
    ASSUME GatewayInv, NEW c \in CounterKeys, WindowEnds(c)
    PROVE  GatewayInv'
<1>0. GatewayTypes /\ InsideInv /\ NumbersInv /\ SpentInv /\ CountersExpire
  BY DEF GatewayInv
<1>1. /\ counter[c].ttl
      /\ counter' = [counter EXCEPT ![c] = [n |-> 0, ttl |-> FALSE]]
      /\ passed' = [passed EXCEPT ![c] = 0]
      /\ exchange' = [e \in Exchanges |-> IF At(e, "decide") /\ exchange[e].key = c
                                          THEN [exchange[e] EXCEPT !.old = TRUE] ELSE exchange[e]]
      /\ UNCHANGED <<hits, banned, inflight, immortal>>
  BY DEF WindowEnds
<1>2. \A f \in Exchanges : ~(At(f, "decide") /\ exchange[f].key = c) => exchange'[f] = exchange[f]
  BY <1>1
<1>3. ASSUME NEW f \in Exchanges, At(f, "decide"), exchange[f].key = c
      PROVE  /\ exchange'[f] \in Exchange /\ exchange'[f] # Away /\ exchange'[f].old
             /\ exchange'[f].at = "decide" /\ exchange'[f].key = c
             /\ exchange'[f].api = exchange[f].api
  <2>1. exchange[f] \in Exchange
    BY <1>0, <1>3 DEF GatewayTypes, At
  <2>2. exchange'[f] = [exchange[f] EXCEPT !.old = TRUE]
    BY <1>1, <1>3
  <2>3. exchange'[f] \in Exchange /\ exchange'[f].old /\ exchange'[f].api = exchange[f].api
        /\ exchange'[f].at = exchange[f].at /\ exchange'[f].key = c
    BY <1>3, <2>1, <2>2 DEF Exchange
  <2> QED
    BY <1>3, <2>3, RecordNotAway DEF At
<1>4. \A f \in Exchanges : \A l : At(f, l)' <=> At(f, l)
  BY <1>2, <1>3 DEF At
<1>5. /\ \A k \in CounterKeys : k # c => counter'[k] = counter[k] /\ passed'[k] = passed[k]
      /\ counter'[c] = [n |-> 0, ttl |-> FALSE] /\ passed'[c] = 0
      /\ counter'[c].n = 0 /\ ~counter'[c].ttl
  BY <1>0, <1>1 DEF GatewayTypes
<1>6. GatewayTypes'
  <2>1. counter' \in [CounterKeys -> [n : 0..MaxCount, ttl : BOOLEAN]]
    <3>1. [n |-> 0, ttl |-> FALSE] \in [n : 0..MaxCount, ttl : BOOLEAN]
      BY GatewayAssumption
    <3> QED
      BY <1>0, <1>1, <3>1 DEF GatewayTypes
  <2>2. passed' \in [CounterKeys -> Nat]
    BY <1>0, <1>1 DEF GatewayTypes
  <2>3. \A f \in Exchanges : exchange'[f] \in {Away} \cup Exchange
    BY <1>0, <1>2, <1>3 DEF GatewayTypes
  <2>4. exchange' \in [Exchanges -> {Away} \cup Exchange]
    BY <1>1, <2>3
  <2> QED
    BY <1>0, <1>1, <2>1, <2>2, <2>4 DEF GatewayTypes
<1>7. InsideInv'
  <2>1. \A f \in Exchanges, x \in Apis : f \in Inside(x)' <=> f \in Inside(x)
    BY <1>2, <1>3, <1>4 DEF Inside
  <2> QED
    BY <1>0, <1>1, <2>1, InsideFrame
<1>8. \A f \in Exchanges : At(f, "expire") => exchange[f].key # c /\ exchange'[f] = exchange[f]
  BY <1>0, <1>1, <1>2 DEF NumbersInv, At
<1>9. \A f \in Exchanges, k \in CounterKeys :
        Pending(f, k)' => k # c /\ Pending(f, k) /\ exchange'[f] = exchange[f]
  <2> SUFFICES ASSUME NEW f \in Exchanges, NEW k \in CounterKeys, Pending(f, k)'
               PROVE  k # c /\ Pending(f, k) /\ exchange'[f] = exchange[f]
    OBVIOUS
  <2>1. At(f, "expire") \/ At(f, "decide")
    BY <1>4 DEF Pending
  <2>2. ~(At(f, "decide") /\ exchange[f].key = c)
    BY <1>3 DEF Pending
  <2>3. exchange'[f] = exchange[f]
    BY <1>2, <2>2
  <2> QED
    BY <1>8, <2>1, <2>2, <2>3 DEF Pending
<1>10. NumbersInv'
  <2>1. \A f \in Exchanges, k \in CounterKeys : Pending(f, k)' => exchange'[f].n \in 1..counter'[k].n
    BY <1>0, <1>5, <1>9 DEF NumbersInv
  <2>2. \A f, g \in Exchanges, k \in CounterKeys :
          Pending(f, k)' /\ Pending(g, k)' /\ exchange'[f].n = exchange'[g].n => f = g
    BY <1>0, <1>9 DEF NumbersInv
  <2>3. \A f \in Exchanges : At(f, "incr")' => ~exchange'[f].old
    <3>1. \A f \in Exchanges : At(f, "incr") => exchange'[f] = exchange[f]
      BY <1>2 DEF At
    <3> QED
      BY <1>0, <1>4, <3>1 DEF NumbersInv
  <2>4. \A f \in Exchanges : At(f, "expire") => exchange[f].key \in CounterKeys
    BY <1>0 DEF GatewayTypes, At, Exchange
  <2>5. \A f \in Exchanges : At(f, "expire")' =>
          ~exchange'[f].old /\ exchange'[f].n = 1 /\ ~counter'[exchange'[f].key].ttl
    BY <1>0, <1>4, <1>5, <1>8, <2>4 DEF NumbersInv
  <2>6. \A k \in CounterKeys : counter'[k].n = 0 => ~counter'[k].ttl
    BY <1>0, <1>5 DEF NumbersInv
  <2> QED
    BY <2>1, <2>2, <2>3, <2>5, <2>6 DEF NumbersInv
<1>11. SpentInv'
  <2> SUFFICES ASSUME NEW k \in CounterKeys PROVE passed'[k] <= Cardinality(Spent(k)')
    BY DEF SpentInv
  <2>1. CASE k = c
    <3>1. IsFiniteSet(1..Limit) /\ Spent(k)' \subseteq 1..Limit
      BY FS_Interval, GatewayAssumption DEF Spent
    <3>2. Cardinality(Spent(k)') \in Nat
      BY <3>1, FS_Subset, FS_CardinalityType
    <3> QED
      BY <1>5, <2>1, <3>2
  <2>2. CASE k # c
    <3>1. passed'[k] = passed[k] /\ passed[k] <= Cardinality(Spent(k)) /\ counter'[k] = counter[k]
      BY <1>0, <1>5, <2>2 DEF SpentInv
    <3>2. counter[k].n <= counter'[k].n
      BY <1>0, <3>1, GatewayAssumption DEF GatewayTypes
    <3> QED
      BY <1>0, <1>6, <1>9, <3>1, <3>2, SpentFrame
  <2> QED
    BY <2>1, <2>2
<1>12. CountersExpire'
  BY <1>0, <1>1, <1>4, <1>5, <1>8 DEF CountersExpire
<1> QED
  BY <1>6, <1>7, <1>10, <1>11, <1>12 DEF GatewayInv

\* Nothing but the memory of the processes changes.
LEMMA MemoryStep ==
    ASSUME GatewayInv, hits' \in [Apis -> [Addresses -> 0..BanHits]],
           banned' \in [Apis -> SUBSET Addresses],
           UNCHANGED <<counter, exchange, inflight, passed, immortal>>
    PROVE  GatewayInv'
<1>0. GatewayTypes /\ InsideInv /\ NumbersInv /\ SpentInv /\ CountersExpire
  BY DEF GatewayInv
<1>1. GatewayTypes'
  BY <1>0 DEF GatewayTypes
<1>2. \A f \in Exchanges : \A l : At(f, l)' <=> At(f, l)
  BY DEF At
<1>3. \A f \in Exchanges, k \in CounterKeys : Pending(f, k)' <=> Pending(f, k)
  BY <1>2 DEF Pending
<1>4. InsideInv' /\ NumbersInv' /\ CountersExpire'
  BY <1>0, <1>2, <1>3 DEF InsideInv, Inside, NumbersInv, CountersExpire
<1>5. \A k \in CounterKeys : Spent(k)' = Spent(k)
  BY <1>3 DEF Spent
<1> QED
  BY <1>0, <1>1, <1>4, <1>5 DEF GatewayInv, SpentInv

LEMMA ApiDiesStep ==
    ASSUME GatewayInv, NEW p \in Apis, ApiDies(p)
    PROVE  GatewayInv'
<1> DEFINE lost == {e \in Exchanges : exchange[e] # Away /\ exchange[e].api = p}
<1>0. GatewayTypes /\ InsideInv /\ NumbersInv
  BY DEF GatewayInv
<1>1. /\ exchange' = [e \in Exchanges |-> IF e \in lost THEN Away ELSE exchange[e]]
      /\ immortal' = immortal \cup {exchange[e].key : e \in {x \in lost : At(x, "expire")}}
      /\ hits' = [hits EXCEPT ![p] = [a \in Addresses |-> 0]]
      /\ banned' = [banned EXCEPT ![p] = {}]
      /\ inflight' = [inflight EXCEPT ![p] = 0]
      /\ UNCHANGED <<counter, passed>>
  BY DEF ApiDies
<1>2. \A f \in Exchanges : IF f \in lost THEN exchange'[f] = Away ELSE exchange'[f] = exchange[f]
  BY <1>1
<1>3. \A f \in Exchanges : \A l : At(f, l)' <=> At(f, l) /\ exchange[f].api # p
  BY <1>2 DEF At
<1>4. \A f \in Exchanges : \A l : At(f, l)' => exchange'[f] = exchange[f]
  BY <1>2, <1>3 DEF At
<1>5. GatewayTypes'
  <2>1. immortal' \subseteq CounterKeys
    <3>1. \A f \in Exchanges : At(f, "expire") => exchange[f].key \in CounterKeys
      BY <1>0 DEF GatewayTypes, At, Exchange
    <3>2. \A k \in immortal' : k \in immortal \/ \E f \in Exchanges : At(f, "expire") /\ exchange[f].key = k
      BY <1>1
    <3> QED
      BY <1>0, <3>1, <3>2 DEF GatewayTypes
  <2>2. hits' \in [Apis -> [Addresses -> 0..BanHits]]
    <3>1. [a \in Addresses |-> 0] \in [Addresses -> 0..BanHits]
      BY GatewayAssumption
    <3> QED
      BY <1>0, <1>1, <3>1 DEF GatewayTypes
  <2>3. exchange' \in [Exchanges -> {Away} \cup Exchange]
    BY <1>0, <1>1 DEF GatewayTypes
  <2>4. banned' \in [Apis -> SUBSET Addresses]
    BY <1>0, <1>1 DEF GatewayTypes
  <2> QED
    BY <1>0, <1>1, <2>1, <2>2, <2>3, <2>4 DEF GatewayTypes
<1>6. InsideInv'
  <2>1. \A x \in Apis : Inside(x)' = IF x = p THEN {} ELSE Inside(x)
    BY <1>3, <1>4 DEF Inside
  <2>2. inflight' \in [Apis -> Nat] /\ inflight'[p] = 0
        /\ \A x \in Apis : x # p => inflight'[x] = inflight[x]
    BY <1>0, <1>1 DEF InsideInv
  <2> QED
    BY <1>0, <2>1, <2>2, FS_EmptySet DEF InsideInv
<1>7. NumbersInv' /\ SpentInv' /\ CountersExpire'
  <2>1. \A f \in Exchanges, k \in CounterKeys :
          Pending(f, k)' => Pending(f, k) /\ exchange'[f].n = exchange[f].n
    BY <1>3, <1>4 DEF Pending
  <2>2. \A f \in Exchanges : At(f, "incr")' => ~exchange'[f].old
    BY <1>0, <1>3, <1>4 DEF NumbersInv
  <2>3. \A f \in Exchanges : At(f, "expire")' => exchange'[f] = exchange[f]
    BY <1>4
  <2>4. ASSUME NEW f \in Exchanges, At(f, "expire")
        PROVE  \/ At(f, "expire")' /\ exchange'[f].key = exchange[f].key
               \/ exchange[f].key \in immortal'
    <3>1. CASE exchange[f].api = p
      BY <1>1, <2>4, <3>1 DEF At
    <3>2. CASE exchange[f].api # p
      BY <1>3, <1>4, <2>4, <3>2
    <3> QED
      BY <3>1, <3>2
  <2>5. immortal \subseteq immortal'
    BY <1>1
  <2> QED
    BY <1>1, <1>5, <2>1, <2>2, <2>3, <2>4, <2>5, QuietStep
<1> QED
  BY <1>5, <1>6, <1>7 DEF GatewayInv

LEMMA GatewayStep == GatewayInv /\ [GatewayNext]_gatewayVars => GatewayInv'
<1> SUFFICES ASSUME GatewayInv, [GatewayNext]_gatewayVars PROVE GatewayInv'
  OBVIOUS
<1>0. GatewayTypes
  BY DEF GatewayInv
<1>1. CASE \E e \in Exchanges : \E p \in Apis, a \in Addresses, b \in Buckets : Arrive(e, p, a, b)
  BY <1>1, ArriveStep
<1>2. CASE \E e \in Exchanges : Increment(e) \/ SetExpiry(e) \/ RedisFails(e) \/ Decide(e) \/ Respond(e)
  BY <1>2, IncrementStep, SetExpiryStep, RedisFailsStep, DecideStep, RespondStep
<1>3. CASE \E k \in CounterKeys : WindowEnds(k)
  BY <1>3, WindowEndsStep
<1>4. CASE \E p \in Apis : ApiDies(p)
  BY <1>4, ApiDiesStep
<1>5. CASE \E p \in Apis, a \in Addresses : HitAges(p, a)
  <2> PICK p \in Apis, a \in Addresses : HitAges(p, a)
    BY <1>5
  <2>1. hits[p] \in [Addresses -> 0..BanHits] /\ hits[p][a] \in 0..BanHits /\ hits[p][a] > 0
    BY <1>0 DEF GatewayTypes, HitAges
  <2>2. hits[p][a] - 1 \in 0..BanHits
    BY <2>1, GatewayAssumption
  <2>3. hits' \in [Apis -> [Addresses -> 0..BanHits]]
    BY <1>0, <2>1, <2>2 DEF GatewayTypes, HitAges
  <2>4. banned' \in [Apis -> SUBSET Addresses]
    BY <1>0 DEF GatewayTypes, HitAges
  <2> QED
    BY <2>3, <2>4, MemoryStep DEF HitAges
<1>6. CASE \E p \in Apis, a \in Addresses : BanEnds(p, a)
  <2> PICK p \in Apis, a \in Addresses : BanEnds(p, a)
    BY <1>6
  <2>1. banned' \in [Apis -> SUBSET Addresses] /\ hits' \in [Apis -> [Addresses -> 0..BanHits]]
    BY <1>0 DEF GatewayTypes, BanEnds
  <2> QED
    BY <2>1, MemoryStep DEF BanEnds
<1>7. CASE UNCHANGED gatewayVars
  BY <1>0, <1>7, MemoryStep DEF gatewayVars, GatewayTypes
<1> QED
  BY <1>1, <1>2, <1>3, <1>4, <1>5, <1>6, <1>7 DEF GatewayNext

LEMMA GatewayInvImplies == GatewayInv => GatewayTypeOK /\ WindowLimitKept /\ CountersExpire
<1> SUFFICES ASSUME GatewayInv PROVE GatewayTypeOK /\ WindowLimitKept
  BY DEF GatewayInv
<1>0. GatewayTypes /\ InsideInv /\ SpentInv
  BY DEF GatewayInv
<1>1. \A k \in CounterKeys : /\ passed[k] \in Nat /\ passed[k] <= Limit /\ passed[k] <= counter[k].n
                             /\ counter[k].n \in 0..MaxCount
  BY <1>0, SpentFinite, GatewayAssumption DEF SpentInv, GatewayTypes
<1>2. passed \in [CounterKeys -> 0..MaxCount]
  <2>1. \A k \in CounterKeys : passed[k] \in 0..MaxCount
    BY <1>1, GatewayAssumption
  <2> QED
    BY <1>0, <2>1 DEF GatewayTypes
<1> QED
  BY <1>0, <1>1, <1>2 DEF GatewayTypeOK, GatewayTypes, InsideInv, Inside, WindowLimitKept

\* A counter lets in no more than its limit and is on its way to an expiry, and a process
\* counts the requests inside it, with any number of processes and requests (rate_limit,
\* request_meta).
THEOREM GatewayKept == GatewaySpec => [](GatewayTypeOK /\ WindowLimitKept /\ CountersExpire)
<1>1. GatewaySpec => []GatewayInv
  BY GatewayInitInv, GatewayStep, PTL DEF GatewaySpec
<1> QED
  BY <1>1, GatewayInvImplies, PTL

-----------------------------------------------------------------------------
(* RuntimeConfig.  The verdict is about the file as it is, and what the       *)
(* settings refuse beyond what the check refuses are the exceptions listed.   *)

EnvFiles ==
    [jwt : SecretKinds, stripe : SecretKinds, webhook : SecretKinds, totp : SecretKinds,
     app : {"production", "staging", "development"},
     public : {"good", "weak", "none"},
     ips : {"good", "placeholder", "bad", "none"},
     url : {"good", "local", "http", "junk", "none"},
     origins : {"good", "star", "local"},
     provider : {"auto", "env", "vault"},
     vault : {"set", "none"}]

\* The verdict is about the file as it is.
ConfigInv ==
    /\ env \in EnvFiles
    /\ ConfigTypeOK
    /\ gate = "accepted" => Accepted(env, target)
    /\ ProductionStaysRestricted

LEMMA FieldsOfKinds ==
    /\ Fields = SecretFields \cup {"app", "public", "ips", "url", "origins", "provider", "vault"}
    /\ Kinds.app = {"production", "staging", "development"}
BY DEF Fields, Kinds, SecretFields

LEMMA EnvKinds == \A e \in EnvFiles : DOMAIN e = Fields /\ \A f \in Fields : e[f] \in Kinds[f]
<1> SUFFICES ASSUME NEW e \in EnvFiles
             PROVE  DOMAIN e = Fields /\ \A f \in Fields : e[f] \in Kinds[f]
  OBVIOUS
<1>1. DOMAIN e = Fields
  BY FieldsOfKinds DEF EnvFiles, SecretFields
<1>2. \A f \in Fields : e[f] \in Kinds[f]
  BY FieldsOfKinds DEF EnvFiles, SecretFields, Kinds
<1> QED
  BY <1>1, <1>2

LEMMA EditedEnv ==
    ASSUME NEW e \in EnvFiles, NEW f \in Fields, NEW k \in Kinds[f]
    PROVE  [e EXCEPT ![f] = k] \in EnvFiles
BY FieldsOfKinds DEF EnvFiles, SecretFields, Kinds

LEMMA ConfigInitInv == ConfigInit => ConfigInv
<1> SUFFICES ASSUME ConfigInit PROVE ConfigInv
  OBVIOUS
<1>1. target \in {"production", "staging", "development"}
  BY RuntimeConfigAssumption DEF ConfigInit
<1>2. env \in EnvFiles
  BY <1>1 DEF ConfigInit, GoodEnv, EnvFiles, SecretKinds
<1>3. ConfigTypeOK
  <2>1. running \in [app : Kinds.app \cup {"none"}, ips : {"good", "none"}]
    BY DEF ConfigInit, Down
  <2>2. edits \in 0..MaxEdits
    BY RuntimeConfigAssumption DEF ConfigInit
  <2> QED
    BY <1>2, <2>1, <2>2, EnvKinds DEF ConfigInit, ConfigTypeOK
<1> QED
  BY <1>2, <1>3 DEF ConfigInv, ConfigInit, ProductionStaysRestricted, Down

\* What SettingsOK requires of a production file.
LEMMA ProductionSettings ==
    \A e, v : SettingsOK(e, v) /\ e.app = "production" => AllowedIps(e) = "good"
BY DEF SettingsOK

LEMMA ConfigStep == ConfigInv /\ [ConfigNext]_configVars => ConfigInv'
<1> SUFFICES ASSUME ConfigInv, [ConfigNext]_configVars PROVE ConfigInv'
  OBVIOUS
<1>0. /\ env \in EnvFiles /\ ConfigTypeOK /\ (gate = "accepted" => Accepted(env, target))
      /\ ProductionStaysRestricted
      /\ running \in [app : {"production", "staging", "development", "none"}, ips : {"good", "none"}]
  BY FieldsOfKinds DEF ConfigInv, ConfigTypeOK
<1>1. ASSUME NEW f \in Fields, NEW k \in Kinds[f], EditEnv(f, k) PROVE ConfigInv'
  <2>1. env' \in EnvFiles
    BY <1>0, <1>1, EditedEnv DEF EditEnv
  <2>2. edits' \in 0..MaxEdits
    BY <1>0, <1>1, RuntimeConfigAssumption DEF EditEnv, ConfigTypeOK
  <2>3. ConfigTypeOK'
    BY <1>0, <1>1, <2>1, <2>2, EnvKinds DEF EditEnv, ConfigTypeOK
  <2> QED
    BY <1>0, <1>1, <2>1, <2>3 DEF EditEnv, ConfigInv, ProductionStaysRestricted
<1>2. CASE Validate
  <2>1. ConfigTypeOK'
    BY <1>0, <1>2 DEF Validate, ConfigTypeOK
  <2>2. gate' = "accepted" => Accepted(env', target')
    BY <1>2 DEF Validate
  <2> QED
    BY <1>0, <1>2, <2>1, <2>2 DEF Validate, ConfigInv, ProductionStaysRestricted, Accepted
<1>3. ASSUME NEW v \in VaultAnswers, NEW head, NEW prices, NEW redis, Boot(v, head, prices, redis)
      PROVE  ConfigInv'
  <2>1. running' = [app |-> env.app, ips |-> AllowedIps(env)] /\ SettingsOK(env, v)
        /\ UNCHANGED <<env, target, gate, retargeted, edits>>
    BY <1>3 DEF Boot, Fresh
  <2>2. AllowedIps(env) \in {"good", "none"} /\ env.app \in {"production", "staging", "development"}
    BY <1>0 DEF AllowedIps, EnvFiles
  <2>3. running' \in [app : Kinds.app \cup {"none"}, ips : {"good", "none"}]
    BY <2>1, <2>2, FieldsOfKinds
  <2>4. ConfigTypeOK'
    BY <1>0, <2>1, <2>3 DEF ConfigTypeOK
  <2>5. ProductionStaysRestricted'
    BY <2>1, ProductionSettings DEF ProductionStaysRestricted
  <2> QED
    BY <1>0, <2>1, <2>4, <2>5 DEF ConfigInv, Accepted
<1>4. ASSUME NEW v \in VaultAnswers, NEW dry \in BOOLEAN, ReloadRuntimeSettings(v, dry)
      PROVE  ConfigInv'
  <2>1. /\ running' = IF dry THEN running ELSE [running EXCEPT !.ips = AllowedIps(env)]
        /\ SettingsOK(env, v) /\ retargeted' = (retargeted \/ (~dry /\ env.app # running.app))
        /\ UNCHANGED <<env, target, gate, edits>>
    BY <1>4 DEF ReloadRuntimeSettings
  <2>2. AllowedIps(env) \in {"good", "none"}
    BY DEF AllowedIps
  <2>3. running' \in [app : Kinds.app \cup {"none"}, ips : {"good", "none"}]
    BY <1>0, <2>1, <2>2, FieldsOfKinds
  <2>4. ConfigTypeOK'
    BY <1>0, <2>1, <2>3 DEF ConfigTypeOK
  <2>5. ProductionStaysRestricted'
    BY <1>0, <2>1, ProductionSettings DEF ProductionStaysRestricted
  <2> QED
    BY <1>0, <2>1, <2>4, <2>5 DEF ConfigInv, Accepted
<1>5. CASE Shutdown
  <2>1. ConfigTypeOK'
    BY <1>0, <1>5 DEF Shutdown, ConfigTypeOK, Down
  <2> QED
    BY <1>0, <1>5, <2>1 DEF Shutdown, ConfigInv, ProductionStaysRestricted, Down, Accepted
<1>6. CASE UNCHANGED configVars
  BY <1>0, <1>6 DEF configVars, ConfigInv, ConfigTypeOK, ProductionStaysRestricted, Accepted
<1> QED
  BY <1>1, <1>2, <1>3, <1>4, <1>5, <1>6 DEF ConfigNext

\* What the check accepts and the settings refuse.
LEMMA AcceptedStarts ==
    ASSUME NEW e \in EnvFiles, NEW t, Accepted(e, t), e.totp # "weak", e.ips # "bad",
           e.provider = "env" => \A f \in SecretFields : e[f] # "ref",
           t = "production" => e.ips # "placeholder" /\ e.url \notin {"http", "none"}
                               /\ e.origins # "star"
    PROVE  SettingsOK(e, "good")
<1>1. ReferencesAccepted(e) /\ e.app = t
  BY DEF Accepted
<1>2. ASSUME NEW f \in SecretFields
      PROVE  Resolved(e, f, "good") = IF e[f] = "ref" THEN "good" ELSE e[f]
  BY <1>1 DEF ReferencesAccepted, Resolved, Referenced, EnvFiles
<1> DEFINE secret == [f \in SecretFields |-> Resolved(e, f, "good")]
<1>3. \A f \in SecretFields : secret[f] = IF e[f] = "ref" THEN "good" ELSE e[f]
  BY <1>2
<1>4. /\ secret.jwt = IF e.jwt = "ref" THEN "good" ELSE e.jwt
      /\ secret.stripe = IF e.stripe = "ref" THEN "good" ELSE e.stripe
      /\ secret.webhook = IF e.webhook = "ref" THEN "good" ELSE e.webhook
      /\ secret.totp = IF e.totp = "ref" THEN "good" ELSE e.totp
  BY <1>3 DEF SecretFields
<1> HIDE DEF secret
<1>5. \A f \in SecretFields : secret[f] # "raises"
  BY <1>3 DEF EnvFiles, SecretFields, SecretKinds
<1>6. secret.jwt = "good" /\ secret.totp # "weak" /\ e.url # "junk" /\ e.ips # "bad"
  BY <1>4 DEF Accepted
<1>7. ASSUME e.app = "production"
      PROVE  /\ secret.stripe = "good" /\ secret.webhook = "good" /\ secret.totp = "good"
             /\ AllowedIps(e) = "good" /\ e.origins = "good" /\ e.url = "good"
  <2>1. t = "production"
    BY <1>1, <1>7
  <2>2. e.stripe \in {"good", "ref"} /\ e.webhook \in {"good", "ref"} /\ e.totp \in {"good", "ref"}
    BY <2>1 DEF Accepted
  <2>3. e.ips = "good" /\ e.origins = "good" /\ e.url = "good"
    BY <2>1 DEF Accepted, EnvFiles
  <2> QED
    BY <1>4, <2>2, <2>3 DEF AllowedIps
<1>8. /\ \A f \in SecretFields : secret[f] # "raises"
      /\ secret.jwt \in {"good", "placeholder"}
      /\ secret.totp # "weak" /\ e.url # "junk" /\ e.ips # "bad"
      /\ e.app = "production" =>
          /\ secret.jwt = "good" /\ secret.stripe = "good" /\ secret.webhook = "good"
          /\ secret.totp = "good" /\ AllowedIps(e) = "good"
          /\ e.origins = "good" /\ e.url = "good"
  BY <1>5, <1>6, <1>7
<1> QED
  BY <1>8 DEF SettingsOK, secret

LEMMA ConfigInvImplies == ConfigInv => ConfigTypeOK /\ AcceptedEnvBoots /\ ProductionStaysRestricted
<1> SUFFICES ASSUME ConfigInv, gate = "accepted",
                    env.totp # "weak", env.ips # "bad",
                    ~(env.provider = "env" /\ \E f \in SecretFields : env[f] = "ref"),
                    ~(target = "production" /\ (\/ env.ips = "placeholder"
                                                \/ env.url \in {"http", "none"}
                                                \/ env.origins = "star"))
             PROVE  SettingsOK(env, "good")
  BY DEF ConfigInv, AcceptedEnvBoots
<1>1. env \in EnvFiles /\ Accepted(env, target)
  BY DEF ConfigInv
<1> QED
  BY <1>1, AcceptedStarts

\* What the deploy-time check accepts starts, but for what only the API looks at, and a
\* production process stays restricted through its reloads, however many edits a file takes
\* (validate_runtime_env, Settings, reload_runtime_settings).
THEOREM ConfigurationKept == ConfigSpec => [](ConfigTypeOK /\ AcceptedEnvBoots /\ ProductionStaysRestricted)
<1>1. ConfigSpec => []ConfigInv
  BY ConfigInitInv, ConfigStep, PTL DEF ConfigSpec
<1> QED
  BY <1>1, ConfigInvImplies, PTL

-----------------------------------------------------------------------------
(* Deployment.  The checkout is what runs, between jobs, and the job's commit *)
(* in one, unless the environment has strayed; a revision the bootstrap       *)
(* stamps comes before the heads of every commit.                            *)

Running == {"validate", "bootstrap", "stamp", "upgrade", "up", "probe", "rollback"}
Ended == {"succeeded", "failed", "restored", "unhealthy"}
DeployJob ==
    [at : Running \cup Ended,
     prev : Commits, commit : Commits, was : [commit : Commits, up : BOOLEAN]]

\* The checkout is at the job's commit and, between jobs, at the one that runs; the job's
\* previous commit is the one that ran before it.
JobInv ==
    /\ job.at \in {"none", "succeeded", "failed"} => checkout = api.commit \/ strayed
    /\ job.at \in Running => checkout = job.commit /\ (job.prev = job.was.commit \/ strayed)
    /\ job.at \in {"probe", "rollback"} => api.commit = job.commit
    /\ job.at = "restored" => api.commit = job.was.commit \/ strayed

DeployInv == DeployTypeOK /\ JobInv /\ DeployKept

-----------------------------------------------------------------------------
LEMMA ChainTransitive ==
    /\ \A r \in Revisions : r \in Chain[r] /\ Chain[r] \subseteq Revisions
    /\ \A r \in Revisions : \A x \in Chain[r] : Chain[x] \subseteq Chain[r]
<1>1. \A r \in Revisions : Chain[r] = {x \in Revisions : \A S \in SUBSET Revisions :
                                (r \in S /\ \A y \in S : Parent[y] \in S \cup {NoRevision}) => x \in S}
  BY DEF Chain
<1> HIDE DEF Chain
<1> QED
  BY <1>1

LEMMA HeadChain ==
    /\ {HEAD_REVISION, TOTP_REVISION, INITIAL_SCHEMA_REVISION} \subseteq Revisions
    /\ {HEAD_REVISION, TOTP_REVISION, INITIAL_SCHEMA_REVISION} \subseteq Chain[HEAD_REVISION]
<1>1. HEAD_REVISION \in Revisions /\ TOTP_REVISION \in Revisions /\ INITIAL_SCHEMA_REVISION \in Revisions
  BY DEF Revisions
<1>2. Parent[HEAD_REVISION] = TOTP_REVISION /\ Parent[TOTP_REVISION] = INITIAL_SCHEMA_REVISION
  BY <1>1 DEF Parent, HEAD_REVISION, TOTP_REVISION, INITIAL_SCHEMA_REVISION
<1>3. TOTP_REVISION # NoRevision /\ INITIAL_SCHEMA_REVISION # NoRevision
  BY DEF NoRevision, TOTP_REVISION, INITIAL_SCHEMA_REVISION
<1>4. Chain[HEAD_REVISION] = {x \in Revisions : \A S \in SUBSET Revisions :
          (HEAD_REVISION \in S /\ \A y \in S : Parent[y] \in S \cup {NoRevision}) => x \in S}
  BY <1>1 DEF Chain
<1>5. ASSUME NEW S \in SUBSET Revisions, HEAD_REVISION \in S,
             \A y \in S : Parent[y] \in S \cup {NoRevision}
      PROVE  TOTP_REVISION \in S /\ INITIAL_SCHEMA_REVISION \in S
  <2>1. TOTP_REVISION \in S
    BY <1>2, <1>3, <1>5
  <2>2. INITIAL_SCHEMA_REVISION \in S
    BY <1>2, <1>3, <1>5, <2>1
  <2> QED
    BY <2>1, <2>2
<1> QED
  BY <1>1, <1>4, <1>5

LEMMA ResolvedForms ==
    \A o : ResolveLegacyRevision(o)
              \in {NoRevision, HEAD_REVISION, TOTP_REVISION, INITIAL_SCHEMA_REVISION}
BY DEF ResolveLegacyRevision

\* The columns the script adds to a users table are among those of the bootstrap's head:
\* whatever database it then looks at, it reads that head off it.
THEOREM ReconciledReadsAsHead ==
    \A o : "users" \in o => ResolveLegacyRevision(ReconcileUserColumns(o)) = HEAD_REVISION
<1> SUFFICES ASSUME NEW o, "users" \in o
             PROVE  ResolveLegacyRevision(ReconcileUserColumns(o)) = HEAD_REVISION
  OBVIOUS
<1>1. ReconcileUserColumns(o) = o \cup UserColumnDdl
  BY DEF ReconcileUserColumns
<1>2. "users.email_verified" \in UserColumnDdl /\ "users.email_verified" \in UserModules
  BY DEF UserColumnDdl, UserModules, HeadOnlyColumns
<1>3. UserModules \cap (o \cup UserColumnDdl) # {} /\ "users" \in o \cup UserColumnDdl
  BY <1>2
<1> QED
  BY <1>1, <1>3 DEF ResolveLegacyRevision

LEMMA SchemaObjects ==
    ASSUME NEW v \in SUBSET Revisions
    PROVE  /\ History(v) \subseteq Revisions /\ Schema(v) \subseteq Objects
           /\ v \subseteq History(v)
<1>1. History(v) \subseteq Revisions /\ v \subseteq History(v)
  BY ChainTransitive DEF History
<1> QED
  BY <1>1 DEF Schema, Objects

LEMMA DdlObjects == UserColumnDdl \subseteq Objects
<1>1. /\ Creates[INITIAL_SCHEMA_REVISION] = InitialSchema
      /\ Creates[TOTP_REVISION] = TotpColumns
      /\ Creates[HEAD_REVISION] = UserModules
  BY HeadChain DEF Creates, INITIAL_SCHEMA_REVISION, TOTP_REVISION, HEAD_REVISION,
                   WORKSPACE_REVISION, BRANDING_REVISION
<1>2. InitialSchema \cup TotpColumns \cup UserModules \subseteq Objects
  BY <1>1, HeadChain DEF Objects
<1> QED
  BY <1>2 DEF UserColumnDdl, InitialSchema, UserModules

LEMMA HeadsTyped == \A c \in Commits : /\ HeadsOf[c] \in SUBSET Revisions
                                       /\ HEAD_REVISION \in History(HeadsOf[c])
BY DeploymentAssumption

-----------------------------------------------------------------------------
LEMMA DeployInitInv == DeployInit => DeployInv
<1> SUFFICES ASSUME DeployInit PROVE DeployInv
  OBVIOUS
<1> PICK v \in {{}} \cup {{r} : r \in KnownRevisions} : objects = Schema(v) /\ version \in {{}, v}
  BY DEF DeployInit
<1>1. v \in SUBSET Revisions /\ version \in SUBSET Revisions
  BY ChainTransitive, HeadChain DEF KnownRevisions
<1>2. 1 \in Commits
  BY DeploymentAssumption DEF Commits
<1>3. DeployTypeOK
  BY <1>1, <1>2, SchemaObjects DEF DeployInit, DeployTypeOK
<1>4. JobInv
  BY DEF DeployInit, JobInv, NoJob, Running
<1>5. Schema(version) \subseteq objects
  BY DEF Schema, History
<1>6. api.up => Starts(api.commit)
  BY DEF DeployInit, Starts
<1> QED
  BY <1>3, <1>4, <1>5, <1>6 DEF DeployInv, DeployKept, DeployInit, NoJob

\* A step of the job that is on its way.
LEMMA JobMoves ==
    ASSUME DeployTypeOK, job.at # "none", NEW l \in Running \cup Ended, job' = [job EXCEPT !.at = l]
    PROVE  /\ job' \in DeployJob /\ job'.at = l /\ job'.prev = job.prev /\ job'.commit = job.commit
           /\ job'.was = job.was /\ job \in DeployJob
<1>1. job \in DeployJob
  BY DEF DeployTypeOK, NoJob, DeployJob, Running, Ended
<1> QED
  BY <1>1 DEF DeployJob

LEMMA JobTyped ==
    DeployTypeOK <=>
        /\ version \subseteq Revisions /\ objects \subseteq Objects
        /\ checkout \in Commits /\ tip \in Commits
        /\ api \in [commit : Commits, up : BOOLEAN]
        /\ job \in {NoJob} \cup DeployJob
        /\ strayed \in BOOLEAN /\ stampedBack \in BOOLEAN /\ skipped \in BOOLEAN
<1>1. Running \cup Ended = {"validate", "bootstrap", "stamp", "upgrade", "up", "probe", "rollback",
                            "succeeded", "failed", "restored", "unhealthy"}
  BY DEF Running, Ended
<1> QED
  BY <1>1 DEF DeployTypeOK, DeployJob

LEMMA StartStep == DeployInv /\ Start => DeployInv'
<1> SUFFICES ASSUME DeployInv, Start PROVE DeployInv'
  OBVIOUS
<1>0. DeployTypeOK /\ JobInv /\ DeployKept
  BY DEF DeployInv
<1> PICK l \in Running : l = "validate"
  BY DEF Running
<1>1. /\ job.at \in {"none", "succeeded", "failed", "restored", "unhealthy"}
      /\ job' = [at |-> l, prev |-> checkout, commit |-> tip, was |-> api]
      /\ checkout' = tip /\ strayed' = (strayed \/ job.at \in {"restored", "unhealthy"})
      /\ UNCHANGED <<version, objects, tip, api, stampedBack, skipped>>
  BY DEF Start
<1>2. job' \in DeployJob
  BY <1>0, <1>1 DEF DeployTypeOK, DeployJob
<1>3. DeployTypeOK'
  BY <1>0, <1>1, <1>2, JobTyped DEF DeployTypeOK, DeployJob, Running, Ended
<1>4. JobInv'
  BY <1>0, <1>1 DEF JobInv, Running
<1>5. DeployKept'
  BY <1>0, <1>1 DEF DeployKept, Starts
<1> QED
  BY <1>3, <1>4, <1>5 DEF DeployInv

\* The steps of the job that leave the database and the containers alone.
LEMMA AdvanceStep ==
    ASSUME DeployInv, NEW l \in Running \cup Ended, job.at \in Running, job' = [job EXCEPT !.at = l],
           \/ l \in Running \ {"probe", "rollback"} /\ job.at # "up"
           \/ l = "rollback" /\ job.at = "probe"
           \/ l \in {"succeeded", "failed"} /\ (job.at \in {"probe", "rollback"} \/ strayed'),
           strayed => strayed', strayed' \in BOOLEAN,
           UNCHANGED <<version, objects, checkout, tip, api, stampedBack, skipped>>
    PROVE  DeployInv'
<1>0. DeployTypeOK /\ JobInv /\ DeployKept
  BY DEF DeployInv
<1>1. job.at # "none"
  BY DEF Running
<1>2. /\ job' \in DeployJob /\ job'.at = l /\ job'.prev = job.prev /\ job'.commit = job.commit
      /\ job'.was = job.was /\ job \in DeployJob
  BY <1>0, <1>1, JobMoves
<1>3. DeployTypeOK'
  BY <1>0, <1>2 DEF DeployTypeOK, DeployJob, Running, Ended
<1>4. JobInv'
  BY <1>0, <1>2 DEF JobInv, Running
<1>5. DeployKept'
  BY <1>0, <1>2 DEF DeployKept, Starts, Running
<1> QED
  BY <1>3, <1>4, <1>5 DEF DeployInv

LEMMA ReconcileStep == DeployInv /\ Reconcile => DeployInv'
<1> SUFFICES ASSUME DeployInv, Reconcile PROVE DeployInv'
  OBVIOUS
<1>0. DeployTypeOK /\ JobInv /\ DeployKept
  BY DEF DeployInv
<1>1. /\ job.at = "bootstrap" /\ job' = [job EXCEPT !.at = "stamp"]
      /\ objects' = ReconcileUserColumns(objects)
      /\ UNCHANGED <<version, checkout, tip, api, strayed, stampedBack, skipped>>
  BY DEF Reconcile, Advance
<1>2. /\ job' \in DeployJob /\ job'.at = "stamp" /\ job'.prev = job.prev /\ job'.commit = job.commit
      /\ job'.was = job.was
  BY <1>0, <1>1, JobMoves DEF Running
<1>3. objects \subseteq objects' /\ objects' \subseteq Objects
  BY <1>0, <1>1, DdlObjects DEF ReconcileUserColumns, DeployTypeOK
<1>4. DeployTypeOK'
  BY <1>0, <1>1, <1>2, <1>3 DEF DeployTypeOK, DeployJob, Running, Ended
<1>5. JobInv'
  BY <1>0, <1>1, <1>2 DEF JobInv, Running
<1>6. DeployKept'
  BY <1>0, <1>1, <1>2, <1>3 DEF DeployKept, Starts
<1> QED
  BY <1>4, <1>5, <1>6 DEF DeployInv

\* What the bootstrap stamps comes before every commit's heads, or is the recorded one: an
\* API that would have started on the recorded revisions no longer does.
LEMMA StampStep == DeployInv /\ Stamp => DeployInv'
<1> SUFFICES ASSUME DeployInv, Stamp PROVE DeployInv'
  OBVIOUS
<1>0. DeployTypeOK /\ JobInv /\ DeployKept
  BY DEF DeployInv
<1> PICK stamp : stamp = SelectRevisionToStamp(version, ResolveLegacyRevision(objects))
  OBVIOUS
<1>1. /\ job.at = "stamp" /\ job' = [job EXCEPT !.at = "upgrade"]
      /\ version' = IF stamp = NoRevision THEN version ELSE {stamp}
      /\ stampedBack' = (stampedBack \/ (stamp # NoRevision /\ \E r \in version : stamp \in Chain[r]))
      /\ skipped' = (skipped \/ (stamp # NoRevision /\ ~(Schema({stamp}) \subseteq objects)))
      /\ UNCHANGED <<objects, checkout, tip, api, strayed>>
  BY DEF Stamp, Advance
<1>2. /\ job' \in DeployJob /\ job'.at = "upgrade" /\ job'.prev = job.prev /\ job'.commit = job.commit
      /\ job'.was = job.was
  BY <1>0, <1>1, JobMoves DEF Running
<1>3. stamp \in {NoRevision, HEAD_REVISION, TOTP_REVISION, INITIAL_SCHEMA_REVISION}
  BY ResolvedForms DEF SelectRevisionToStamp
<1>4. stamp # NoRevision => stamp \in Revisions /\ stamp \in Chain[HEAD_REVISION]
  BY <1>3, HeadChain
<1>5. DeployTypeOK'
  BY <1>0, <1>1, <1>2, <1>4 DEF DeployTypeOK, DeployJob, Running, Ended
<1>6. JobInv'
  BY <1>0, <1>1, <1>2 DEF JobInv, Running
<1>7. Schema(version') \subseteq objects' \/ skipped'
  BY <1>0, <1>1 DEF DeployKept
<1>8. ASSUME api.up, ~strayed, ~stampedBack' PROVE version' = HeadsOf[api.commit]
  <2>1. version = HeadsOf[api.commit]
    BY <1>0, <1>1, <1>8 DEF DeployKept, Starts
  <2>2. api.commit \in Commits
    BY <1>0 DEF DeployTypeOK
  <2>3. PICK r \in version : HEAD_REVISION \in Chain[r]
    BY <2>1, <2>2, HeadsTyped DEF History
  <2>4. Chain[HEAD_REVISION] \subseteq Chain[r]
    BY <1>0, <2>3, ChainTransitive DEF DeployTypeOK
  <2>5. stamp = NoRevision
    BY <1>1, <1>4, <1>8, <2>3, <2>4
  <2> QED
    BY <1>1, <2>1, <2>5
<1>9. DeployKept'
  BY <1>1, <1>2, <1>7, <1>8 DEF DeployKept, Starts
<1> QED
  BY <1>5, <1>6, <1>9 DEF DeployInv

LEMMA UpgradeStep == DeployInv /\ Upgrade => DeployInv'
<1> SUFFICES ASSUME DeployInv, Upgrade PROVE DeployInv'
  OBVIOUS
<1>0. DeployTypeOK /\ JobInv /\ DeployKept
  BY DEF DeployInv
<1> PICK added : added = UNION {Creates[r] : r \in MissingRevisions}
  OBVIOUS
<1>1. /\ job.at = "upgrade" /\ job' = [job EXCEPT !.at = "up"]
      /\ objects' = objects \cup added /\ version' = HeadsOf[job.commit]
      /\ UNCHANGED <<checkout, tip, api, strayed, stampedBack, skipped>>
  BY DEF Upgrade, Advance
<1>2. /\ job' \in DeployJob /\ job'.at = "up" /\ job'.prev = job.prev /\ job'.commit = job.commit
      /\ job'.was = job.was /\ job.commit \in Commits
  BY <1>0, <1>1, JobMoves DEF Running, DeployJob
<1>3. version' \in SUBSET Revisions
  BY <1>1, <1>2, HeadsTyped
<1>4. added \subseteq Objects
  <2>1. MissingRevisions \subseteq Revisions
    BY <1>1, <1>3, SchemaObjects DEF MissingRevisions
  <2> QED
    BY <2>1 DEF Objects
<1>5. DeployTypeOK'
  BY <1>0, <1>1, <1>2, <1>3, <1>4 DEF DeployTypeOK, DeployJob, Running, Ended
<1>6. JobInv'
  BY <1>0, <1>1, <1>2 DEF JobInv, Running
<1>7. Schema(version') \subseteq objects' \/ skipped'
  <2> SUFFICES ASSUME Schema(version) \subseteq objects, NEW x \in Schema(version') PROVE x \in objects'
    BY <1>0, <1>1 DEF DeployKept
  <2>1. PICK r \in History(version') : x \in Creates[r]
    BY DEF Schema
  <2>2. CASE r \in History(version)
    BY <1>1, <2>1, <2>2 DEF Schema
  <2>3. CASE r \notin History(version)
    <3>1. r \in MissingRevisions
      BY <1>1, <2>1, <2>3 DEF MissingRevisions
    <3> QED
      BY <1>1, <2>1, <3>1
  <2> QED
    BY <2>2, <2>3
<1>8. DeployKept'
  BY <1>2, <1>7 DEF DeployKept
<1> QED
  BY <1>5, <1>6, <1>8 DEF DeployInv

LEMMA ContainersStep ==
    ASSUME DeployInv, ComposeUp \/ Rollback \/ ApiRestarts
    PROVE  DeployInv'
<1>0. DeployTypeOK /\ JobInv /\ DeployKept
  BY DEF DeployInv
<1>1. UNCHANGED <<version, objects, checkout, tip, strayed, stampedBack, skipped>>
  BY DEF ComposeUp, Rollback, ApiRestarts
<1>2. \A c : Starts(c) \in BOOLEAN /\ (Starts(c)' <=> Starts(c))
  BY <1>1 DEF Starts
<1>3. CASE ComposeUp
  <2>1. job.at = "up" /\ job' = [job EXCEPT !.at = "probe"]
        /\ api' = [commit |-> job.commit, up |-> Starts(job.commit)]
    BY <1>3 DEF ComposeUp, Advance
  <2>2. /\ job' \in DeployJob /\ job'.at = "probe" /\ job'.prev = job.prev /\ job'.commit = job.commit
        /\ job'.was = job.was /\ job.commit \in Commits
    BY <1>0, <2>1, JobMoves DEF Running, DeployJob
  <2>3. DeployTypeOK'
    BY <1>0, <1>1, <1>2, <2>1, <2>2 DEF DeployTypeOK, DeployJob, Running, Ended
  <2>4. JobInv'
    BY <1>0, <1>1, <2>1, <2>2 DEF JobInv, Running
  <2>5. DeployKept'
    BY <1>0, <1>1, <1>2, <2>1, <2>2 DEF DeployKept
  <2> QED
    BY <2>3, <2>4, <2>5 DEF DeployInv
<1>4. CASE Rollback
  <2> PICK l \in {"restored", "unhealthy"} : job' = [job EXCEPT !.at = l]
    BY <1>4 DEF Rollback
  <2>1. job.at = "rollback" /\ api' = [commit |-> job.prev, up |-> Starts(job.prev)]
    BY <1>4 DEF Rollback
  <2>2. /\ job' \in DeployJob /\ job'.at = l /\ job'.prev = job.prev /\ job'.commit = job.commit
        /\ job'.was = job.was /\ job.prev \in Commits
    BY <1>0, <2>1, JobMoves DEF Ended, DeployJob
  <2>3. DeployTypeOK'
    BY <1>0, <1>1, <1>2, <2>1, <2>2 DEF DeployTypeOK, DeployJob, Running, Ended
  <2>4. JobInv'
    BY <1>0, <1>1, <2>1, <2>2 DEF JobInv, Running
  <2>5. DeployKept'
    BY <1>0, <1>1, <1>2, <2>1, <2>2, <2>4 DEF DeployKept, JobInv
  <2> QED
    BY <2>3, <2>4, <2>5 DEF DeployInv
<1>5. CASE ApiRestarts
  <2>1. api' = [api EXCEPT !.up = Starts(api.commit)] /\ job' = job
    BY <1>5 DEF ApiRestarts
  <2>2. api \in [commit : Commits, up : BOOLEAN]
    BY <1>0 DEF DeployTypeOK
  <2>3. api'.commit = api.commit /\ api'.up = Starts(api.commit)
        /\ api' \in [commit : Commits, up : BOOLEAN]
    BY <1>2, <2>1, <2>2
  <2>4. DeployTypeOK'
    BY <1>0, <1>1, <2>1, <2>3 DEF DeployTypeOK
  <2>5. JobInv'
    BY <1>0, <1>1, <2>1, <2>3 DEF JobInv
  <2>6. DeployKept'
    BY <1>0, <1>1, <1>2, <2>1, <2>3 DEF DeployKept
  <2> QED
    BY <2>4, <2>5, <2>6 DEF DeployInv
<1> QED
  BY <1>3, <1>4, <1>5

LEMMA DeployStep == DeployInv /\ [DeployNext]_deployVars => DeployInv'
<1> SUFFICES ASSUME DeployInv, [DeployNext]_deployVars PROVE DeployInv'
  OBVIOUS
<1>0. DeployTypeOK /\ JobInv /\ DeployKept
  BY DEF DeployInv
<1>1. CASE Push
  <2>1. tip' \in Commits
    BY <1>0, <1>1, DeploymentAssumption DEF Push, DeployTypeOK, Commits
  <2> QED
    BY <1>0, <1>1, <2>1 DEF Push, DeployInv, DeployTypeOK, JobInv, DeployKept, Starts
<1>2. CASE Start
  BY <1>2, StartStep
<1>3. CASE EnvAccepted
  <2>1. job.at = "validate" /\ job' = [job EXCEPT !.at = "bootstrap"]
        /\ UNCHANGED <<version, objects, checkout, tip, api, strayed, stampedBack, skipped>>
    BY <1>3 DEF EnvAccepted, Advance
  <2> QED
    BY <1>0, <2>1, AdvanceStep DEF Running, DeployTypeOK
<1>4. CASE Succeed
  <2>1. job.at = "probe" /\ job' = [job EXCEPT !.at = "succeeded"]
        /\ UNCHANGED <<version, objects, checkout, tip, api, strayed, stampedBack, skipped>>
    BY <1>4 DEF Succeed, Advance
  <2> QED
    BY <1>0, <2>1, AdvanceStep DEF Running, Ended, DeployTypeOK
<1>5. CASE Exit
  <2>1. /\ job.at \in Running /\ job' = [job EXCEPT !.at = "failed"]
        /\ strayed' = (strayed \/ job.at \in {"validate", "bootstrap", "stamp", "upgrade", "up"})
        /\ UNCHANGED <<version, objects, checkout, tip, api, stampedBack, skipped>>
    BY <1>5 DEF Exit, Running
  <2>2. job.at \in {"probe", "rollback"} \/ strayed'
    BY <2>1 DEF Running
  <2>3. strayed' \in BOOLEAN /\ (strayed => strayed') /\ "failed" \in Running \cup Ended
    BY <2>1 DEF Ended
  <2> QED
    BY <2>1, <2>2, <2>3, AdvanceStep
<1>6. CASE TrapError
  <2> PICK l \in {"rollback", "failed"} : job' = [job EXCEPT !.at = l]
    BY <1>6 DEF TrapError
  <2>1. job.at = "probe"
        /\ UNCHANGED <<version, objects, checkout, tip, api, strayed, stampedBack, skipped>>
    BY <1>6 DEF TrapError
  <2> QED
    BY <1>0, <2>1, AdvanceStep DEF Running, Ended, DeployTypeOK
<1>7. CASE UNCHANGED deployVars
  BY <1>0, <1>7 DEF deployVars, DeployInv, DeployTypeOK, JobInv, DeployKept, Starts
<1> QED
  BY <1>1, <1>2, <1>3, <1>4, <1>5, <1>6, <1>7, ReconcileStep, StampStep, UpgradeStep, ContainersStep
  DEF DeployNext

\* The database claims no revision whose tables it lacks, a restored commit is the one that
\* ran, and the API survives a restart, but for the histories that say otherwise, for a branch
\* of any commits that hold the bootstrap's head (deploy.yml, ensure_alembic_state.py).
THEOREM DeploymentKept == DeploySpec => [](DeployTypeOK /\ DeployKept)
<1>1. DeploySpec => []DeployInv
  BY DeployInitInv, DeployStep, PTL DEF DeploySpec
<1> QED
  BY <1>1, PTL DEF DeployInv

-----------------------------------------------------------------------------
(* The instance.                                                             *)

\* A behaviour of the instance is one of every module: MCNext takes the steps of one of
\* them and leaves the variables of the others alone.
LEMMA InstanceRefines ==
    MCSpec => AccountsSpec /\ RowsSpec /\ CheckoutSpec /\ GatewaySpec /\ ConfigSpec /\ DeploySpec
<1>1. MCInit => /\ AccountsInit /\ RowsInit /\ CheckoutInit /\ GatewayInit /\ ConfigInit /\ DeployInit
  BY DEF MCInit
<1>2. [MCNext]_MCVars => [AccountsNext]_accountVars
  <2>1. ASSUME NEW r \in Requests, AccountGroup(r) PROVE AccountsNext
    BY <2>1 DEF AccountGroup, AccountsNext
  <2> QED
    BY <2>1 DEF MCNext, MCVars, AccountsNext
<1>3. [MCNext]_MCVars => [RowsNext]_rowVars
  BY DEF MCNext, MCVars
<1>4. [MCNext]_MCVars => [CheckoutNext]_checkoutVars
  BY DEF MCNext, MCVars
<1>5. [MCNext]_MCVars => [GatewayNext]_gatewayVars
  BY DEF MCNext, MCVars
<1>6. [MCNext]_MCVars => [ConfigNext]_configVars
  BY DEF MCNext, MCVars
<1>7. [MCNext]_MCVars => [DeployNext]_deployVars
  BY DEF MCNext, MCVars
<1> QED
  BY <1>1, <1>2, <1>3, <1>4, <1>5, <1>6, <1>7, PTL
  DEF MCSpec, AccountsSpec, RowsSpec, CheckoutSpec, GatewaySpec, ConfigSpec, DeploySpec

\* The password that works is the one chosen last, and a reset link sets one password.
THEOREM InstancePasswordsKept == MCSpec => []PasswordsKept
BY InstanceRefines, PasswordStands, PTL DEF PasswordsKept

\* Seats, rows that must be unique and request counters keep their limits, and counters
\* expire.
THEOREM InstanceLimitsKept == MCSpec => []LimitsKept
BY InstanceRefines, RowsKept, GatewayKept, PTL DEF LimitsKept

\* Who pays for a module is known as the user, and the module's one row mirrors the
\* subscription it names: shown only while one is active, to all whose only one is.
THEOREM InstancePaidIsKnown == MCSpec => []PaidIsKnown
BY InstanceRefines, CheckoutKept, PTL DEF PaidIsKnown

\* What the deploy-time check accepts starts, and what runs in production stays restricted.
THEOREM InstanceConfigKept == MCSpec => []ConfigKept
BY InstanceRefines, ConfigurationKept, PTL DEF ConfigKept

\* Every module's variables stay in their types.
THEOREM InstanceTypeCorrect == MCSpec => []PlatformTypeOK
BY InstanceRefines, AccountsTypeCorrect, RowsKept, CheckoutKept, GatewayKept, ConfigurationKept, DeploymentKept, PTL
DEF PlatformTypeOK
=============================================================================
