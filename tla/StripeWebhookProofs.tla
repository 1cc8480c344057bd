------------------------ MODULE StripeWebhookProofs ------------------------
(***************************************************************************)
(* Proofs about StripeWebhook for any number of events, checkout sessions,   *)
(* deliveries and administrators.  PhaseInv says what a request has done     *)
(* when it stands where it stands, StoredInv what the row of its event says  *)
(* meanwhile, AloneInv that a delivery at work has its event to itself.  The  *)
(* second half is about sums: what the fold of CreditedOnce makes of one      *)
(* element more.                                                             *)
(***************************************************************************)
EXTENDS StripeWebhook, FiniteSetTheorems, WellFoundedInduction, TLAPS

\* A request has an event; it credits before it audits and audits before it finishes.
PhaseOf(r) ==
    /\ pc[r] # "idle" => event[r] \in Event
    /\ r \in Delivery => pc[r] # "restart"
    /\ r \in Admin => pc[r] # "claim"
    /\ pc[r] \in {"post", "audit"} => Checkout(r) # NoKey
    /\ pc[r] = "audit" => Credited(Checkout(r))
    /\ pc[r] = "finish" /\ Checkout(r) # NoKey =>
         Credited(Checkout(r)) /\ Checkout(r) \in audited

PhaseInv == \A r \in Runner : PhaseOf(r)

\* The row of a replay exists, that of a delivery at work says so, and a delivery that
\* will answer 200 has one.
StoredOf(r) ==
    /\ r \in Admin /\ pc[r] # "idle" => status[event[r]] # "none"
    /\ r \in Delivery /\ Running(r) => status[event[r]] = "processing"
    /\ r \in Delivery /\ pc[r] = "exit" /\ session[r] # "dead" => status[event[r]] # "none"

StoredInv == \A r \in Runner : StoredOf(r)

\* Nobody works on the event of a delivery at work, nor is a replay of it under way.
AloneInv ==
    \A r \in Delivery, q \in Runner :
        Running(r) /\ (Running(q) \/ (q \in Admin /\ pc[q] # "idle")) /\ event[q] = event[r]
            => q = r

IInv == /\ TypeOK /\ PhaseInv /\ StoredInv /\ AloneInv
        /\ ProcessedMeansApplied /\ AckedIsStored
-----------------------------------------------------------------------------
LEMMA InitIInv == Init => IInv
<1> SUFFICES ASSUME Init PROVE IInv
  OBVIOUS
<1>1. TypeOK
  BY WebhookAssumption DEF Init, TypeOK, AccountInit, AccountTypeOK, Status, Phase, Session
<1>2. PhaseInv /\ StoredInv /\ AloneInv
  BY DEF Init, PhaseInv, PhaseOf, StoredInv, StoredOf, AloneInv, Running, Runner
<1>3. ProcessedMeansApplied /\ AckedIsStored
  BY DEF Init, ProcessedMeansApplied, AckedIsStored
<1> QED
  BY <1>1, <1>2, <1>3 DEF IInv
-----------------------------------------------------------------------------
\* An event at work is an event, and its checkout a session or none.
LEMMA EventTypes ==
    ASSUME TypeOK, PhaseInv, NEW r \in Runner, pc[r] # "idle"
    PROVE  /\ event[r] \in Event
           /\ Checkout(r) \in Key \union {NoKey}
           /\ pc[r] = "audit" => Checkout(r) \in Key
  BY WebhookAssumption DEF TypeOK, PhaseInv, PhaseOf, Checkout

\* A delivery starts with an event and nothing else.
LEMMA DeliverStep ==
    ASSUME IInv, NEW r \in Runner, NEW e \in Event, Deliver(r, e)
    PROVE  IInv'
<1>0. /\ TypeOK /\ PhaseInv /\ StoredInv /\ AloneInv
      /\ ProcessedMeansApplied /\ AckedIsStored
  BY DEF IInv
<1>1. TypeOK'
  BY <1>0, WebhookAssumption DEF TypeOK, AccountTypeOK, Status, Phase, Session,
     accountVars, Deliver, Goto, rows, budget
<1>2. PhaseInv'
  BY <1>0, WebhookAssumption DEF TypeOK, PhaseInv, PhaseOf, Checkout, Credited, Runner,
     accountVars, Deliver, Goto, rows, budget
<1>3. StoredInv'
  BY <1>0, WebhookAssumption DEF TypeOK, PhaseInv, PhaseOf, StoredInv, StoredOf,
     AloneInv, Running, Runner, Deliver, Goto, rows, budget
<1>4. AloneInv'
  BY <1>0, WebhookAssumption DEF TypeOK, PhaseInv, PhaseOf, StoredInv, StoredOf,
     AloneInv, Running, Runner, Deliver, Goto, rows, budget
<1>5. ProcessedMeansApplied'
  BY <1>0, WebhookAssumption DEF TypeOK, PhaseInv, PhaseOf, ProcessedMeansApplied,
     Credited, Checkout, accountVars, Deliver, Goto, rows, budget
<1>6. AckedIsStored'
  BY <1>0 DEF TypeOK, PhaseInv, PhaseOf, StoredInv, StoredOf, AckedIsStored, Deliver,
     Goto, rows, budget
<1> QED
  BY <1>1, <1>2, <1>3, <1>4, <1>5, <1>6 DEF IInv

\* A replay starts when the row says the event is over, so no delivery works on it.
LEMMA ReprocessStep ==
    ASSUME IInv, NEW r \in Runner, NEW e \in Event, Reprocess(r, e)
    PROVE  IInv'
<1>0. /\ TypeOK /\ PhaseInv /\ StoredInv /\ AloneInv
      /\ ProcessedMeansApplied /\ AckedIsStored
  BY DEF IInv
<1>1. TypeOK'
  BY <1>0, WebhookAssumption DEF TypeOK, AccountTypeOK, Status, Phase, Session,
     accountVars, Reprocess, Goto, rows, stripe
<1>2. PhaseInv'
  BY <1>0, WebhookAssumption DEF TypeOK, PhaseInv, PhaseOf, Checkout, Credited, Runner,
     accountVars, Reprocess, Goto, rows, stripe
<1>3. StoredInv'
  BY <1>0, WebhookAssumption DEF TypeOK, PhaseInv, PhaseOf, StoredInv, StoredOf,
     AloneInv, Running, Runner, Reprocess, Goto, rows, stripe
<1>4. AloneInv'
  BY <1>0, WebhookAssumption DEF TypeOK, PhaseInv, PhaseOf, StoredInv, StoredOf,
     AloneInv, Running, Runner, Reprocess, Goto, rows, stripe
<1>5. ProcessedMeansApplied'
  BY <1>0, WebhookAssumption DEF TypeOK, PhaseInv, PhaseOf, ProcessedMeansApplied,
     Credited, Checkout, accountVars, Reprocess, Goto, rows, stripe
<1>6. AckedIsStored'
  BY <1>0 DEF TypeOK, PhaseInv, PhaseOf, StoredInv, StoredOf, AckedIsStored, Reprocess,
     Goto, rows, stripe
<1> QED
  BY <1>1, <1>2, <1>3, <1>4, <1>5, <1>6 DEF IInv

\* Whoever inserts the row finds nobody else at the event.
LEMMA ClaimStep ==
    ASSUME IInv, NEW r \in Runner, Claim(r)
    PROVE  IInv'
<1>0. /\ TypeOK /\ PhaseInv /\ StoredInv /\ AloneInv
      /\ ProcessedMeansApplied /\ AckedIsStored
  BY DEF IInv
<1>1. TypeOK'
  BY <1>0, WebhookAssumption DEF TypeOK, AccountTypeOK, Status, Phase, Session,
     accountVars, Claim, Goto, SetStatus, stripe, budget
<1>2. PhaseInv'
  BY <1>0, WebhookAssumption DEF TypeOK, PhaseInv, PhaseOf, Checkout, Credited, Runner,
     accountVars, Claim, Goto, SetStatus, stripe, budget
<1>3. StoredInv'
  BY <1>0, WebhookAssumption DEF TypeOK, PhaseInv, PhaseOf, StoredInv, StoredOf,
     AloneInv, Running, Runner, Claim, Goto, SetStatus, stripe, budget
<1>4. AloneInv'
  BY <1>0, WebhookAssumption DEF TypeOK, PhaseInv, PhaseOf, StoredInv, StoredOf,
     AloneInv, Running, Runner, Claim, Goto, SetStatus, stripe, budget
<1>5. ProcessedMeansApplied'
  BY <1>0, WebhookAssumption DEF TypeOK, PhaseInv, PhaseOf, ProcessedMeansApplied,
     Credited, Checkout, accountVars, Claim, Goto, SetStatus, stripe, budget
<1>6. AckedIsStored'
  BY <1>0 DEF TypeOK, PhaseInv, PhaseOf, StoredInv, StoredOf, AckedIsStored, Claim,
     Goto, SetStatus, stripe, budget
<1> QED
  BY <1>1, <1>2, <1>3, <1>4, <1>5, <1>6 DEF IInv

\* A delivery at work has no replay of its event beside it.
LEMMA RestartStep ==
    ASSUME IInv, NEW r \in Runner, Restart(r)
    PROVE  IInv'
<1>0. /\ TypeOK /\ PhaseInv /\ StoredInv /\ AloneInv
      /\ ProcessedMeansApplied /\ AckedIsStored
  BY DEF IInv
<1>1. TypeOK'
  BY <1>0, WebhookAssumption DEF TypeOK, AccountTypeOK, Status, Phase, Session,
     accountVars, Restart, Goto, SetStatus, stripe, budget
<1>2. PhaseInv'
  BY <1>0, WebhookAssumption DEF TypeOK, PhaseInv, PhaseOf, Checkout, Credited, Runner,
     accountVars, Restart, Goto, SetStatus, stripe, budget
<1>3. StoredInv'
  BY <1>0, WebhookAssumption DEF TypeOK, PhaseInv, PhaseOf, StoredInv, StoredOf,
     AloneInv, Running, Runner, Restart, Goto, SetStatus, stripe, budget
<1>4. AloneInv'
  BY <1>0, WebhookAssumption DEF TypeOK, PhaseInv, PhaseOf, StoredInv, StoredOf,
     AloneInv, Running, Runner, Restart, Goto, SetStatus, stripe, budget
<1>5. ProcessedMeansApplied'
  BY <1>0, WebhookAssumption DEF TypeOK, PhaseInv, PhaseOf, ProcessedMeansApplied,
     Credited, Checkout, accountVars, Restart, Goto, SetStatus, stripe, budget
<1>6. AckedIsStored'
  BY <1>0 DEF TypeOK, PhaseInv, PhaseOf, StoredInv, StoredOf, AckedIsStored, Restart,
     Goto, SetStatus, stripe, budget
<1> QED
  BY <1>1, <1>2, <1>3, <1>4, <1>5, <1>6 DEF IInv

\* The look-up of the key decides where the request goes.
LEMMA CheckStep ==
    ASSUME IInv, NEW r \in Runner, Check(r)
    PROVE  IInv'
<1>0. /\ TypeOK /\ PhaseInv /\ StoredInv /\ AloneInv
      /\ ProcessedMeansApplied /\ AckedIsStored
  BY DEF IInv
<1>1. TypeOK'
  BY <1>0, WebhookAssumption DEF TypeOK, AccountTypeOK, Status, Phase, Session,
     accountVars, Check, Goto, rows, stripe, budget
<1>2. PhaseInv'
  BY <1>0, WebhookAssumption DEF TypeOK, PhaseInv, PhaseOf, Checkout, Credited, Runner,
     accountVars, Check, Goto, rows, stripe, budget
<1>3. StoredInv'
  BY <1>0, WebhookAssumption DEF TypeOK, PhaseInv, PhaseOf, StoredInv, StoredOf,
     AloneInv, Running, Runner, Check, Goto, rows, stripe, budget
<1>4. AloneInv'
  BY <1>0, WebhookAssumption DEF TypeOK, PhaseInv, PhaseOf, StoredInv, StoredOf,
     AloneInv, Running, Runner, Check, Goto, rows, stripe, budget
<1>5. ProcessedMeansApplied'
  BY <1>0, WebhookAssumption DEF TypeOK, PhaseInv, PhaseOf, ProcessedMeansApplied,
     Credited, Checkout, accountVars, Check, Goto, rows, stripe, budget
<1>6. AckedIsStored'
  BY <1>0 DEF TypeOK, PhaseInv, PhaseOf, StoredInv, StoredOf, AckedIsStored, Check,
     Goto, rows, stripe, budget
<1> QED
  BY <1>1, <1>2, <1>3, <1>4, <1>5, <1>6 DEF IInv

\* What is audited was credited.
LEMMA AuditStep ==
    ASSUME IInv, NEW r \in Runner, Audit(r)
    PROVE  IInv'
<1>0. /\ TypeOK /\ PhaseInv /\ StoredInv /\ AloneInv
      /\ ProcessedMeansApplied /\ AckedIsStored
  BY DEF IInv
<1>1. TypeOK'
  BY <1>0, WebhookAssumption, EventTypes DEF TypeOK, AccountTypeOK, Status, Phase,
     Session, accountVars, Audit, Goto, stripe, budget
<1>2. PhaseInv'
  BY <1>0, WebhookAssumption DEF TypeOK, PhaseInv, PhaseOf, Checkout, Credited, Runner,
     accountVars, Audit, Goto, stripe, budget
<1>3. StoredInv'
  BY <1>0, WebhookAssumption DEF TypeOK, PhaseInv, PhaseOf, StoredInv, StoredOf,
     AloneInv, Running, Runner, Audit, Goto, stripe, budget
<1>4. AloneInv'
  BY <1>0, WebhookAssumption DEF TypeOK, PhaseInv, PhaseOf, StoredInv, StoredOf,
     AloneInv, Running, Runner, Audit, Goto, stripe, budget
<1>5. ProcessedMeansApplied'
  BY <1>0, WebhookAssumption DEF TypeOK, PhaseInv, PhaseOf, ProcessedMeansApplied,
     Credited, Checkout, accountVars, Audit, Goto, stripe, budget
<1>6. AckedIsStored'
  BY <1>0 DEF TypeOK, PhaseInv, PhaseOf, StoredInv, StoredOf, AckedIsStored, Audit,
     Goto, stripe, budget
<1> QED
  BY <1>1, <1>2, <1>3, <1>4, <1>5, <1>6 DEF IInv

\* Only a request that credited and audited its checkout reports it as processed.
LEMMA FinishStep ==
    ASSUME IInv, NEW r \in Runner, Finish(r)
    PROVE  IInv'
<1>0. /\ TypeOK /\ PhaseInv /\ StoredInv /\ AloneInv
      /\ ProcessedMeansApplied /\ AckedIsStored
  BY DEF IInv
<1>1. TypeOK'
  BY <1>0, WebhookAssumption DEF TypeOK, AccountTypeOK, Status, Phase, Session,
     accountVars, Finish, Goto, SetStatus, stripe, budget
<1>2. PhaseInv'
  BY <1>0, WebhookAssumption DEF TypeOK, PhaseInv, PhaseOf, Checkout, Credited, Runner,
     accountVars, Finish, Goto, SetStatus, stripe, budget
<1>3. StoredInv'
  BY <1>0, WebhookAssumption DEF TypeOK, PhaseInv, PhaseOf, StoredInv, StoredOf,
     AloneInv, Running, Runner, Finish, Goto, SetStatus, stripe, budget
<1>4. AloneInv'
  BY <1>0, WebhookAssumption DEF TypeOK, PhaseInv, PhaseOf, StoredInv, StoredOf,
     AloneInv, Running, Runner, Finish, Goto, SetStatus, stripe, budget
<1>5. ProcessedMeansApplied'
  BY <1>0, WebhookAssumption DEF TypeOK, PhaseInv, PhaseOf, ProcessedMeansApplied,
     Credited, Checkout, accountVars, Finish, Goto, SetStatus, stripe, budget
<1>6. AckedIsStored'
  BY <1>0 DEF TypeOK, PhaseInv, PhaseOf, StoredInv, StoredOf, AckedIsStored, Finish,
     Goto, SetStatus, stripe, budget
<1> QED
  BY <1>1, <1>2, <1>3, <1>4, <1>5, <1>6 DEF IInv

\* The except branch ends the work with or without a status.
LEMMA MarkFailedStep ==
    ASSUME IInv, NEW r \in Runner, MarkFailed(r)
    PROVE  IInv'
<1>0. /\ TypeOK /\ PhaseInv /\ StoredInv /\ AloneInv
      /\ ProcessedMeansApplied /\ AckedIsStored
  BY DEF IInv
<1>1. TypeOK'
  BY <1>0, WebhookAssumption DEF TypeOK, AccountTypeOK, Status, Phase, Session,
     accountVars, MarkFailed, Goto, SetStatus, stripe, budget
<1>2. PhaseInv'
  BY <1>0, WebhookAssumption DEF TypeOK, PhaseInv, PhaseOf, Checkout, Credited, Runner,
     accountVars, MarkFailed, Goto, SetStatus, stripe, budget
<1>3. StoredInv'
  BY <1>0, WebhookAssumption DEF TypeOK, PhaseInv, PhaseOf, StoredInv, StoredOf,
     AloneInv, Running, Runner, MarkFailed, Goto, SetStatus, stripe, budget
<1>4. AloneInv'
  BY <1>0, WebhookAssumption DEF TypeOK, PhaseInv, PhaseOf, StoredInv, StoredOf,
     AloneInv, Running, Runner, MarkFailed, Goto, SetStatus, stripe, budget
<1>5. ProcessedMeansApplied'
  BY <1>0, WebhookAssumption DEF TypeOK, PhaseInv, PhaseOf, ProcessedMeansApplied,
     Credited, Checkout, accountVars, MarkFailed, Goto, SetStatus, stripe, budget
<1>6. AckedIsStored'
  BY <1>0 DEF TypeOK, PhaseInv, PhaseOf, StoredInv, StoredOf, AckedIsStored, MarkFailed,
     Goto, SetStatus, stripe, budget
<1> QED
  BY <1>1, <1>2, <1>3, <1>4, <1>5, <1>6 DEF IInv

\* Only a request whose session is not dead is answered with 200.
LEMMA ExitStep ==
    ASSUME IInv, NEW r \in Runner, Exit(r)
    PROVE  IInv'
<1>0. /\ TypeOK /\ PhaseInv /\ StoredInv /\ AloneInv
      /\ ProcessedMeansApplied /\ AckedIsStored
  BY DEF IInv
<1>1. TypeOK'
  BY <1>0, WebhookAssumption, EventTypes DEF TypeOK, AccountTypeOK, Status, Phase,
     Session, accountVars, Exit, FreeSlot, rows, budget
<1>2. PhaseInv'
  BY <1>0, WebhookAssumption DEF TypeOK, PhaseInv, PhaseOf, Checkout, Credited, Runner,
     accountVars, Exit, FreeSlot, rows, budget
<1>3. StoredInv'
  BY <1>0, WebhookAssumption DEF TypeOK, PhaseInv, PhaseOf, StoredInv, StoredOf,
     AloneInv, Running, Runner, Exit, FreeSlot, rows, budget
<1>4. AloneInv'
  BY <1>0, WebhookAssumption DEF TypeOK, PhaseInv, PhaseOf, StoredInv, StoredOf,
     AloneInv, Running, Runner, Exit, FreeSlot, rows, budget
<1>5. ProcessedMeansApplied'
  BY <1>0, WebhookAssumption DEF TypeOK, PhaseInv, PhaseOf, ProcessedMeansApplied,
     Credited, Checkout, accountVars, Exit, FreeSlot, rows, budget
<1>6. AckedIsStored'
  BY <1>0 DEF TypeOK, PhaseInv, PhaseOf, StoredInv, StoredOf, AckedIsStored, Exit,
     FreeSlot, rows, budget
<1> QED
  BY <1>1, <1>2, <1>3, <1>4, <1>5, <1>6 DEF IInv

\* A claim that fails leaves a dead session and no row.
LEMMA ClaimFailsStep ==
    ASSUME IInv, NEW r \in Runner, ClaimFails(r)
    PROVE  IInv'
<1>0. /\ TypeOK /\ PhaseInv /\ StoredInv /\ AloneInv
      /\ ProcessedMeansApplied /\ AckedIsStored
  BY DEF IInv
<1>1. TypeOK'
  BY <1>0, WebhookAssumption DEF TypeOK, AccountTypeOK, Status, Phase, Session,
     accountVars, ClaimFails, Fault, Goto, rows, stripe
<1>2. PhaseInv'
  BY <1>0, WebhookAssumption DEF TypeOK, PhaseInv, PhaseOf, Checkout, Credited, Runner,
     accountVars, ClaimFails, Fault, Goto, rows, stripe
<1>3. StoredInv'
  BY <1>0, WebhookAssumption DEF TypeOK, PhaseInv, PhaseOf, StoredInv, StoredOf,
     AloneInv, Running, Runner, ClaimFails, Fault, Goto, rows, stripe
<1>4. AloneInv'
  BY <1>0, WebhookAssumption DEF TypeOK, PhaseInv, PhaseOf, StoredInv, StoredOf,
     AloneInv, Running, Runner, ClaimFails, Fault, Goto, rows, stripe
<1>5. ProcessedMeansApplied'
  BY <1>0, WebhookAssumption DEF TypeOK, PhaseInv, PhaseOf, ProcessedMeansApplied,
     Credited, Checkout, accountVars, ClaimFails, Fault, Goto, rows, stripe
<1>6. AckedIsStored'
  BY <1>0 DEF TypeOK, PhaseInv, PhaseOf, StoredInv, StoredOf, AckedIsStored, ClaimFails,
     Fault, Goto, rows, stripe
<1> QED
  BY <1>1, <1>2, <1>3, <1>4, <1>5, <1>6 DEF IInv

\* Faults end what the request was doing and change no row.
LEMMA ProcessFailsStep ==
    ASSUME IInv, NEW r \in Runner, ProcessFails(r)
    PROVE  IInv'
<1>0. /\ TypeOK /\ PhaseInv /\ StoredInv /\ AloneInv
      /\ ProcessedMeansApplied /\ AckedIsStored
  BY DEF IInv
<1>1. TypeOK'
  BY <1>0, WebhookAssumption DEF TypeOK, AccountTypeOK, Status, Phase, Session,
     accountVars, ProcessFails, Fault, Goto, rows, stripe
<1>2. PhaseInv'
  BY <1>0, WebhookAssumption DEF TypeOK, PhaseInv, PhaseOf, Checkout, Credited, Runner,
     accountVars, ProcessFails, Fault, Goto, rows, stripe
<1>3. StoredInv'
  BY <1>0, WebhookAssumption DEF TypeOK, PhaseInv, PhaseOf, StoredInv, StoredOf,
     AloneInv, Running, Runner, ProcessFails, Fault, Goto, rows, stripe
<1>4. AloneInv'
  BY <1>0, WebhookAssumption DEF TypeOK, PhaseInv, PhaseOf, StoredInv, StoredOf,
     AloneInv, Running, Runner, ProcessFails, Fault, Goto, rows, stripe
<1>5. ProcessedMeansApplied'
  BY <1>0, WebhookAssumption DEF TypeOK, PhaseInv, PhaseOf, ProcessedMeansApplied,
     Credited, Checkout, accountVars, ProcessFails, Fault, Goto, rows, stripe
<1>6. AckedIsStored'
  BY <1>0 DEF TypeOK, PhaseInv, PhaseOf, StoredInv, StoredOf, AckedIsStored,
     ProcessFails, Fault, Goto, rows, stripe
<1> QED
  BY <1>1, <1>2, <1>3, <1>4, <1>5, <1>6 DEF IInv

LEMMA AuditFailsStep ==
    ASSUME IInv, NEW r \in Runner, AuditFails(r)
    PROVE  IInv'
<1>0. /\ TypeOK /\ PhaseInv /\ StoredInv /\ AloneInv
      /\ ProcessedMeansApplied /\ AckedIsStored
  BY DEF IInv
<1>1. TypeOK'
  BY <1>0, WebhookAssumption DEF TypeOK, AccountTypeOK, Status, Phase, Session,
     accountVars, AuditFails, Fault, Goto, rows, stripe
<1>2. PhaseInv'
  BY <1>0, WebhookAssumption DEF TypeOK, PhaseInv, PhaseOf, Checkout, Credited, Runner,
     accountVars, AuditFails, Fault, Goto, rows, stripe
<1>3. StoredInv'
  BY <1>0, WebhookAssumption DEF TypeOK, PhaseInv, PhaseOf, StoredInv, StoredOf,
     AloneInv, Running, Runner, AuditFails, Fault, Goto, rows, stripe
<1>4. AloneInv'
  BY <1>0, WebhookAssumption DEF TypeOK, PhaseInv, PhaseOf, StoredInv, StoredOf,
     AloneInv, Running, Runner, AuditFails, Fault, Goto, rows, stripe
<1>5. ProcessedMeansApplied'
  BY <1>0, WebhookAssumption DEF TypeOK, PhaseInv, PhaseOf, ProcessedMeansApplied,
     Credited, Checkout, accountVars, AuditFails, Fault, Goto, rows, stripe
<1>6. AckedIsStored'
  BY <1>0 DEF TypeOK, PhaseInv, PhaseOf, StoredInv, StoredOf, AckedIsStored, AuditFails,
     Fault, Goto, rows, stripe
<1> QED
  BY <1>1, <1>2, <1>3, <1>4, <1>5, <1>6 DEF IInv

LEMMA StatusFailsStep ==
    ASSUME IInv, NEW r \in Runner, StatusFails(r)
    PROVE  IInv'
<1>0. /\ TypeOK /\ PhaseInv /\ StoredInv /\ AloneInv
      /\ ProcessedMeansApplied /\ AckedIsStored
  BY DEF IInv
<1>1. TypeOK'
  BY <1>0, WebhookAssumption DEF TypeOK, AccountTypeOK, Status, Phase, Session,
     accountVars, StatusFails, Fault, Goto, rows, stripe
<1>2. PhaseInv'
  BY <1>0, WebhookAssumption DEF TypeOK, PhaseInv, PhaseOf, Checkout, Credited, Runner,
     accountVars, StatusFails, Fault, Goto, rows, stripe
<1>3. StoredInv'
  BY <1>0, WebhookAssumption DEF TypeOK, PhaseInv, PhaseOf, StoredInv, StoredOf,
     AloneInv, Running, Runner, StatusFails, Fault, Goto, rows, stripe
<1>4. AloneInv'
  BY <1>0, WebhookAssumption DEF TypeOK, PhaseInv, PhaseOf, StoredInv, StoredOf,
     AloneInv, Running, Runner, StatusFails, Fault, Goto, rows, stripe
<1>5. ProcessedMeansApplied'
  BY <1>0, WebhookAssumption DEF TypeOK, PhaseInv, PhaseOf, ProcessedMeansApplied,
     Credited, Checkout, accountVars, StatusFails, Fault, Goto, rows, stripe
<1>6. AckedIsStored'
  BY <1>0 DEF TypeOK, PhaseInv, PhaseOf, StoredInv, StoredOf, AckedIsStored,
     StatusFails, Fault, Goto, rows, stripe
<1> QED
  BY <1>1, <1>2, <1>3, <1>4, <1>5, <1>6 DEF IInv

\* A crash frees the slot and changes no row.
LEMMA CrashStep ==
    ASSUME IInv, NEW r \in Runner, Crash(r)
    PROVE  IInv'
<1>0. /\ TypeOK /\ PhaseInv /\ StoredInv /\ AloneInv
      /\ ProcessedMeansApplied /\ AckedIsStored
  BY DEF IInv
<1>1. TypeOK'
  BY <1>0, WebhookAssumption DEF TypeOK, AccountTypeOK, Status, Phase, Session,
     accountVars, Crash, FreeSlot, rows, stripe
<1>2. PhaseInv'
  BY <1>0, WebhookAssumption DEF TypeOK, PhaseInv, PhaseOf, Checkout, Credited, Runner,
     accountVars, Crash, FreeSlot, rows, stripe
<1>3. StoredInv'
  BY <1>0, WebhookAssumption DEF TypeOK, PhaseInv, PhaseOf, StoredInv, StoredOf,
     AloneInv, Running, Runner, Crash, FreeSlot, rows, stripe
<1>4. AloneInv'
  BY <1>0, WebhookAssumption DEF TypeOK, PhaseInv, PhaseOf, StoredInv, StoredOf,
     AloneInv, Running, Runner, Crash, FreeSlot, rows, stripe
<1>5. ProcessedMeansApplied'
  BY <1>0, WebhookAssumption DEF TypeOK, PhaseInv, PhaseOf, ProcessedMeansApplied,
     Credited, Checkout, accountVars, Crash, FreeSlot, rows, stripe
<1>6. AckedIsStored'
  BY <1>0 DEF TypeOK, PhaseInv, PhaseOf, StoredInv, StoredOf, AckedIsStored, Crash,
     FreeSlot, rows, stripe
<1> QED
  BY <1>1, <1>2, <1>3, <1>4, <1>5, <1>6 DEF IInv

\* What a purchase does to the account: its key is spent, and none given back.
LEMMA CreditKeeps ==
    ASSUME AccountTypeOK, NEW u \in User, NEW k \in Key, NEW n \in Int, Credit(u, k, n)
    PROVE  /\ AccountTypeOK'
           /\ \A j : Credited(j) => Credited(j)'
           /\ Credited(k)'
<1>1. balance' \in [User -> Nat]
  BY DEF AccountTypeOK, Credit
<1>2. k # NoKey
  BY WebhookAssumption
<1> DEFINE new == [key |-> k, user |-> u, type |-> "purchase", amount |-> n]
<1>3. posted' = posted \union {new}
  BY <1>2 DEF Credit, SpendKey
<1>4. new \in Posting /\ new.key = k
  BY DEF Posting, PostingType
<1> HIDE DEF new
<1>5. posted' \subseteq Posting
  BY <1>3, <1>4 DEF AccountTypeOK
<1> QED
  BY <1>1, <1>3, <1>4, <1>5 DEF AccountTypeOK, Credited

LEMMA PostStep ==
    ASSUME IInv, NEW r \in Runner, Post(r)
    PROVE  IInv'
<1>0. /\ TypeOK /\ PhaseInv /\ StoredInv /\ AloneInv
      /\ ProcessedMeansApplied /\ AckedIsStored
  BY DEF IInv
<1>1. /\ AccountTypeOK'
      /\ \A j : Credited(j) => Credited(j)'
      /\ pc'[r] = "audit" => Credited(Checkout(r))'
  <2> DEFINE k == Checkout(r)
  <2>1. k \in Key /\ BuyerOf[k] \in User /\ CreditsOf[k] \in Int
    BY <1>0, EventTypes, WebhookAssumption DEF Post, PhaseInv, PhaseOf
  <2>2. CASE Credit(BuyerOf[k], k, CreditsOf[k])
    BY <1>0, <2>1, <2>2, CreditKeeps DEF TypeOK, Post, Checkout
  <2>3. CASE Credited(k) /\ Goto(r, "except") /\ UNCHANGED accountVars
    BY <1>0, <2>3 DEF TypeOK, Post, Goto, AccountTypeOK, accountVars, Credited
  <2> QED
    BY <2>2, <2>3 DEF Post
<1>2. /\ pc[r] = "post"
      /\ pc' = [pc EXCEPT ![r] = "audit"] \/ pc' = [pc EXCEPT ![r] = "except"]
      /\ UNCHANGED <<status, audited, stripe, event, session, budget>>
  BY DEF Post, Goto
<1>3. TypeOK'
  BY <1>0, <1>1, <1>2 DEF TypeOK, Phase, stripe, budget
<1>4. PhaseInv'
  <2> SUFFICES ASSUME NEW q \in Runner PROVE PhaseOf(q)'
    BY DEF PhaseInv
  <2>1. PhaseOf(q) /\ Checkout(q)' = Checkout(q)
    BY <1>0, <1>2 DEF PhaseInv, Checkout
  <2>2. CASE q = r
    BY <1>0, <1>1, <1>2, <2>1, <2>2 DEF PhaseOf, TypeOK
  <2>3. CASE q # r
    BY <1>0, <1>1, <1>2, <2>1, <2>3 DEF PhaseOf, TypeOK
  <2> QED
    BY <2>2, <2>3
<1>5. StoredInv' /\ AloneInv'
  BY <1>0, <1>2 DEF TypeOK, StoredInv, StoredOf, AloneInv, Running, Runner
<1>6. ProcessedMeansApplied' /\ AckedIsStored'
  BY <1>0, <1>1, <1>2 DEF ProcessedMeansApplied, AckedIsStored, stripe
<1> QED
  BY <1>3, <1>4, <1>5, <1>6 DEF IInv
-----------------------------------------------------------------------------
LEMMA NextIInv == IInv /\ [Next]_vars => IInv'
<1> SUFFICES ASSUME IInv, [Next]_vars PROVE IInv'
  OBVIOUS
<1>1. CASE \E r \in Runner, e \in Event : Deliver(r, e) \/ Reprocess(r, e)
  BY <1>1, DeliverStep, ReprocessStep
<1>2. CASE \E r \in Runner : Step(r)
  BY <1>2, ClaimStep, RestartStep, CheckStep, PostStep, AuditStep, FinishStep,
     MarkFailedStep, ExitStep DEF Step
<1>3. CASE \E r \in Runner : Fail(r)
  BY <1>3, ClaimFailsStep, ProcessFailsStep, AuditFailsStep, StatusFailsStep, CrashStep
     DEF Fail
<1>4. CASE UNCHANGED vars
  BY <1>4 DEF vars, rows, stripe, budget, accountVars, IInv, TypeOK, AccountTypeOK, PhaseInv,
     PhaseOf, StoredInv, StoredOf, AloneInv, Running, Checkout, Credited,
     ProcessedMeansApplied, AckedIsStored
<1> QED
  BY <1>1, <1>2, <1>3, <1>4 DEF Next

THEOREM Invariance == Spec => []IInv
  BY InitIInv, NextIInv, PTL DEF Spec

\* Every variable of the webhook and replay requests stays in its type.
THEOREM TypeCorrect == Spec => []TypeOK
<1>1. IInv => TypeOK
  BY DEF IInv
<1> QED
  BY <1>1, Invariance, PTL

\* However many deliveries and replays work on an event, "processed" is shown for a
\* credited and audited checkout only.
THEOREM ProcessedIsApplied == Spec => []ProcessedMeansApplied
<1>1. IInv => ProcessedMeansApplied
  BY DEF IInv
<1> QED
  BY <1>1, Invariance, PTL

\* A delivery at work has its event to itself.
THEOREM DeliveriesRunAlone == Spec => []DeliveryRunsAlone
<1>1. IInv => DeliveryRunsAlone
  BY DEF IInv, AloneInv, DeliveryRunsAlone
<1> QED
  BY <1>1, Invariance, PTL

\* Stripe sees 200 for stored events only.
THEOREM AckedAreStored == Spec => []AckedIsStored
<1>1. IInv => AckedIsStored
  BY DEF IInv
<1> QED
  BY <1>1, Invariance, PTL

\* No delivery changes the row of an event whose outcome is recorded.
LEMMA ReopenedByAdmin ==
    ASSUME IInv, [Next]_vars, NEW e \in Event,
           status[e] \in {"processed", "ignored", "failed"}, status'[e] # status[e]
    PROVE  \E a \in Admin : event[a] = e
<1>1. /\ TypeOK /\ PhaseInv /\ StoredInv
  BY DEF IInv
<1>2. PICK r \in Runner : Claim(r) \/ Restart(r) \/ Finish(r) \/ MarkFailed(r)
  BY DEF Next, Step, Fail, Deliver, Reprocess, Check, Post, Audit, Exit, ClaimFails,
     ProcessFails, AuditFails, StatusFails, Crash, Fault, vars, rows
<1>3. event[r] = e
  BY <1>1, <1>2 DEF Claim, Restart, Finish, MarkFailed, SetStatus, TypeOK
<1>4. r \notin Delivery
  BY <1>1, <1>2, <1>3 DEF Claim, Restart, Finish, MarkFailed, SetStatus, TypeOK, PhaseInv,
     PhaseOf, StoredInv, StoredOf, Running
<1> QED
  BY <1>3, <1>4 DEF Runner

\* Only an administrator reopens an event whose outcome is recorded.
THEOREM OnlyAdminReopens == Spec => RedeliveryNeverReopens
<1>1. ASSUME IInv, [Next]_vars
      PROVE  [\A e \in Event :
                 status[e] \in {"processed", "ignored", "failed"} /\ status'[e] # status[e]
                     => \E a \in Admin : event[a] = e]_vars
  BY <1>1, ReopenedByAdmin
<1> QED
  BY <1>1, Invariance, PTL DEF Spec, RedeliveryNeverReopens
-----------------------------------------------------------------------------
\* Induction over the numbers for a set of them, from the order of the numbers being well
\* founded: a set without a least counterexample has none.
LEMMA NatSetInduction ==
    ASSUME NEW A, 0 \in A, \A n \in Nat : n \in A => n + 1 \in A
    PROVE  Nat \subseteq A
<1> DEFINE Less == {ss \in Nat \X Nat : ss[1] < ss[2]}
           Missing == Nat \ A
<1>1. IsWellFoundedOn(Less, Nat)
  BY NatLessThanWellFounded DEF OpToRel
<1> HIDE DEF Less
<1> SUFFICES ASSUME Missing # {} PROVE FALSE
  OBVIOUS
<1>2. PICK x \in Missing : \A y \in Missing : <<y, x>> \notin Less
  BY <1>1, WFMin
<1>3. x - 1 \in Nat /\ x - 1 < x
  OBVIOUS
<1>4. <<x - 1, x>> \in Less
  BY <1>3 DEF Less
<1>5. x - 1 \in A
  BY <1>2, <1>3, <1>4
<1> QED
  BY <1>3, <1>5

\* Induction over the subsets of a finite set, by their size.
LEMMA SubsetInduction ==
    ASSUME NEW S, IsFiniteSet(S), NEW A, {} \in A,
           \A s \in SUBSET S : s # {} /\ (\A x \in s : s \ {x} \in A) => s \in A
    PROVE  SUBSET S \subseteq A
<1> DEFINE B == {n \in Nat : \A s \in SUBSET S : Cardinality(s) = n => s \in A}
<1>1. \A s \in SUBSET S : IsFiniteSet(s) /\ Cardinality(s) \in Nat
  BY FS_Subset, FS_CardinalityType
<1>2. 0 \in B
  BY <1>1, FS_EmptySet
<1>3. ASSUME NEW n \in Nat, n \in B PROVE n + 1 \in B
  <2> SUFFICES ASSUME NEW s \in SUBSET S, Cardinality(s) = n + 1 PROVE s \in A
    OBVIOUS
  <2>1. s # {}
    BY <1>1, FS_EmptySet
  <2>2. ASSUME NEW x \in s PROVE s \ {x} \in A
    <3>1. Cardinality(s \ {x}) = n
      BY <1>1, FS_RemoveElement
    <3> QED
      BY <1>3, <3>1
  <2> QED
    BY <2>1, <2>2
<1>4. Nat \subseteq B
  <2> HIDE DEF B
  <2> QED
    BY <1>2, <1>3, NatSetInduction
<1> QED
  BY <1>1, <1>4
-----------------------------------------------------------------------------
\* The fold of CreditedOnce, for any amounts c.
Sum(c, S) == FoldSet(LAMBDA k, sum : sum + c[k], 0, S)

\* Which element a fold takes first, and what it makes of a subset s of S.
First(s) == CHOOSE x \in s : TRUE

Unfolded(c, S, it) ==
    it = [s \in SUBSET S |-> IF s = {} THEN 0 ELSE it[s \ {First(s)}] + c[First(s)]]

LEMMA SumIsUnfolded == \A c, S : Sum(c, S) = (CHOOSE it : Unfolded(c, S, it))[S]
BY DEF Sum, FoldSet, MapThenFoldSet, Unfolded, First

LEMMA FirstIsElement == \A s : s # {} => First(s) \in s
BY DEF First

\* The recursion of the fold has a solution: one that is right up to a size can be made right
\* up to the next.
LEMMA UnfoldedExists ==
    ASSUME NEW S, IsFiniteSet(S), NEW c \in [S -> Int]
    PROVE  \E it \in [SUBSET S -> Int] : Unfolded(c, S, it)
<1> DEFINE Body(g, s) == IF s = {} THEN 0 ELSE g[s \ {First(s)}] + c[First(s)]
           Right(g, n) == \A s \in SUBSET S : Cardinality(s) <= n => g[s] = Body(g, s)
           B == {n \in Nat : \E g \in [SUBSET S -> Int] : Right(g, n)}
<1>1. \A s \in SUBSET S : IsFiniteSet(s) /\ Cardinality(s) \in Nat /\ Cardinality(s) <= Cardinality(S)
  BY FS_Subset, FS_CardinalityType
<1>2. \A s \in SUBSET S : s # {} =>
        /\ First(s) \in S /\ s \ {First(s)} \in SUBSET S
        /\ Cardinality(s \ {First(s)}) = Cardinality(s) - 1
  BY <1>1, FirstIsElement, FS_RemoveElement
<1>3. 0 \in B
  <2> DEFINE g == [s \in SUBSET S |-> 0]
  <2>1. \A s \in SUBSET S : Cardinality(s) <= 0 => s = {}
    BY <1>1, FS_EmptySet
  <2>2. Right(g, 0) /\ g \in [SUBSET S -> Int]
    BY <2>1
  <2> QED
    BY <2>2
<1>4. ASSUME NEW n \in Nat, n \in B PROVE n + 1 \in B
  <2>1. PICK g \in [SUBSET S -> Int] : Right(g, n)
    BY <1>4
  <2> DEFINE h == [s \in SUBSET S |-> Body(g, s)]
  <2>2. h \in [SUBSET S -> Int]
    <3>1. ASSUME NEW s \in SUBSET S PROVE Body(g, s) \in Int
      <4>1. CASE s = {}
        BY <4>1
      <4>2. CASE s # {}
        <5>1. g[s \ {First(s)}] \in Int /\ c[First(s)] \in Int
          BY <1>2, <4>2
        <5> QED
          BY <4>2, <5>1
      <4> QED
        BY <4>1, <4>2
    <3> HIDE DEF Body
    <3> QED
      BY <3>1
  <2>3. ASSUME NEW s \in SUBSET S, Cardinality(s) <= n + 1 PROVE h[s] = Body(h, s)
    <3>1. CASE s = {}
      BY <3>1
    <3>2. CASE s # {}
      <4>1. s \ {First(s)} \in SUBSET S /\ Cardinality(s \ {First(s)}) <= n
        BY <1>1, <1>2, <2>3, <3>2
      <4>2. g[s \ {First(s)}] = Body(g, s \ {First(s)})
        BY <2>1, <4>1
      <4>3. h[s \ {First(s)}] = g[s \ {First(s)}]
        BY <4>1, <4>2
      <4> QED
        BY <3>2, <4>3
    <3> QED
      BY <3>1, <3>2
  <2>4. Right(h, n + 1)
    BY <2>3
  <2>5. \E f \in [SUBSET S -> Int] : Right(f, n + 1)
    <3> HIDE DEF Right, h
    <3> QED
      BY <2>2, <2>4
  <2> QED
    <3> HIDE DEF Right
    <3> QED
      BY <2>5
<1>5. Cardinality(S) \in B
  <2>1. Nat \subseteq B
    <3> HIDE DEF B
    <3> QED
      BY <1>3, <1>4, NatSetInduction
  <2> QED
    BY <1>1, <2>1
<1>6. PICK it \in [SUBSET S -> Int] : Right(it, Cardinality(S))
  BY <1>5
<1>7. it = [s \in SUBSET S |-> Body(it, s)]
  BY <1>1, <1>6
<1> QED
  BY <1>7 DEF Unfolded

\* Whatever solves it takes any element off, not only the first, and agrees with what solves it
\* on a smaller set.
TakesAny(c, S, it) == \A s \in SUBSET S : \A y \in s : it[s] = it[s \ {y}] + c[y]

LEMMA UnfoldedTakesAny ==
    ASSUME NEW S, IsFiniteSet(S), NEW c \in [S -> Int],
           NEW it \in [SUBSET S -> Int], Unfolded(c, S, it)
    PROVE  TakesAny(c, S, it)
<1> DEFINE A == {s \in SUBSET S : \A y \in s : it[s] = it[s \ {y}] + c[y]}
<1>1. \A s \in SUBSET S : s # {} => it[s] = it[s \ {First(s)}] + c[First(s)]
  BY DEF Unfolded
<1>2. {} \in A
  OBVIOUS
<1>3. ASSUME NEW s \in SUBSET S, s # {}, \A x \in s : s \ {x} \in A
      PROVE  s \in A
  <2> SUFFICES ASSUME NEW y \in s PROVE it[s] = it[s \ {y}] + c[y]
    OBVIOUS
  <2> DEFINE x == First(s)
  <2>1. x \in s /\ it[s] = it[s \ {x}] + c[x]
    BY <1>1, <1>3, FirstIsElement
  <2> HIDE DEF x
  <2>2. CASE y = x
    BY <2>1, <2>2
  <2>3. CASE y # x
    <3>1. it[s \ {x}] = it[(s \ {x}) \ {y}] + c[y]
      BY <1>3, <2>1, <2>3
    <3>2. it[s \ {y}] = it[(s \ {y}) \ {x}] + c[x]
      BY <1>3, <2>1, <2>3
    <3>3. (s \ {x}) \ {y} = (s \ {y}) \ {x}
      OBVIOUS
    <3>4. it[s \ {x}] \in Int /\ it[s \ {y}] \in Int /\ it[(s \ {y}) \ {x}] \in Int
          /\ c[x] \in Int /\ c[y] \in Int
      BY <2>1
    <3>5. PICK a, b, p, q \in Int :
              a = it[s \ {x}] /\ b = it[(s \ {y}) \ {x}] /\ p = c[x] /\ q = c[y]
      BY <3>4
    <3>6. a = b + q /\ it[s] = a + p /\ it[s \ {y}] = b + p
      BY <2>1, <3>1, <3>2, <3>3, <3>5
    <3>7. a + p = (b + p) + q
      BY <3>6
    <3> QED
      BY <3>5, <3>6, <3>7
  <2> QED
    BY <2>2, <2>3
<1>4. SUBSET S \subseteq A
  <2> HIDE DEF A
  <2> QED
    BY <1>2, <1>3, SubsetInduction
<1> QED
  BY <1>4 DEF TakesAny

Agree(it, jt, S) == it[S] = jt[S]

LEMMA UnfoldedAgree ==
    ASSUME NEW S, IsFiniteSet(S), NEW T \in SUBSET S, NEW c \in [S -> Int], NEW d \in [T -> Int],
           \A x \in T : d[x] = c[x],
           NEW it \in [SUBSET S -> Int], Unfolded(c, S, it),
           NEW jt \in [SUBSET T -> Int], Unfolded(d, T, jt)
    PROVE  Agree(it, jt, T)
<1> DEFINE A == {s \in SUBSET T : it[s] = jt[s]}
<1>1. \A s \in SUBSET S : it[s] = IF s = {} THEN 0 ELSE it[s \ {First(s)}] + c[First(s)]
  BY DEF Unfolded
<1>2. \A s \in SUBSET T : jt[s] = IF s = {} THEN 0 ELSE jt[s \ {First(s)}] + d[First(s)]
  BY DEF Unfolded
<1>3. {} \in A
  BY <1>1, <1>2
<1>4. ASSUME NEW s \in SUBSET T, s # {}, \A x \in s : s \ {x} \in A PROVE s \in A
  <2>1. First(s) \in s
    BY <1>4, FirstIsElement
  <2> QED
    BY <1>1, <1>2, <1>4, <2>1
<1>5. SUBSET T \subseteq A
  <2>1. IsFiniteSet(T)
    BY FS_Subset
  <2>2. \A s \in SUBSET T : s # {} /\ (\A x \in s : s \ {x} \in A) => s \in A
    BY <1>4
  <2> HIDE DEF A
  <2> QED
    BY <1>3, <2>1, <2>2, SubsetInduction
<1> QED
  BY <1>5 DEF Agree

\* A sum is that of its elements: none is zero, and one more element adds its amount.
LEMMA SumOfNone == \A c : Sum(c, {}) = 0
<1> SUFFICES ASSUME NEW c PROVE Sum(c, {}) = 0
  OBVIOUS
<1> DEFINE it == [s \in SUBSET {} |-> 0]
<1>1. Unfolded(c, {}, it)
  BY DEF Unfolded
<1>2. Unfolded(c, {}, CHOOSE g : Unfolded(c, {}, g))
  BY <1>1
<1>3. \A g : Unfolded(c, {}, g) => g[{}] = 0
  BY DEF Unfolded
<1> QED
  BY <1>2, <1>3, SumIsUnfolded

\* A solution exists, so the chosen one is a solution; where it leads does not matter.
LEMMA SumUnfolds ==
    ASSUME NEW S, IsFiniteSet(S), NEW c, \A x \in S : c[x] \in Int
    PROVE  \E it \in [SUBSET S -> Int], d \in [S -> Int] :
              /\ \A x \in S : d[x] = c[x]
              /\ Unfolded(d, S, it)
              /\ Sum(c, S) = it[S]
<1> DEFINE d == [x \in S |-> c[x]]
<1>1. d \in [S -> Int] /\ \A x \in S : d[x] = c[x]
  OBVIOUS
<1> HIDE DEF d
<1>2. PICK g \in [SUBSET S -> Int] : Unfolded(d, S, g)
  BY <1>1, UnfoldedExists
<1>3. \A it : Unfolded(c, S, it) <=> Unfolded(d, S, it)
  <2> SUFFICES ASSUME NEW it, NEW s \in SUBSET S, s # {}
               PROVE  c[First(s)] = d[First(s)]
    BY DEF Unfolded
  <2> QED
    BY <1>1, FirstIsElement
<1>4. PICK it : it = CHOOSE f : Unfolded(c, S, f)
  OBVIOUS
<1>5. Unfolded(c, S, it)
  BY <1>2, <1>3, <1>4
<1>6. \A s \in SUBSET S : it[s] = g[s]
  <2> DEFINE A == {s \in SUBSET S : it[s] = g[s]}
  <2>1. \A s \in SUBSET S : it[s] = IF s = {} THEN 0 ELSE it[s \ {First(s)}] + d[First(s)]
    BY <1>3, <1>5 DEF Unfolded
  <2>2. \A s \in SUBSET S : g[s] = IF s = {} THEN 0 ELSE g[s \ {First(s)}] + d[First(s)]
    BY <1>2 DEF Unfolded
  <2>3. {} \in A
    BY <2>1, <2>2
  <2>4. ASSUME NEW s \in SUBSET S, s # {}, \A x \in s : s \ {x} \in A PROVE s \in A
    <3>1. First(s) \in s
      BY <2>4, FirstIsElement
    <3> QED
      BY <2>1, <2>2, <2>4, <3>1
  <2>5. \A s \in SUBSET S : s # {} /\ (\A x \in s : s \ {x} \in A) => s \in A
    BY <2>4
  <2>6. SUBSET S \subseteq A
    <3> HIDE DEF A
    <3> QED
      BY <2>3, <2>5, SubsetInduction
  <2> QED
    BY <2>6
<1>7. Sum(c, S) = g[S]
  BY <1>4, <1>6, SumIsUnfolded
<1> QED
  BY <1>1, <1>2, <1>7

\* One more element adds its amount.
LEMMA SumOfMore ==
    ASSUME NEW S, IsFiniteSet(S), NEW x, x \notin S, NEW c, \A y \in S \union {x} : c[y] \in Int
    PROVE  Sum(c, S \union {x}) = Sum(c, S) + c[x]
<1>0. PICK T : T = S \union {x}
  OBVIOUS
<1>1. IsFiniteSet(T) /\ S \in SUBSET T /\ T \ {x} = S /\ x \in T
  BY <1>0, FS_AddElement
<1>6. \A y \in T : c[y] \in Int
  BY <1>0
<1>2. PICK it \in [SUBSET T -> Int], d \in [T -> Int] :
          /\ \A y \in T : d[y] = c[y]
          /\ Unfolded(d, T, it)
          /\ Sum(c, T) = it[T]
  BY <1>1, <1>6, SumUnfolds
<1>3. PICK jt \in [SUBSET S -> Int], e \in [S -> Int] :
          /\ \A y \in S : e[y] = c[y]
          /\ Unfolded(e, S, jt)
          /\ Sum(c, S) = jt[S]
  BY SumUnfolds
<1>4. it[S] = jt[S]
  <2>1. \A y \in S : e[y] = d[y]
    BY <1>1, <1>2, <1>3
  <2>2. Unfolded(d, T, it) /\ Unfolded(e, S, jt)
    BY <1>2, <1>3
  <2>3. Agree(it, jt, S)
    BY <1>1, <2>1, <2>2, UnfoldedAgree
  <2> QED
    BY <2>3 DEF Agree
<1>5. it[T] = it[S] + d[x]
  <2>1. Unfolded(d, T, it)
    BY <1>2
  <2>2. TakesAny(d, T, it)
    BY <1>1, <2>1, UnfoldedTakesAny
  <2> QED
    BY <1>1, <2>2 DEF TakesAny
<1> QED
  BY <1>0, <1>1, <1>2, <1>3, <1>4, <1>5
-----------------------------------------------------------------------------
\* Every balance is the sum of the sessions paid, of which there are finitely many so far.
PaidInv ==
    \A u \in User : IsFiniteSet(PaidBy(u)) /\ balance[u] = Sum(CreditsOf, PaidBy(u))

LEMMA InitPaidInv == Init => PaidInv
<1> SUFFICES ASSUME Init, NEW u \in User
             PROVE  IsFiniteSet(PaidBy(u)) /\ balance[u] = Sum(CreditsOf, PaidBy(u))
  BY DEF PaidInv
<1>1. PaidBy(u) = {} /\ balance[u] = 0
  BY DEF Init, AccountInit, PaidBy, Credited
<1> QED
  BY <1>1, SumOfNone, FS_EmptySet

LEMMA SamePaid == ASSUME PaidInv, UNCHANGED accountVars PROVE PaidInv'
<1>1. UNCHANGED <<balance, posted>>
  BY DEF accountVars
<1>2. \A u : PaidBy(u)' = PaidBy(u)
  BY <1>1 DEF PaidBy, Credited
<1> QED
  BY <1>1, <1>2 DEF PaidInv

\* A session is paid once: its key was free, so its buyer's sessions are one more.
LEMMA PostPays == ASSUME IInv, PaidInv, NEW r \in Runner, Post(r) PROVE PaidInv'
<1> DEFINE k == Checkout(r)
<1>1. CASE UNCHANGED accountVars
  BY <1>1, SamePaid
<1>2. CASE Credit(BuyerOf[k], k, CreditsOf[k])
  <2>1. k \in Key /\ k # NoKey /\ BuyerOf[k] \in User /\ CreditsOf[k] \in Int
    BY EventTypes, WebhookAssumption DEF IInv, PhaseInv, PhaseOf, Post
  <2> HIDE DEF k
  <2>2. /\ \A p \in posted : p.key # k
        /\ posted' = posted \union
              {[key |-> k, user |-> BuyerOf[k], type |-> "purchase", amount |-> CreditsOf[k]]}
        /\ balance' = [balance EXCEPT ![BuyerOf[k]] = @ + CreditsOf[k]]
    BY <1>2, <2>1 DEF Credit, SpendKey
  <2>3. ~Credited(k) /\ \A x : Credited(x)' <=> (Credited(x) \/ x = k)
    <3> DEFINE new == [key |-> k, user |-> BuyerOf[k], type |-> "purchase", amount |-> CreditsOf[k]]
    <3>1. new.key = k /\ posted' = posted \union {new}
      BY <2>2
    <3> HIDE DEF new
    <3> QED
      BY <2>2, <3>1 DEF Credited
  <2> SUFFICES ASSUME NEW u \in User
               PROVE  IsFiniteSet(PaidBy(u))' /\ balance'[u] = Sum(CreditsOf, PaidBy(u)')
    BY DEF PaidInv
  <2>4. IsFiniteSet(PaidBy(u)) /\ balance[u] = Sum(CreditsOf, PaidBy(u)) /\ balance \in [User -> Nat]
    BY DEF PaidInv, IInv, TypeOK, AccountTypeOK
  <2>5. CASE u = BuyerOf[k]
    <3>1. PaidBy(u)' = PaidBy(u) \union {k} /\ k \notin PaidBy(u)
      BY <2>1, <2>3, <2>5 DEF PaidBy
    <3>2. \A y \in PaidBy(u) \union {k} : CreditsOf[y] \in Int
      BY <2>1, WebhookAssumption DEF PaidBy
    <3>3. PICK S : S = PaidBy(u)
      OBVIOUS
    <3>4. IsFiniteSet(S) /\ k \notin S /\ \A y \in S \union {k} : CreditsOf[y] \in Int
      BY <2>4, <3>1, <3>2, <3>3
    <3>6. IsFiniteSet(S \union {k})
      BY <3>4, FS_AddElement
    <3>7. Sum(CreditsOf, S \union {k}) = Sum(CreditsOf, S) + CreditsOf[k]
      BY <3>4, SumOfMore
    <3>5. balance'[u] = balance[u] + CreditsOf[k]
      BY <2>2, <2>4, <2>5
    <3> QED
      BY <2>4, <3>1, <3>3, <3>5, <3>6, <3>7
  <2>6. CASE u # BuyerOf[k]
    <3>1. PaidBy(u)' = PaidBy(u)
      BY <2>3, <2>6 DEF PaidBy
    <3>2. balance'[u] = balance[u]
      BY <2>2, <2>4, <2>6
    <3> QED
      BY <2>4, <3>1, <3>2
  <2> QED
    BY <2>5, <2>6
<1> QED
  BY <1>1, <1>2 DEF Post

LEMMA NextPaidInv == IInv /\ PaidInv /\ [Next]_vars => PaidInv'
<1> SUFFICES ASSUME IInv, PaidInv, [Next]_vars PROVE PaidInv'
  OBVIOUS
<1>1. CASE \E r \in Runner : Post(r)
  BY <1>1, PostPays
<1>2. CASE ~ \E r \in Runner : Post(r)
  <2>1. UNCHANGED accountVars
    <3>1. CASE UNCHANGED vars
      BY <3>1 DEF vars, rows
    <3>2. ASSUME NEW r \in Runner, NEW e \in Event, Deliver(r, e) \/ Reprocess(r, e)
          PROVE  UNCHANGED accountVars
      BY <3>2 DEF Deliver, Reprocess, rows
    <3>3. ASSUME NEW r \in Runner, Fail(r) PROVE UNCHANGED accountVars
      BY <3>3 DEF Fail, ClaimFails, ProcessFails, AuditFails, StatusFails, Crash, Fault, rows
    <3>4. ASSUME NEW r \in Runner, Step(r) PROVE UNCHANGED accountVars
      BY <1>2, <3>4 DEF Step, Claim, Restart, Check, Audit, Finish, MarkFailed, Exit, rows
    <3> QED
      BY <3>1, <3>2, <3>3, <3>4 DEF Next
  <2> QED
    BY <2>1, SamePaid
<1> QED
  BY <1>1, <1>2

\* A buyer's balance is what the paid checkout sessions were worth, whatever is delivered
\* again, replayed or retried.
THEOREM AlwaysCreditedOnce == Spec => []CreditedOnce
<1>1. PaidInv => CreditedOnce
  BY DEF PaidInv, CreditedOnce, Sum
<1> QED
  BY <1>1, InitPaidInv, NextPaidInv, Invariance, PTL DEF Spec
=============================================================================
