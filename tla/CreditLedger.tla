---------------------------- MODULE CreditLedger ----------------------------
(***************************************************************************)
(* services/credit_service.py as its callers run it: concurrent requests,  *)
(* each with its own database session, against PostgreSQL at READ          *)
(* COMMITTED.  A request is cut at its awaits, so that every read it makes *)
(* may be stale by the time it writes.                                     *)
(*                                                                         *)
(* The ledger is the source of truth; users.credits and the workspace's    *)
(* credit_balances row are projections of it.  The credit functions write  *)
(* under SELECT ... FOR UPDATE on the users row; record_usage, which every *)
(* AI request runs after its call to the model, writes the credit_balances *)
(* row from the User object its session loaded at the start, and takes no  *)
(* lock on the users row until its foreign keys are checked.               *)
(***************************************************************************)
EXTENDS Integers, Sequences, FiniteSets

CONSTANTS User,       \* owners of an account and of the workspace of the same id
          Request,    \* concurrent requests (HTTP handlers, webhook deliveries)
          Key,        \* idempotency keys
          NoKey,      \* the caller passed no key
          Nobody,     \* no request holds the row
          NoOp,       \* the request slot is free
          Operation,  \* the operations callers ask for
          MaxEntries  \* unkeyed operations stop at this ledger length

Kind == {"purchase", "adjust", "consume", "charge", "serve"}

ASSUME LedgerAssumption ==
    /\ NoKey \notin Key
    /\ Nobody \notin Request
    /\ NoOp \notin Operation
    /\ MaxEntries \in Nat
    /\ Operation \subseteq
          [kind : Kind, user : User, amount : Int, key : Key \union {NoKey}]
    /\ \A o \in Operation :
          /\ o.kind \in {"purchase", "consume", "charge"} => o.amount > 0
          /\ o.key = NoKey => o.kind = "adjust"
    \* The gate makes its keys up as usage-gate:{user}:{type}:{request id}: no other
    \* account and no other operation uses them.
    /\ \A o, p \in Operation :
          o.kind = "charge" /\ p.key = o.key
              => p.user = o.user /\ p.kind \in {"charge", "serve"}

VARIABLES ledger,    \* ledger[u]: credit_ledger rows of u, oldest first
          credits,   \* credits[u]: users.credits
          wsBalance, \* wsBalance[u]: credit_balances.balance of u's workspace
          recorded,  \* keys of the committed usage_events rows
          rowLock,   \* rowLock[u]: who holds users row u FOR UPDATE
          balLock,   \* balLock[u]: who holds an uncommitted UPDATE of the
                     \* credit_balances row of u
          pc,        \* pc[r]: where request r stands
          op,        \* op[r]: the operation r serves
          seen       \* seen[r]: user.credits in the identity map of r's session

db == <<ledger, credits, wsBalance, recorded>>
vars == <<ledger, credits, wsBalance, recorded, rowLock, balLock, pc, op, seen>>

Phase == {"idle", "gate", "check", "lock", "locked", "aligned", "staged",
          "calling", "recording"}

Entry == [type : {"purchase", "deduction", "adjustment"}, amount : Int,
          after : Nat, key : Key \union {NoKey}]
-----------------------------------------------------------------------------
\* The latest row's balance_after, 0 for a user without rows.
LatestBalance(rows) == IF rows = <<>> THEN 0 ELSE rows[Len(rows)].after

Balance(u) == LatestBalance(ledger[u])

\* Keys taken in the unique index on credit_ledger.idempotency_key.
KeysOf(rows) == {rows[i].key : i \in DOMAIN rows} \ {NoKey}

UsedKeys == UNION {KeysOf(ledger[u]) : u \in User}

Deducts(o) == o.kind \in {"consume", "charge"}

TypeOf(o) == IF Deducts(o) THEN "deduction"
             ELSE IF o.kind = "purchase" THEN "purchase" ELSE "adjustment"

\* The signed amount written to the ledger row.
Signed(o) == IF Deducts(o) THEN - o.amount ELSE o.amount

\* The balance after an operation: max(0, ...) in adjust_credits, a plain sum in
\* the other two, which never reach below zero.
NextWithoutFloor(o, cur) == cur + Signed(o)

NextBalance(o, cur) == IF cur + Signed(o) < 0 THEN 0 ELSE cur + Signed(o)

\* deduct_credits returns False when the balance does not cover the amount.
CoversAnything(o, cur) == Deducts(o) => cur > 0

Covers(o, cur) == Deducts(o) => o.amount <= cur

\* The row r has ready to insert.
EntryOf(o, after) ==
    [type |-> TypeOf(o), amount |-> Signed(o), after |-> after, key |-> o.key]

\* A transaction ends: its row locks are free again.
Released(lock, r) == [u \in User |-> IF lock[u] = r THEN Nobody ELSE lock[u]]

FreeSlot(r) ==
    /\ pc' = [pc EXCEPT ![r] = "idle"]
    /\ op' = [op EXCEPT ![r] = NoOp]
    /\ seen' = [seen EXCEPT ![r] = 0]

EndTransaction(r) ==
    /\ rowLock' = Released(rowLock, r)
    /\ balLock' = Released(balLock, r)

\* The request is over and none of its uncommitted writes survive.
Rollback(r) ==
    /\ EndTransaction(r)
    /\ FreeSlot(r)
    /\ UNCHANGED db

Goto(r, phase) == pc' = [pc EXCEPT ![r] = phase]
-----------------------------------------------------------------------------
Init ==
    /\ ledger = [u \in User |-> <<>>]
    /\ credits = [u \in User |-> 0]
    /\ wsBalance = [u \in User |-> 0]
    /\ recorded = {}
    /\ rowLock = [u \in User |-> Nobody]
    /\ balLock = [u \in User |-> Nobody]
    /\ pc = [r \in Request |-> "idle"]
    /\ op = [r \in Request |-> NoOp]
    /\ seen = [r \in Request |-> 0]

\* A request arrives, new or a retry of an earlier one with the same key, and its
\* session loads the User.  Keyed operations are bounded by their keys, unkeyed
\* ones by MaxEntries.
Begin(r, o) ==
    /\ pc[r] = "idle"
    /\ o.key = NoKey => Len(ledger[o.user]) < MaxEntries
    /\ op' = [op EXCEPT ![r] = o]
    /\ seen' = [seen EXCEPT ![r] = credits[o.user]]
    /\ Goto(r, CASE o.kind = "charge" -> "gate"
                 [] o.kind = "serve" -> "calling"
                 [] OTHER -> "check")
    /\ UNCHANGED <<db, rowLock, balLock>>

\* check_and_charge_usage over the limit: no credit in the ledger, no deduction.
Gate(r) ==
    /\ pc[r] = "gate"
    /\ \/ /\ Balance(op[r].user) > 0
          /\ Goto(r, "check")
          /\ UNCHANGED <<db, rowLock, balLock, op, seen>>
       \/ /\ Balance(op[r].user) <= 0
          /\ Rollback(r)

\* The idempotency check, made before the lock.  A key already in the ledger ends
\* the operation; for the usage gate that means "allowed".
CheckKey(r) ==
    /\ pc[r] = "check"
    /\ \/ /\ op[r].key \notin UsedKeys
          /\ Goto(r, "lock")
          /\ UNCHANGED <<db, rowLock, balLock, op, seen>>
       \/ /\ op[r].key \in UsedKeys
          /\ op[r].kind = "charge"
          /\ Goto(r, "calling")
          /\ UNCHANGED <<db, rowLock, balLock, op, seen>>
       \/ /\ op[r].key \in UsedKeys
          /\ op[r].kind # "charge"
          /\ Rollback(r)

\* SELECT ... FOR UPDATE on the users row.
LockWithoutForUpdate(r) ==
    /\ pc[r] = "lock"
    /\ rowLock' = [rowLock EXCEPT ![op[r].user] = r]
    /\ Goto(r, "locked")
    /\ UNCHANGED <<db, balLock, op, seen>>

Lock(r) ==
    /\ pc[r] = "lock"
    /\ rowLock[op[r].user] = Nobody
    /\ rowLock' = [rowLock EXCEPT ![op[r].user] = r]
    /\ Goto(r, "locked")
    /\ UNCHANGED <<db, balLock, op, seen>>

\* ensure_owner_workspace flushes credit_balances.balance := value.  The UPDATE is
\* emitted, and the row locked until the transaction ends, only if it changes what
\* the transaction reads there.
ReadBack(r, u) == IF balLock[u] = r THEN seen[r] ELSE wsBalance[u]

FlushBalance(r, u, value) ==
    \/ /\ value = ReadBack(r, u)
       /\ UNCHANGED balLock
    \/ /\ value # ReadBack(r, u)
       /\ balLock[u] \in {Nobody, r}
       /\ balLock' = [balLock EXCEPT ![u] = r]

\* What a commit of r leaves in the credit_balances row of u.
CommittedBalance(r) ==
    [u \in User |-> IF balLock[u] = r THEN seen[r] ELSE wsBalance[u]]

\* _realign_credit_projections: the balance is read from the ledger, never from
\* the session's User.
Realign(r) ==
    /\ pc[r] = "locked"
    /\ FlushBalance(r, op[r].user, Balance(op[r].user))
    /\ seen' = [seen EXCEPT ![r] = Balance(op[r].user)]
    /\ Goto(r, "aligned")
    /\ UNCHANGED <<db, rowLock, op>>

\* Insufficient balance.  Behind the usage gate the refusal is an HTTPException and
\* the session rolls back; consume_credits returns, and the request's final commit
\* keeps the realigned projections.
DenyKeepingLock(r) ==
    /\ pc[r] = "aligned"
    /\ ~ Covers(op[r], seen[r])
    /\ FreeSlot(r)
    /\ UNCHANGED <<db, rowLock, balLock>>

DenyFailingOpen(r) ==
    /\ pc[r] = "aligned"
    /\ ~ Covers(op[r], seen[r])
    /\ EndTransaction(r)
    /\ Goto(r, "calling")
    /\ UNCHANGED <<db, op, seen>>

Deny(r) ==
    /\ pc[r] = "aligned"
    /\ ~ Covers(op[r], seen[r])
    /\ EndTransaction(r)
    /\ FreeSlot(r)
    /\ \/ /\ op[r].kind = "consume"
          /\ credits' = [credits EXCEPT ![op[r].user] = seen[r]]
          /\ wsBalance' = CommittedBalance(r)
          /\ UNCHANGED <<ledger, recorded>>
       \/ /\ op[r].kind # "consume"
          /\ UNCHANGED db

\* The ledger row is inserted and both projections updated, not yet committed.  An
\* insert of the same key by another open transaction makes this one wait.
InsertPending(k) ==
    \E q \in Request : pc[q] = "staged" /\ op[q].key = k /\ k # NoKey

StageWithoutUniqueKey(r) ==
    LET next == NextBalance(op[r], seen[r])
    IN  /\ pc[r] = "aligned"
        /\ Covers(op[r], seen[r])
        /\ FlushBalance(r, op[r].user, next)
        /\ seen' = [seen EXCEPT ![r] = next]
        /\ Goto(r, "staged")
        /\ UNCHANGED <<db, rowLock, op>>

StagePublishingEarly(r) ==
    LET next == NextBalance(op[r], seen[r])
    IN  /\ pc[r] = "aligned"
        /\ Covers(op[r], seen[r])
        /\ op[r].key \notin UsedKeys
        /\ ~ InsertPending(op[r].key)
        /\ wsBalance' = [wsBalance EXCEPT ![op[r].user] = next]
        /\ seen' = [seen EXCEPT ![r] = next]
        /\ Goto(r, "staged")
        /\ UNCHANGED <<ledger, credits, recorded, rowLock, balLock, op>>

Stage(r) ==
    LET next == NextBalance(op[r], seen[r])
    IN  /\ pc[r] = "aligned"
        /\ Covers(op[r], seen[r])
        /\ op[r].key \notin UsedKeys
        /\ ~ InsertPending(op[r].key)
        /\ FlushBalance(r, op[r].user, next)
        /\ seen' = [seen EXCEPT ![r] = next]
        /\ Goto(r, "staged")
        /\ UNCHANGED <<db, rowLock, op>>

\* The unique index refuses a key that a concurrent request committed after this
\* one's check: IntegrityError, rollback, and the exception leaves the service.
RejectDuplicate(r) ==
    /\ pc[r] = "aligned"
    /\ Covers(op[r], seen[r])
    /\ op[r].key \in UsedKeys
    /\ Rollback(r)

\* The commit.  A charged request goes on to the model with the session's User, not
\* expired, still holding this balance; the others are done.
CommitWithoutProjection(r) ==
    LET u == op[r].user
    IN  /\ pc[r] = "staged"
        /\ ledger' = [ledger EXCEPT ![u] = Append(@, EntryOf(op[r], seen[r]))]
        /\ wsBalance' = CommittedBalance(r)
        /\ EndTransaction(r)
        /\ FreeSlot(r)
        /\ UNCHANGED <<recorded, credits>>

Commit(r) ==
    LET u == op[r].user
    IN  /\ pc[r] = "staged"
        /\ ledger' = [ledger EXCEPT ![u] = Append(@, EntryOf(op[r], seen[r]))]
        /\ credits' = [credits EXCEPT ![u] = seen[r]]
        /\ wsBalance' = CommittedBalance(r)
        /\ EndTransaction(r)
        /\ \/ /\ op[r].kind = "charge"
              /\ Goto(r, "calling")
              /\ UNCHANGED <<op, seen>>
           \/ /\ op[r].kind # "charge"
              /\ FreeSlot(r)
        /\ UNCHANGED recorded

\* The model has answered; record_usage first runs ensure_owner_workspace with the
\* User loaded before the call.
RecordProjection(r) ==
    /\ pc[r] = "calling"
    /\ FlushBalance(r, op[r].user, seen[r])
    /\ Goto(r, "recording")
    /\ UNCHANGED <<db, rowLock, op, seen>>

\* Then the usage rows: their foreign key needs a shared lock on the users row, which
\* waits for a FOR UPDATE holder, and usage_events has a unique key per request.
RecordUsage(r) ==
    /\ pc[r] = "recording"
    /\ rowLock[op[r].user] = Nobody
    /\ \/ /\ op[r].key \notin recorded
          /\ recorded' = recorded \union {op[r].key}
          /\ wsBalance' = CommittedBalance(r)
          /\ EndTransaction(r)
          /\ FreeSlot(r)
          /\ UNCHANGED <<ledger, credits>>
       \/ /\ op[r].key \in recorded
          /\ Rollback(r)

\* The handler raises, the client's connection or the process dies: PostgreSQL
\* rolls the open transaction back.
Abort(r) ==
    /\ pc[r] # "idle"
    /\ Rollback(r)

\* A credit mutation that holds the users row and waits for the credit_balances
\* row, and a record_usage that holds that one and waits for the first: PostgreSQL
\* aborts one of the two.
Deadlocked(r, q) ==
    LET u == op[r].user
    IN  /\ pc[r] \in {"locked", "aligned"}
        /\ pc[q] = "recording"
        /\ op[q].user = u
        /\ rowLock[u] = r
        /\ balLock[u] = q

BreakDeadlock(r, q) ==
    /\ Deadlocked(r, q)
    /\ Rollback(r) \/ Rollback(q)

Step(r) ==
    \/ Gate(r) \/ CheckKey(r) \/ Lock(r) \/ Realign(r) \/ Deny(r) \/ Stage(r)
    \/ RejectDuplicate(r) \/ Commit(r) \/ RecordProjection(r) \/ RecordUsage(r)

Next ==
    \/ \E r \in Request, o \in Operation : Begin(r, o)
    \/ \E r \in Request : Step(r)
    \/ \E r \in Request : Abort(r)
    \/ \E r, q \in Request : BreakDeadlock(r, q)

Spec == Init /\ [][Next]_vars

\* Every request keeps running, row locks are granted in turn, and PostgreSQL's
\* deadlock detector runs.
Fairness ==
    /\ \A r \in Request : SF_vars(Step(r))
    /\ \A r, q \in Request : WF_vars(BreakDeadlock(r, q))

FairSpec == Spec /\ Fairness
-----------------------------------------------------------------------------
TypeOK ==
    /\ ledger \in [User -> Seq(Entry)]
    /\ credits \in [User -> Nat]
    /\ wsBalance \in [User -> Nat]
    /\ recorded \subseteq Key
    /\ rowLock \in [User -> Request \union {Nobody}]
    /\ balLock \in [User -> Request \union {Nobody}]
    /\ pc \in [Request -> Phase]
    /\ op \in [Request -> Operation \union {NoOp}]
    /\ seen \in [Request -> Nat]

\* Every ledger row follows from the one before it: balance_after is the previous
\* balance plus the signed amount, cut off at zero for an adjustment only.  Two
\* concurrent mutations of one account that read the same balance would break it.
LedgerChain ==
    \A u \in User : \A i \in DOMAIN ledger[u] :
        LET row == ledger[u][i]
            prev == IF i = 1 THEN 0 ELSE ledger[u][i - 1].after
        IN  IF row.type = "adjustment"
            THEN row.after = IF prev + row.amount < 0 THEN 0 ELSE prev + row.amount
            ELSE row.after = prev + row.amount

\* No idempotency key appears on two ledger rows, of one user or of two, although
\* the service checks the key before it takes the lock and not again after.
KeyPostedOnce ==
    \A u, v \in User : \A i \in DOMAIN ledger[u], j \in DOMAIN ledger[v] :
        ledger[u][i].key = ledger[v][j].key /\ ledger[u][i].key # NoKey
            => u = v /\ i = j

\* users.credits equals the ledger balance in every committed state, whatever the
\* sessions hold in their identity maps.
CreditsFollowLedger == \A u \in User : credits[u] = Balance(u)

\* The workspace projection may be out of date, but shows a balance the account
\* really had: never one of a transaction that was rolled back.
BalancesOf(rows) == {0} \union {rows[i].after : i \in DOMAIN rows}

WorkspaceBalanceWasReal == \A u \in User : wsBalance[u] \in BalancesOf(ledger[u])

\* An over-limit request that reaches the model has its deduction in the ledger,
\* under its own key and its own account, across retries and lost races.
AllowedIsPaid ==
    \A r \in Request :
        pc[r] \in {"calling", "recording"} /\ op[r].kind = "charge"
            => \E i \in DOMAIN ledger[op[r].user] :
                  /\ ledger[op[r].user][i].key = op[r].key
                  /\ ledger[op[r].user][i].type = "deduction"

\* Every request ends: the two row locks, taken in opposite orders by the credit
\* functions and by record_usage, never block the requests for good.
RequestsFinish == \A r \in Request : pc[r] # "idle" ~> pc[r] = "idle"

\* "Keep workspace-native credit_balances aligned with the owner ledger balance"
\* (_sync_workspace_credit_projection): with no request open, both agree.
WorkspaceBalanceAligned ==
    (\A r \in Request : pc[r] = "idle")
        => \A u \in User : wsBalance[u] = Balance(u)

\* The credit service implements the indivisible account.
PostedKeys ==
    UNION {{[key |-> ledger[u][i].key, user |-> u,
             type |-> ledger[u][i].type, amount |-> ledger[u][i].amount] :
               i \in {j \in DOMAIN ledger[u] : ledger[u][j].key # NoKey}} : u \in User}

Account == INSTANCE CreditAccount
    WITH Amount <- {o.amount : o \in Operation},
         balance <- [u \in User |-> Balance(u)],
         posted <- PostedKeys

ImplementsAccount == Account!AccountSpec
=============================================================================
