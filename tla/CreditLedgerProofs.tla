------------------------- MODULE CreditLedgerProofs -------------------------
(***************************************************************************)
(* Proofs about CreditLedger for any number of users, requests, keys and   *)
(* operations.  ControlInv says who holds which row lock in which phase;   *)
(* DataInv, on top of it, says that what a request read under the lock is  *)
(* still true when it writes.                                              *)
(***************************************************************************)
EXTENDS CreditLedger, SequenceTheorems, TLAPS

Mutating == {"locked", "aligned", "staged"}

\* An occupied slot serves an operation; only gated and in-plan AI requests reach
\* the model.
SlotInv ==
    \A r \in Request :
        /\ pc[r] # "idle" => op[r] \in Operation
        /\ pc[r] = "gate" => op[r].kind = "charge"
        /\ pc[r] \in {"calling", "recording"} => op[r].kind \in {"charge", "serve"}
        /\ pc[r] \in {"gate", "check", "lock"} \union Mutating => op[r].kind # "serve"

\* A request between its FOR UPDATE and the end of its transaction holds the row.
RowLockInv ==
    \A r \in Request : pc[r] \in Mutating => rowLock[op[r].user] = r

\* Whoever holds a credit_balances row has a transaction open on its own account.
BalLockInv ==
    \A u \in User, r \in Request :
        balLock[u] = r => /\ pc[r] \in {"aligned", "staged", "recording"}
                          /\ op[r].user = u

ControlInv == TypeOK /\ SlotInv /\ RowLockInv /\ BalLockInv
-----------------------------------------------------------------------------
\* Appending a row: what every later step needs to know about the new ledger.
LEMMA AppendRow ==
    ASSUME NEW rows \in Seq(Entry), NEW e \in Entry
    PROVE  /\ Append(rows, e) \in Seq(Entry)
           /\ Len(Append(rows, e)) = Len(rows) + 1
           /\ DOMAIN Append(rows, e) = DOMAIN rows \union {Len(rows) + 1}
           /\ DOMAIN rows = 1 .. Len(rows)
           /\ Len(rows) \in Nat
           /\ \A i \in DOMAIN rows : Append(rows, e)[i] = rows[i]
           /\ Append(rows, e)[Len(rows) + 1] = e
  OBVIOUS

\* The latest balance of an account is a natural number.
LEMMA LatestBalanceType ==
    ASSUME NEW rows \in Seq(Entry)
    PROVE  LatestBalance(rows) \in Nat
<1>1. CASE rows = <<>>
  BY <1>1 DEF LatestBalance
<1>2. CASE rows # <<>>
  <2>1. Len(rows) \in 1 .. Len(rows)
    BY <1>2, EmptySeq
  <2>2. rows[Len(rows)] \in Entry
    BY <2>1, ElementOfSeq
  <2> QED
    BY <1>2, <2>2 DEF LatestBalance, Entry
<1> QED
  BY <1>1, <1>2

\* After an append the latest balance is the new row's, no balance is forgotten
\* and the new row's key, if any, joins the used ones.
LEMMA AppendBalance ==
    ASSUME NEW rows \in Seq(Entry), NEW e \in Entry
    PROVE  /\ LatestBalance(Append(rows, e)) = e.after
           /\ BalancesOf(rows) \subseteq BalancesOf(Append(rows, e))
           /\ e.after \in BalancesOf(Append(rows, e))
           /\ KeysOf(Append(rows, e)) = KeysOf(rows) \union ({e.key} \ {NoKey})
<1> DEFINE new == Append(rows, e)
<1>1. /\ Len(new) = Len(rows) + 1
      /\ DOMAIN new = DOMAIN rows \union {Len(rows) + 1}
      /\ DOMAIN rows = 1 .. Len(rows)
      /\ Len(rows) \in Nat
      /\ \A i \in DOMAIN rows : new[i] = rows[i]
      /\ new[Len(rows) + 1] = e
  BY AppendRow
<1>2. LatestBalance(new) = e.after
  <2>1. new # <<>>
    BY <1>1
  <2> QED
    BY <1>1, <2>1 DEF LatestBalance
<1>3. /\ BalancesOf(rows) \subseteq BalancesOf(new)
      /\ e.after \in BalancesOf(new)
  BY <1>1, Zenon DEF BalancesOf
<1>4. KeysOf(new) = KeysOf(rows) \union ({e.key} \ {NoKey})
  BY <1>1, Zenon DEF KeysOf
<1> QED
  BY <1>2, <1>3, <1>4

\* The latest balance is one of the balances the account had.
LEMMA LatestBalanceReal ==
    ASSUME NEW rows \in Seq(Entry)
    PROVE  LatestBalance(rows) \in BalancesOf(rows)
<1>1. CASE rows = <<>>
  BY <1>1 DEF LatestBalance, BalancesOf
<1>2. CASE rows # <<>>
  <2>1. Len(rows) \in DOMAIN rows
    BY <1>2, EmptySeq, LenProperties
  <2> QED
    BY <1>2, <2>1 DEF LatestBalance, BalancesOf
<1> QED
  BY <1>1, <1>2

\* The balance an operation leads to, and the row that records it, are well typed.
LEMMA NextBalanceType ==
    ASSUME NEW o \in Operation, NEW n \in Nat
    PROVE  /\ NextBalance(o, n) \in Nat
           /\ EntryOf(o, n) \in Entry
           /\ o.user \in User
  BY LedgerAssumption DEF NextBalance, Signed, Deducts, EntryOf, Entry, TypeOf, Kind
-----------------------------------------------------------------------------
\* Every request slot starts free and no row is locked.
LEMMA ControlInit == Init => ControlInv
  BY LedgerAssumption
     DEF Init, ControlInv, TypeOK, SlotInv, RowLockInv, BalLockInv, Phase, Mutating
\* The assumptions the control proofs need.
LEMMA OperationFacts ==
    /\ Nobody \notin Request
    /\ NoOp \notin Operation
    /\ \A o \in Operation :
          /\ o.user \in User
          /\ o.kind \in Kind
          /\ o.key \in Key \union {NoKey}
          /\ o.key = NoKey => o.kind = "adjust"
  BY LedgerAssumption

\* A rollback frees the slot and the locks of its request only.
LEMMA RollbackControl ==
    ASSUME ControlInv, NEW r \in Request, Rollback(r)
    PROVE  ControlInv'
<1> USE OperationFacts
<1>1. TypeOK'
  BY DEF ControlInv, TypeOK, Rollback, EndTransaction, Released, FreeSlot, db, Phase
<1>2. SlotInv'
  BY DEF ControlInv, TypeOK, SlotInv, Rollback, FreeSlot, Mutating
<1>3. RowLockInv'
  BY DEF ControlInv, TypeOK, SlotInv, RowLockInv, Rollback, EndTransaction,
         Released, FreeSlot, Mutating
<1>4. BalLockInv'
  BY DEF ControlInv, TypeOK, BalLockInv, Rollback, EndTransaction, Released, FreeSlot
<1> QED
  BY <1>1, <1>2, <1>3, <1>4 DEF ControlInv

\* What FlushBalance may do to the credit_balances locks.
LEMMA FlushBalanceLock ==
    ASSUME ControlInv, NEW r \in Request, NEW u \in User, NEW value,
           FlushBalance(r, u, value)
    PROVE  /\ balLock' \in [User -> Request \union {Nobody}]
           /\ \A v \in User : balLock'[v] # balLock[v] =>
                 /\ v = u
                 /\ balLock[v] = Nobody
                 /\ balLock'[v] = r
  BY DEF ControlInv, TypeOK, FlushBalance

\* Every step keeps ControlInv: one step of the proof per action.
LEMMA ControlStep == ControlInv /\ [Next]_vars => ControlInv'
<1> SUFFICES ASSUME ControlInv, [Next]_vars
             PROVE  ControlInv'
  OBVIOUS
<1> USE OperationFacts
<1>1. ASSUME NEW r \in Request, NEW o \in Operation, Begin(r, o)
      PROVE  ControlInv'
  <2>1. /\ o.user \in User
        /\ o.kind \in Kind
        /\ credits[o.user] \in Nat
    BY DEF ControlInv, TypeOK
  <2>2. TypeOK'
    BY <1>1, <2>1 DEF ControlInv, TypeOK, Begin, Goto, db, Phase
  <2>3. SlotInv'
    BY <1>1, <2>1 DEF ControlInv, TypeOK, SlotInv, Begin, Goto, Mutating, Kind
  <2>4. RowLockInv' /\ BalLockInv'
    BY <1>1 DEF ControlInv, TypeOK, RowLockInv, BalLockInv, Begin, Goto, Mutating
  <2> QED
    BY <2>2, <2>3, <2>4 DEF ControlInv
<1>2. ASSUME NEW r \in Request, Gate(r)
      PROVE  ControlInv'
  <2>1. CASE Rollback(r)
    BY <2>1, RollbackControl
  <2>2. CASE Goto(r, "check") /\ UNCHANGED <<db, rowLock, balLock, op, seen>>
    <3>1. TypeOK'
      BY <2>2 DEF ControlInv, TypeOK, Goto, db, Phase
    <3>2. SlotInv'
      BY <1>2, <2>2 DEF ControlInv, TypeOK, SlotInv, Gate, Goto, Mutating
    <3>3. RowLockInv' /\ BalLockInv'
      BY <1>2, <2>2 DEF ControlInv, TypeOK, RowLockInv, BalLockInv, Gate, Goto, Mutating
    <3> QED
      BY <3>1, <3>2, <3>3 DEF ControlInv
  <2> QED
    BY <1>2, <2>1, <2>2 DEF Gate
<1>3. ASSUME NEW r \in Request, CheckKey(r)
      PROVE  ControlInv'
  <2>1. CASE Rollback(r)
    BY <2>1, RollbackControl
  <2>2. CASE /\ \/ Goto(r, "lock")
                \/ op[r].kind = "charge" /\ Goto(r, "calling")
             /\ UNCHANGED <<db, rowLock, balLock, op, seen>>
    <3>1. TypeOK'
      BY <2>2 DEF ControlInv, TypeOK, Goto, db, Phase
    <3>2. SlotInv'
      BY <1>3, <2>2 DEF ControlInv, TypeOK, SlotInv, CheckKey, Goto, Mutating
    <3>3. RowLockInv'
      BY <1>3, <2>2 DEF ControlInv, TypeOK, RowLockInv, CheckKey, Goto, Mutating
    <3>4. BalLockInv'
      BY <1>3, <2>2 DEF ControlInv, TypeOK, BalLockInv, CheckKey, Goto
    <3> QED
      BY <3>1, <3>2, <3>3, <3>4 DEF ControlInv
  <2> QED
    BY <1>3, <2>1, <2>2 DEF CheckKey
<1>4. ASSUME NEW r \in Request, Lock(r)
      PROVE  ControlInv'
  <2>1. op[r].user \in User
    BY <1>4 DEF ControlInv, SlotInv, Lock
  <2>2. TypeOK'
    BY <1>4 DEF ControlInv, TypeOK, Lock, Goto, db, Phase
  <2>3. SlotInv'
    BY <1>4 DEF ControlInv, TypeOK, SlotInv, Lock, Goto, Mutating
  <2>4. RowLockInv'
    BY <1>4, <2>1 DEF ControlInv, TypeOK, SlotInv, RowLockInv, Lock, Goto, Mutating
  <2>5. BalLockInv'
    BY <1>4 DEF ControlInv, TypeOK, BalLockInv, Lock, Goto
  <2> QED
    BY <2>2, <2>3, <2>4, <2>5 DEF ControlInv
<1>5. ASSUME NEW r \in Request, Realign(r)
      PROVE  ControlInv'
  <2>1. /\ op[r].user \in User
        /\ Balance(op[r].user) \in Nat
    BY <1>5, LatestBalanceType DEF ControlInv, TypeOK, SlotInv, Realign, Balance
  <2>2. /\ balLock' \in [User -> Request \union {Nobody}]
        /\ \A v \in User : balLock'[v] # balLock[v] =>
              v = op[r].user /\ balLock[v] = Nobody /\ balLock'[v] = r
    BY <1>5, <2>1, FlushBalanceLock DEF Realign
  <2>3. TypeOK'
    BY <1>5, <2>1, <2>2 DEF ControlInv, TypeOK, Realign, Goto, db, Phase
  <2>4. SlotInv'
    BY <1>5 DEF ControlInv, TypeOK, SlotInv, Realign, Goto, Mutating
  <2>5. RowLockInv'
    BY <1>5 DEF ControlInv, TypeOK, RowLockInv, Realign, Goto, Mutating
  <2>6. BalLockInv'
    <3> SUFFICES ASSUME NEW v \in User, NEW q \in Request, balLock'[v] = q
                 PROVE  pc'[q] \in {"aligned", "staged", "recording"} /\ op'[q].user = v
      BY DEF BalLockInv
    <3>1. op' = op /\ pc' = [pc EXCEPT ![r] = pc'[r]] /\ pc'[r] \in {"aligned", "staged", "recording"}
      BY <1>5 DEF ControlInv, TypeOK, Realign, Goto
    <3>2. CASE balLock[v] = q
      BY <3>1, <3>2 DEF ControlInv, TypeOK, BalLockInv
    <3>3. CASE balLock[v] # q
      BY <2>2, <3>1, <3>3
    <3> QED
      BY <3>2, <3>3
  <2> QED
    BY <2>3, <2>4, <2>5, <2>6 DEF ControlInv
<1>6. ASSUME NEW r \in Request, Deny(r)
      PROVE  ControlInv'
  <2>1. op[r].user \in User
    BY <1>6 DEF ControlInv, SlotInv, Deny
  <2>2. TypeOK'
    <3>1. wsBalance' \in [User -> Nat] /\ credits' \in [User -> Nat]
      <4>1. \/ /\ credits' = [credits EXCEPT ![op[r].user] = seen[r]]
               /\ wsBalance' = CommittedBalance(r)
            \/ UNCHANGED <<credits, wsBalance>>
        BY <1>6 DEF Deny, db
      <4>2. CommittedBalance(r) \in [User -> Nat]
        BY DEF ControlInv, TypeOK, CommittedBalance
      <4> QED
        BY <2>1, <4>1, <4>2 DEF ControlInv, TypeOK
    <3>2. /\ rowLock' \in [User -> Request \union {Nobody}]
          /\ balLock' \in [User -> Request \union {Nobody}]
      BY <1>6 DEF ControlInv, TypeOK, Deny, EndTransaction, Released
    <3>3. UNCHANGED <<ledger, recorded>>
      BY <1>6 DEF Deny, db
    <3> QED
      BY <1>6, <3>1, <3>2, <3>3 DEF ControlInv, TypeOK, Deny, FreeSlot, Phase
  <2>3. SlotInv'
    BY <1>6 DEF ControlInv, TypeOK, SlotInv, Deny, FreeSlot, Mutating
  <2>4. RowLockInv'
    BY <1>6 DEF ControlInv, TypeOK, SlotInv, RowLockInv, Deny, EndTransaction, Released,
                FreeSlot, Mutating
  <2>5. BalLockInv'
    BY <1>6 DEF ControlInv, TypeOK, BalLockInv, Deny, EndTransaction, Released, FreeSlot
  <2> QED
    BY <2>2, <2>3, <2>4, <2>5 DEF ControlInv
<1>7. ASSUME NEW r \in Request, Stage(r)
      PROVE  ControlInv'
  <2>1. /\ op[r].user \in User
        /\ NextBalance(op[r], seen[r]) \in Nat
    BY <1>7, NextBalanceType DEF ControlInv, TypeOK, SlotInv, Stage
  <2>2. /\ balLock' \in [User -> Request \union {Nobody}]
        /\ \A v \in User : balLock'[v] # balLock[v] =>
              v = op[r].user /\ balLock[v] = Nobody /\ balLock'[v] = r
    BY <1>7, <2>1, FlushBalanceLock DEF Stage
  <2>3. TypeOK'
    BY <1>7, <2>1, <2>2 DEF ControlInv, TypeOK, Stage, Goto, db, Phase
  <2>4. SlotInv'
    BY <1>7 DEF ControlInv, TypeOK, SlotInv, Stage, Goto, Mutating
  <2>5. RowLockInv'
    BY <1>7 DEF ControlInv, TypeOK, RowLockInv, Stage, Goto, Mutating
  <2>6. BalLockInv'
    <3> SUFFICES ASSUME NEW v \in User, NEW q \in Request, balLock'[v] = q
                 PROVE  pc'[q] \in {"aligned", "staged", "recording"} /\ op'[q].user = v
      BY DEF BalLockInv
    <3>1. op' = op /\ pc' = [pc EXCEPT ![r] = pc'[r]] /\ pc'[r] \in {"aligned", "staged", "recording"}
      BY <1>7 DEF ControlInv, TypeOK, Stage, Goto
    <3>2. CASE balLock[v] = q
      BY <3>1, <3>2 DEF ControlInv, TypeOK, BalLockInv
    <3>3. CASE balLock[v] # q
      BY <2>2, <3>1, <3>3
    <3> QED
      BY <3>2, <3>3
  <2> QED
    BY <2>3, <2>4, <2>5, <2>6 DEF ControlInv
<1>8. ASSUME NEW r \in Request, Commit(r)
      PROVE  ControlInv'
  <2> DEFINE u == op[r].user
  <2>1. /\ op[r] \in Operation
        /\ u \in User
        /\ seen[r] \in Nat
        /\ EntryOf(op[r], seen[r]) \in Entry
    BY <1>8, NextBalanceType DEF ControlInv, TypeOK, SlotInv, Commit
  <2>2. Append(ledger[u], EntryOf(op[r], seen[r])) \in Seq(Entry)
    BY <2>1, AppendRow DEF ControlInv, TypeOK
  <2>3. ledger' \in [User -> Seq(Entry)]
    BY <1>8, <2>1, <2>2 DEF ControlInv, TypeOK, Commit
  <2>4. TypeOK'
    <3>1. wsBalance' \in [User -> Nat]
      BY <1>8, <2>1 DEF ControlInv, TypeOK, Commit, CommittedBalance
    <3>2. /\ rowLock' \in [User -> Request \union {Nobody}]
          /\ balLock' \in [User -> Request \union {Nobody}]
      BY <1>8 DEF ControlInv, TypeOK, Commit, EndTransaction, Released
    <3>3. credits' \in [User -> Nat]
      BY <1>8, <2>1 DEF ControlInv, TypeOK, Commit
    <3>4. /\ pc' \in [Request -> Phase]
          /\ op' \in [Request -> Operation \union {NoOp}]
          /\ seen' \in [Request -> Nat]
          /\ recorded' \subseteq Key
      <4>1. /\ \/ Goto(r, "calling") /\ UNCHANGED <<op, seen>>
               \/ FreeSlot(r)
            /\ UNCHANGED recorded
        BY <1>8 DEF Commit
      <4>2. CASE Goto(r, "calling") /\ UNCHANGED <<op, seen>>
        BY <4>1, <4>2 DEF ControlInv, TypeOK, Goto, Phase
      <4>3. CASE FreeSlot(r)
        BY <4>1, <4>3 DEF ControlInv, TypeOK, FreeSlot, Phase
      <4> QED
        BY <4>1, <4>2, <4>3
    <3> QED
      BY <2>3, <3>1, <3>2, <3>3, <3>4 DEF TypeOK
  <2>5. SlotInv'
    BY <1>8 DEF ControlInv, TypeOK, SlotInv, Commit, FreeSlot, Goto, Mutating
  <2>6. RowLockInv'
    <3> SUFFICES ASSUME NEW q \in Request, pc'[q] \in Mutating
                 PROVE  rowLock'[op'[q].user] = q
      BY DEF RowLockInv
    <3>1. q # r /\ pc'[q] = pc[q] /\ op'[q] = op[q]
      <4>1. \/ Goto(r, "calling") /\ UNCHANGED op
            \/ FreeSlot(r)
        BY <1>8 DEF Commit
      <4> QED
        BY <4>1 DEF ControlInv, TypeOK, FreeSlot, Goto, Mutating
    <3>2. rowLock[op[q].user] = q /\ op[q].user \in User
      BY <3>1 DEF ControlInv, SlotInv, RowLockInv, Mutating
    <3> QED
      BY <1>8, <3>1, <3>2 DEF Commit, EndTransaction, Released
  <2>7. BalLockInv'
    BY <1>8 DEF ControlInv, TypeOK, BalLockInv, Commit, EndTransaction, Released, FreeSlot,
                Goto
  <2> QED
    BY <2>4, <2>5, <2>6, <2>7 DEF ControlInv
<1>9. ASSUME NEW r \in Request, RecordProjection(r)
      PROVE  ControlInv'
  <2>1. op[r].user \in User
    BY <1>9 DEF ControlInv, SlotInv, RecordProjection
  <2>2. /\ balLock' \in [User -> Request \union {Nobody}]
        /\ \A v \in User : balLock'[v] # balLock[v] =>
              v = op[r].user /\ balLock[v] = Nobody /\ balLock'[v] = r
    BY <1>9, <2>1, FlushBalanceLock DEF RecordProjection
  <2>3. TypeOK'
    BY <1>9, <2>2 DEF ControlInv, TypeOK, RecordProjection, Goto, db, Phase
  <2>4. SlotInv'
    BY <1>9 DEF ControlInv, TypeOK, SlotInv, RecordProjection, Goto, Mutating
  <2>5. RowLockInv'
    BY <1>9 DEF ControlInv, TypeOK, RowLockInv, RecordProjection, Goto, Mutating
  <2>6. BalLockInv'
    <3> SUFFICES ASSUME NEW v \in User, NEW q \in Request, balLock'[v] = q
                 PROVE  pc'[q] \in {"aligned", "staged", "recording"} /\ op'[q].user = v
      BY DEF BalLockInv
    <3>1. op' = op /\ pc' = [pc EXCEPT ![r] = pc'[r]] /\ pc'[r] \in {"aligned", "staged", "recording"}
      BY <1>9 DEF ControlInv, TypeOK, RecordProjection, Goto
    <3>2. CASE balLock[v] = q
      BY <3>1, <3>2 DEF ControlInv, TypeOK, BalLockInv
    <3>3. CASE balLock[v] # q
      BY <2>2, <3>1, <3>3
    <3> QED
      BY <3>2, <3>3
  <2> QED
    BY <2>3, <2>4, <2>5, <2>6 DEF ControlInv
<1>10. ASSUME NEW r \in Request, RecordUsage(r)
       PROVE  ControlInv'
  <2>1. CASE Rollback(r)
    BY <2>1, RollbackControl
  <2>2. CASE /\ recorded' = recorded \union {op[r].key}
             /\ wsBalance' = CommittedBalance(r)
             /\ EndTransaction(r)
             /\ FreeSlot(r)
             /\ UNCHANGED <<ledger, credits>>
    <3>1. op[r].key \in Key
      BY <1>10 DEF ControlInv, SlotInv, RecordUsage
    <3>2. TypeOK'
      BY <2>2, <3>1
         DEF ControlInv, TypeOK, EndTransaction, Released, FreeSlot, CommittedBalance, Phase
    <3>3. SlotInv'
      BY <2>2 DEF ControlInv, TypeOK, SlotInv, FreeSlot, Mutating
    <3>4. RowLockInv'
      BY <2>2 DEF ControlInv, TypeOK, SlotInv, RowLockInv, EndTransaction, Released,
                  FreeSlot, Mutating
    <3>5. BalLockInv'
      BY <2>2 DEF ControlInv, TypeOK, BalLockInv, EndTransaction, Released, FreeSlot
    <3> QED
      BY <3>2, <3>3, <3>4, <3>5 DEF ControlInv
  <2> QED
    BY <1>10, <2>1, <2>2 DEF RecordUsage
<1>11. ASSUME NEW r \in Request, Rollback(r)
       PROVE  ControlInv'
  BY <1>11, RollbackControl
<1>12. ASSUME UNCHANGED vars
       PROVE  ControlInv'
  BY <1>12 DEF vars, ControlInv, TypeOK, SlotInv, RowLockInv, BalLockInv
<1> QED
  <2>1. ASSUME NEW r \in Request, Step(r)
        PROVE  ControlInv'
    BY <2>1, <1>2, <1>3, <1>4, <1>5, <1>6, <1>7, <1>8, <1>9, <1>10, <1>11
       DEF Step, RejectDuplicate
  <2>2. ASSUME NEW r \in Request, NEW q \in Request, BreakDeadlock(r, q)
        PROVE  ControlInv'
    BY <2>2, <1>11 DEF BreakDeadlock
  <2> QED
    BY <1>1, <2>1, <2>2, <1>11, <1>12 DEF Next, Abort

\* Typing and lock ownership hold in every state.
THEOREM ControlInvariant == Spec => []ControlInv
  BY ControlInit, ControlStep, PTL DEF Spec
-----------------------------------------------------------------------------
\* What a request read under the row lock is still true: its session holds the
\* ledger's balance until it stages, the balance it will write from then on, and in
\* every other phase some balance the account really had.
RequestInv(r) ==
    LET u == op[r].user
    IN  /\ pc[r] = "aligned" => seen[r] = Balance(u)
        /\ pc[r] = "staged" => /\ Covers(op[r], Balance(u))
                               /\ seen[r] = NextBalance(op[r], Balance(u))
                               /\ op[r].key \notin UsedKeys
        /\ pc[r] \notin {"idle", "staged"} => seen[r] \in BalancesOf(ledger[u])

\* A request that reaches the model over the limit has its deduction in the ledger.
Paid(r) ==
    \E i \in DOMAIN ledger[op[r].user] :
        /\ ledger[op[r].user][i].key = op[r].key
        /\ ledger[op[r].user][i].type = "deduction"

\* Two open inserts never carry the same key.
StagedApart ==
    \A r, q \in Request :
        pc[r] = "staged" /\ pc[q] = "staged" /\ op[r].key = op[q].key
            /\ op[r].key # NoKey => r = q

\* Every ledger row was asked for: a row under the key of a charge is its deduction.
RowsOfOperations ==
    \A u \in User : \A i \in DOMAIN ledger[u] :
        \E o \in Operation :
            /\ o.user = u
            /\ o.key = ledger[u][i].key
            /\ o.kind # "serve"
            /\ ledger[u][i].type = TypeOf(o)

DataInv ==
    /\ \A r \in Request : RequestInv(r)
    /\ StagedApart
    /\ RowsOfOperations
    /\ LedgerChain
    /\ KeyPostedOnce
    /\ CreditsFollowLedger
    /\ WorkspaceBalanceWasReal
    /\ AllowedIsPaid

\* The empty ledger and the zero projections agree.
LEMMA DataInit == Init => DataInv
<1> SUFFICES ASSUME Init PROVE DataInv
  OBVIOUS
<1>1. \A u \in User : ledger[u] = <<>> /\ Balance(u) = 0 /\ DOMAIN ledger[u] = {}
  BY DEF Init, Balance, LatestBalance
<1>2. WorkspaceBalanceWasReal
  BY <1>1 DEF Init, WorkspaceBalanceWasReal, BalancesOf
<1>3. (\A r \in Request : RequestInv(r)) /\ StagedApart
  BY DEF Init, RequestInv, StagedApart
<1>4. LedgerChain /\ KeyPostedOnce /\ RowsOfOperations
  BY <1>1 DEF LedgerChain, KeyPostedOnce, RowsOfOperations
<1>5. CreditsFollowLedger /\ AllowedIsPaid
  BY <1>1 DEF Init, CreditsFollowLedger, AllowedIsPaid
<1> QED
  BY <1>2, <1>3, <1>4, <1>5 DEF DataInv

\* A step of r that leaves the ledger alone keeps DataInv if r's new state and the
\* projections it commits fit the ledger.
LEMMA QuietStep ==
    ASSUME DataInv, NEW r \in Request,
           UNCHANGED ledger,
           UNCHANGED credits,
           \A q \in Request \ {r} : /\ pc'[q] = pc[q]
                                    /\ op'[q] = op[q]
                                    /\ seen'[q] = seen[q],
           \A u \in User : wsBalance'[u] \in BalancesOf(ledger[u]),
           RequestInv(r)',
           pc'[r] = "staged" => ~ InsertPending(op'[r].key) /\ pc[r] # "staged",
           (pc[r] \in {"calling", "recording"} /\ op[r].kind = "charge" => Paid(r))'
    PROVE  DataInv'
<1>1. (\A u \in User : Balance(u)' = Balance(u)) /\ UsedKeys' = UsedKeys
  BY DEF Balance, UsedKeys
<1>2. ASSUME NEW q \in Request PROVE RequestInv(q)'
  <2>1. CASE q = r
    BY <2>1
  <2>2. CASE q # r
    BY <1>1, <2>2 DEF DataInv, RequestInv, Balance, UsedKeys
  <2> QED
    BY <2>1, <2>2
<1>3. StagedApart'
  BY DEF DataInv, StagedApart, InsertPending
<1>4. (LedgerChain /\ KeyPostedOnce /\ RowsOfOperations)'
  BY DEF DataInv, LedgerChain, KeyPostedOnce, RowsOfOperations
<1>5. CreditsFollowLedger'
  BY <1>1 DEF DataInv, CreditsFollowLedger
<1>6. WorkspaceBalanceWasReal'
  BY DEF WorkspaceBalanceWasReal
<1>7. AllowedIsPaid'
  <2> SUFFICES ASSUME NEW q \in Request,
                      (pc[q] \in {"calling", "recording"} /\ op[q].kind = "charge")'
               PROVE  Paid(q)'
    BY DEF AllowedIsPaid, Paid
  <2>1. CASE q = r
    BY <2>1
  <2>2. CASE q # r
    BY <2>2 DEF DataInv, AllowedIsPaid, Paid
  <2> QED
    BY <2>1, <2>2
<1> QED
  BY <1>2, <1>3, <1>4, <1>5, <1>6, <1>7 DEF DataInv

\* A rollback touches no committed data, and the request it ends owes none.
LEMMA RollbackData ==
    ASSUME ControlInv, DataInv, NEW r \in Request, Rollback(r)
    PROVE  DataInv'
<1>1. /\ UNCHANGED ledger
      /\ UNCHANGED credits
      /\ \A u \in User : wsBalance'[u] \in BalancesOf(ledger[u])
  BY DEF Rollback, db, DataInv, WorkspaceBalanceWasReal
<1>2. /\ \A q \in Request \ {r} : pc'[q] = pc[q] /\ op'[q] = op[q] /\ seen'[q] = seen[q]
      /\ pc'[r] = "idle"
  BY DEF Rollback, FreeSlot, ControlInv, TypeOK
<1>3. RequestInv(r)'
  BY <1>2 DEF RequestInv
<1> QED
  BY <1>1, <1>2, <1>3, QuietStep

\* A commit that writes no ledger row leaves a balance the account had.
LEMMA CommittedIsReal ==
    ASSUME ControlInv, DataInv, NEW r \in Request, pc[r] \notin {"idle", "staged"}
    PROVE  \A u \in User : CommittedBalance(r)[u] \in BalancesOf(ledger[u])
<1> SUFFICES ASSUME NEW u \in User
             PROVE  CommittedBalance(r)[u] \in BalancesOf(ledger[u])
  OBVIOUS
<1>1. CASE balLock[u] = r
  <2>1. op[r].user = u
    BY <1>1 DEF ControlInv, BalLockInv
  <2>2. seen[r] \in BalancesOf(ledger[u])
    BY <2>1 DEF DataInv, RequestInv
  <2> QED
    BY <1>1, <2>2 DEF CommittedBalance
<1>2. CASE balLock[u] # r
  BY <1>2 DEF CommittedBalance, DataInv, WorkspaceBalanceWasReal
<1> QED
  BY <1>1, <1>2

\* Every step but a commit keeps DataInv by QuietStep.
LEMMA DataStepBegin ==
    ASSUME ControlInv, DataInv, NEW r \in Request, NEW o \in Operation, Begin(r, o)
    PROVE  DataInv'
<1>1. o.user \in User /\ o.kind \in Kind
  BY OperationFacts
<1>2. /\ UNCHANGED ledger
      /\ UNCHANGED credits
      /\ \A u \in User : wsBalance'[u] \in BalancesOf(ledger[u])
  BY DEF Begin, db, DataInv, WorkspaceBalanceWasReal
<1>3. /\ \A q \in Request \ {r} : pc'[q] = pc[q] /\ op'[q] = op[q] /\ seen'[q] = seen[q]
      /\ op'[r] = o
      /\ seen'[r] = credits[o.user]
      /\ pc'[r] \in {"gate", "calling", "check"}
      /\ pc'[r] = "calling" => o.kind = "serve"
  BY <1>1 DEF Begin, Goto, ControlInv, TypeOK, Kind
<1>4. seen'[r] \in BalancesOf(ledger[o.user])
  <2>1. seen'[r] = LatestBalance(ledger[o.user])
    BY <1>1, <1>3 DEF DataInv, CreditsFollowLedger, Balance
  <2>2. ledger[o.user] \in Seq(Entry)
    BY <1>1 DEF ControlInv, TypeOK
  <2> QED
    BY <2>1, <2>2, LatestBalanceReal
<1>5. RequestInv(r)'
  BY <1>2, <1>3, <1>4 DEF RequestInv
<1> QED
  BY <1>2, <1>3, <1>5, QuietStep

\* The steps before the realignment leave the data alone: Gate, CheckKey, Lock.
LEMMA DataStepEarly ==
    ASSUME ControlInv, DataInv, NEW r \in Request,
           Gate(r) \/ CheckKey(r) \/ Lock(r)
    PROVE  DataInv'
<1>1. CASE Rollback(r)
  BY <1>1, RollbackData
<1>2. CASE ~ Rollback(r)
  <2>1. /\ UNCHANGED <<db, op, seen>>
        /\ pc[r] \in {"gate", "check", "lock"}
        /\ \/ Goto(r, "check")
           \/ Goto(r, "lock")
           \/ Goto(r, "locked")
           \/ Goto(r, "calling") /\ op[r].key \in UsedKeys
    BY <1>2 DEF Gate, CheckKey, Lock
  <2>2. /\ UNCHANGED ledger
        /\ UNCHANGED credits
        /\ \A u \in User : wsBalance'[u] \in BalancesOf(ledger[u])
    BY <2>1 DEF db, DataInv, WorkspaceBalanceWasReal
  <2>3. /\ \A q \in Request \ {r} : pc'[q] = pc[q] /\ op'[q] = op[q] /\ seen'[q] = seen[q]
        /\ op'[r] = op[r]
        /\ seen'[r] = seen[r]
        /\ pc'[r] \in {"check", "lock", "locked", "calling"}
        /\ pc'[r] = "calling" => op[r].key \in UsedKeys
    BY <2>1 DEF Goto, ControlInv, TypeOK
  <2>4. RequestInv(r)'
    BY <2>1, <2>2, <2>3 DEF RequestInv, DataInv
  <2>5. (pc[r] \in {"calling", "recording"} /\ op[r].kind = "charge" => Paid(r))'
    <3> SUFFICES ASSUME op[r].key \in UsedKeys, op[r].kind = "charge"
                 PROVE  Paid(r)
      BY <2>2, <2>3 DEF Paid
    <3>1. op[r] \in Operation
      BY <2>1 DEF ControlInv, SlotInv
    <3>2. PICK u \in User : \E i \in DOMAIN ledger[u] : ledger[u][i].key = op[r].key
      BY DEF UsedKeys, KeysOf
    <3>3. PICK i \in DOMAIN ledger[u] : ledger[u][i].key = op[r].key
      BY <3>2
    <3>4. PICK o \in Operation : /\ o.user = u
                                 /\ o.key = ledger[u][i].key
                                 /\ o.kind # "serve"
                                 /\ ledger[u][i].type = TypeOf(o)
      BY <3>3 DEF DataInv, RowsOfOperations
    <3>5. o.user = op[r].user /\ o.kind = "charge"
      BY <3>1, <3>3, <3>4, LedgerAssumption
    <3>6. ledger[u][i].type = "deduction"
      BY <3>4, <3>5 DEF TypeOf, Deducts
    <3> QED
      BY <3>3, <3>4, <3>5, <3>6 DEF Paid
  <2> QED
    BY <2>2, <2>3, <2>4, <2>5, QuietStep
<1> QED
  BY <1>1, <1>2

\* Realign reads the ledger balance into the session, under the users row lock.
LEMMA DataStepRealign ==
    ASSUME ControlInv, DataInv, NEW r \in Request, Realign(r)
    PROVE  DataInv'
<1>1. op[r].user \in User
  BY OperationFacts DEF Realign, ControlInv, SlotInv
<1>2. /\ UNCHANGED ledger
      /\ UNCHANGED credits
      /\ \A u \in User : wsBalance'[u] \in BalancesOf(ledger[u])
  BY DEF Realign, db, DataInv, WorkspaceBalanceWasReal
<1>3. /\ \A q \in Request \ {r} : pc'[q] = pc[q] /\ op'[q] = op[q] /\ seen'[q] = seen[q]
      /\ op'[r] = op[r]
      /\ seen'[r] = Balance(op[r].user)
      /\ pc'[r] = "aligned"
  BY DEF Realign, Goto, ControlInv, TypeOK
<1>4. seen'[r] \in BalancesOf(ledger[op[r].user])
  BY <1>1, <1>3, LatestBalanceReal DEF ControlInv, TypeOK, Balance
<1>5. RequestInv(r)'
  BY <1>2, <1>3, <1>4 DEF RequestInv, Balance
<1> QED
  BY <1>2, <1>3, <1>5, QuietStep

\* Stage computes the next balance in the session; the key is still unused.
LEMMA DataStepStage ==
    ASSUME ControlInv, DataInv, NEW r \in Request, Stage(r)
    PROVE  DataInv'
<1>1. /\ UNCHANGED ledger
      /\ UNCHANGED credits
      /\ \A u \in User : wsBalance'[u] \in BalancesOf(ledger[u])
  BY DEF Stage, db, DataInv, WorkspaceBalanceWasReal
<1>2. seen[r] = Balance(op[r].user)
  BY DEF Stage, DataInv, RequestInv
<1>3. /\ \A q \in Request \ {r} : pc'[q] = pc[q] /\ op'[q] = op[q] /\ seen'[q] = seen[q]
      /\ op'[r] = op[r]
      /\ seen'[r] = NextBalance(op[r], seen[r])
      /\ pc'[r] = "staged"
      /\ pc[r] = "aligned"
      /\ ~ InsertPending(op[r].key)
      /\ Covers(op[r], seen[r])
      /\ op[r].key \notin UsedKeys
  BY DEF Stage, Goto, ControlInv, TypeOK
<1>4. RequestInv(r)'
  BY <1>1, <1>2, <1>3 DEF RequestInv, Balance, UsedKeys
<1> QED
  BY <1>1, <1>3, <1>4, QuietStep

\* RecordProjection flushes the balance the session still holds, a real one.
LEMMA DataStepRecordProjection ==
    ASSUME ControlInv, DataInv, NEW r \in Request, RecordProjection(r)
    PROVE  DataInv'
<1>1. /\ UNCHANGED ledger
      /\ UNCHANGED credits
      /\ \A u \in User : wsBalance'[u] \in BalancesOf(ledger[u])
  BY DEF RecordProjection, db, DataInv, WorkspaceBalanceWasReal
<1>2. /\ \A q \in Request \ {r} : pc'[q] = pc[q] /\ op'[q] = op[q] /\ seen'[q] = seen[q]
      /\ op'[r] = op[r]
      /\ seen'[r] = seen[r]
      /\ pc'[r] = "recording"
      /\ pc[r] = "calling"
  BY DEF RecordProjection, Goto, ControlInv, TypeOK
<1>3. RequestInv(r)'
  BY <1>1, <1>2 DEF RequestInv, DataInv
<1>4. (pc[r] \in {"calling", "recording"} /\ op[r].kind = "charge" => Paid(r))'
  BY <1>1, <1>2 DEF DataInv, AllowedIsPaid, Paid
<1> QED
  BY <1>1, <1>2, <1>3, <1>4, QuietStep

\* The steps that may commit projections without a ledger row: a refusal, which keeps
\* the realigned ones, and the end of record_usage.
LEMMA DataStepClose ==
    ASSUME ControlInv, DataInv, NEW r \in Request, Deny(r) \/ RecordUsage(r)
    PROVE  DataInv'
<1>1. CASE Rollback(r)
  BY <1>1, RollbackData
<1>2. CASE ~ Rollback(r)
  <2>1. /\ UNCHANGED ledger
        /\ FreeSlot(r)
        /\ pc[r] \in {"aligned", "recording"}
        /\ wsBalance' = wsBalance \/ wsBalance' = CommittedBalance(r)
        /\ \/ UNCHANGED credits
           \/ /\ pc[r] = "aligned"
              /\ credits' = [credits EXCEPT ![op[r].user] = seen[r]]
    BY <1>2 DEF Deny, RecordUsage, db
  <2>2. \A u \in User : wsBalance'[u] \in BalancesOf(ledger[u])
    BY <2>1, CommittedIsReal DEF DataInv, WorkspaceBalanceWasReal
  <2>3. UNCHANGED credits
    BY <2>1 DEF ControlInv, TypeOK, DataInv, RequestInv, CreditsFollowLedger
  <2>4. /\ \A q \in Request \ {r} : pc'[q] = pc[q] /\ op'[q] = op[q] /\ seen'[q] = seen[q]
        /\ pc'[r] = "idle"
    BY <2>1 DEF FreeSlot, ControlInv, TypeOK
  <2>5. RequestInv(r)'
    BY <2>4 DEF RequestInv
  <2> QED
    BY <2>1, <2>2, <2>3, <2>4, <2>5, QuietStep
<1> QED
  BY <1>1, <1>2

\* The only step that writes a ledger row.
LEMMA DataStepCommit ==
    ASSUME ControlInv, DataInv, NEW r \in Request, Commit(r)
    PROVE  DataInv'
<1>0. op[r] \in Operation /\ op[r].user \in User /\ op[r].kind # "serve"
  BY OperationFacts DEF Commit, ControlInv, SlotInv, Mutating
<1> SUFFICES ASSUME NEW u \in User, u = op[r].user
             PROVE  DataInv'
  BY <1>0
<1> DEFINE e == EntryOf(op[r], seen[r])
           rows == ledger[u]
<1>1. /\ op[r] \in Operation
      /\ op[r].kind # "serve"
      /\ seen[r] \in Nat
      /\ rows \in Seq(Entry)
      /\ e \in Entry
  BY <1>0, NextBalanceType DEF ControlInv, TypeOK
<1>2. /\ Covers(op[r], Balance(u))
      /\ seen[r] = NextBalance(op[r], Balance(u))
      /\ op[r].key \notin UsedKeys
  BY DEF Commit, DataInv, RequestInv
<1>3. /\ ledger' = [ledger EXCEPT ![u] = Append(rows, e)]
      /\ ledger'[u] = Append(rows, e)
      /\ \A v \in User \ {u} : ledger'[v] = ledger[v]
  BY <1>1 DEF Commit, ControlInv, TypeOK
<1>4. /\ LatestBalance(Append(rows, e)) = seen[r]
      /\ BalancesOf(rows) \subseteq BalancesOf(Append(rows, e))
      /\ seen[r] \in BalancesOf(Append(rows, e))
      /\ KeysOf(Append(rows, e)) = KeysOf(rows) \union ({op[r].key} \ {NoKey})
  <2>1. e.after = seen[r] /\ e.key = op[r].key
    BY DEF EntryOf
  <2> QED
    BY <1>1, <2>1, AppendBalance
<1>5. /\ Len(rows) \in Nat
      /\ DOMAIN rows = 1 .. Len(rows)
      /\ DOMAIN ledger'[u] = DOMAIN rows \union {Len(rows) + 1}
      /\ \A i \in DOMAIN rows : ledger'[u][i] = rows[i]
      /\ ledger'[u][Len(rows) + 1] = e
  BY <1>1, <1>3, AppendRow
<1>6. /\ Balance(u)' = seen[r]
      /\ \A v \in User \ {u} : Balance(v)' = Balance(v)
      /\ \A v \in User : BalancesOf(ledger[v]) \subseteq BalancesOf(ledger'[v])
  <2>1. Balance(u)' = LatestBalance(ledger'[u])
    BY DEF Balance, LatestBalance
  <2>2. \A v \in User \ {u} : Balance(v)' = LatestBalance(ledger'[v])
    BY DEF Balance, LatestBalance
  <2> QED
    BY <1>3, <1>4, <2>1, <2>2 DEF Balance
<1>7. UsedKeys' \subseteq UsedKeys \union ({op[r].key} \ {NoKey})
  <2>1. \A v \in User : KeysOf(ledger'[v]) \subseteq
                            KeysOf(ledger[v]) \union ({op[r].key} \ {NoKey})
    BY <1>3, <1>4
  <2>2. UsedKeys = UNION {KeysOf(ledger[v]) : v \in User}
    BY DEF UsedKeys
  <2>3. UsedKeys' = UNION {KeysOf(ledger'[v]) : v \in User}
    BY DEF UsedKeys, KeysOf
  <2> HIDE DEF KeysOf
  <2> QED
    BY <2>1, <2>2, <2>3
<1>8. /\ \A q \in Request \ {r} : pc'[q] = pc[q] /\ op'[q] = op[q] /\ seen'[q] = seen[q]
      /\ pc[r] = "staged"
      /\ \/ pc'[r] = "idle"
         \/ /\ pc'[r] = "calling"
            /\ op[r].kind = "charge"
            /\ op'[r] = op[r]
            /\ seen'[r] = seen[r]
  <2>1. /\ pc[r] = "staged"
        /\ \/ Goto(r, "calling") /\ op[r].kind = "charge" /\ UNCHANGED <<op, seen>>
           \/ FreeSlot(r)
    BY DEF Commit
  <2>2. CASE Goto(r, "calling") /\ op[r].kind = "charge" /\ UNCHANGED <<op, seen>>
    BY <2>1, <2>2 DEF Goto, ControlInv, TypeOK
  <2>3. CASE FreeSlot(r)
    BY <2>1, <2>3 DEF FreeSlot, ControlInv, TypeOK
  <2> QED
    BY <2>1, <2>2, <2>3
<1>9. ASSUME NEW q \in Request
      PROVE  RequestInv(q)'
  <2>1. CASE q = r
    BY <1>3, <1>4, <1>8, <2>1 DEF RequestInv
  <2>2. CASE q # r
    <3>1. pc'[q] = pc[q] /\ op'[q] = op[q] /\ seen'[q] = seen[q]
      BY <1>8, <2>2
    <3>2. pc[q] # "idle" => op[q].user \in User
      BY OperationFacts DEF ControlInv, SlotInv
    <3>3. pc[q] \in Mutating => op[q].user # u
      BY <1>8, <2>2 DEF ControlInv, RowLockInv, Mutating
    <3>4. pc[q] = "staged" => op[q].key \notin UsedKeys'
      BY <1>7, <1>8, <2>2 DEF DataInv, RequestInv, StagedApart
    <3>5. pc[q] \in {"aligned", "staged"} => Balance(op[q].user)' = Balance(op[q].user)
      <4> SUFFICES ASSUME pc[q] \in {"aligned", "staged"}
                   PROVE  Balance(op[q].user)' = Balance(op[q].user)
        OBVIOUS
      <4>1. op[q].user \in User \ {u}
        BY <3>2, <3>3 DEF Mutating
      <4> QED
        BY <1>6, <3>1, <4>1 DEF Balance
    <3>6. pc[q] \notin {"idle", "staged"} => seen[q] \in BalancesOf(ledger'[op[q].user])
      BY <1>6, <3>2 DEF DataInv, RequestInv
    <3>7. (pc[q] = "aligned" => seen[q] = Balance(op[q].user))'
      BY <3>1, <3>5 DEF DataInv, RequestInv
    <3>8. (pc[q] = "staged" => /\ Covers(op[q], Balance(op[q].user))
                               /\ seen[q] = NextBalance(op[q], Balance(op[q].user))
                               /\ op[q].key \notin UsedKeys)'
      <4>1. pc[q] = "staged" => /\ Covers(op[q], Balance(op[q].user))
                                /\ seen[q] = NextBalance(op[q], Balance(op[q].user))
        BY DEF DataInv, RequestInv
      <4> QED
        BY <3>1, <3>4, <3>5, <4>1
    <3> QED
      BY <3>1, <3>6, <3>7, <3>8 DEF RequestInv
  <2> QED
    BY <2>1, <2>2
<1>10. StagedApart'
  BY <1>8 DEF DataInv, StagedApart
<1>11. RowsOfOperations'
  <2> SUFFICES ASSUME NEW v \in User, NEW i \in DOMAIN ledger'[v]
               PROVE  \E o \in Operation : /\ o.user = v
                                           /\ o.key = ledger'[v][i].key
                                           /\ o.kind # "serve"
                                           /\ ledger'[v][i].type = TypeOf(o)
    BY DEF RowsOfOperations
  <2>1. CASE v = u /\ i = Len(rows) + 1
    <3>1. ledger'[v][i] = e
      BY <1>5, <2>1
    <3>2. e.key = op[r].key /\ e.type = TypeOf(op[r])
      BY DEF EntryOf
    <3> QED
      BY <1>1, <2>1, <3>1, <3>2
  <2>2. CASE ~ (v = u /\ i = Len(rows) + 1)
    <3>1. i \in DOMAIN ledger[v] /\ ledger'[v][i] = ledger[v][i]
      BY <1>3, <1>5, <2>2
    <3> QED
      BY <3>1 DEF DataInv, RowsOfOperations
  <2> QED
    BY <2>1, <2>2
<1>12. LedgerChain'
  <2> DEFINE Chained(row, prev) ==
               IF row.type = "adjustment"
               THEN row.after = IF prev + row.amount < 0 THEN 0 ELSE prev + row.amount
               ELSE row.after = prev + row.amount
             Prev(s, i) == IF i = 1 THEN 0 ELSE s[i - 1].after
  <2> SUFFICES ASSUME NEW v \in User, NEW i \in DOMAIN ledger'[v]
               PROVE  Chained(ledger'[v][i], Prev(ledger'[v], i))
    BY DEF LedgerChain
  <2>1. CASE v = u /\ i = Len(rows) + 1
    <3>1. ledger'[v][i] = e
      BY <1>5, <2>1
    <3>2. Prev(ledger'[v], i) = Balance(u)
      <4>1. CASE rows = <<>>
        BY <1>5, <2>1, <4>1 DEF Balance, LatestBalance
      <4>2. CASE rows # <<>>
        <5>1. Len(rows) \in 1 .. Len(rows) /\ i - 1 = Len(rows) /\ i # 1
          BY <1>1, <1>5, <2>1, <4>2, EmptySeq
        <5>2. ledger'[v][i - 1] = rows[Len(rows)]
          BY <1>5, <2>1, <5>1
        <5> QED
          BY <4>2, <5>1, <5>2 DEF Balance, LatestBalance
      <4> QED
        BY <4>1, <4>2
    <3>3. Chained(e, Balance(u))
      <4>1. Balance(u) \in Nat /\ op[r].amount \in Int /\ op[r].kind \in Kind
        BY <1>1, LatestBalanceType, LedgerAssumption DEF Balance
      <4>2. op[r].kind = "purchase" => op[r].amount > 0
        BY <1>1, LedgerAssumption
      <4>3. /\ e.after = seen[r]
            /\ e.amount = Signed(op[r])
            /\ e.type = TypeOf(op[r])
        BY DEF EntryOf
      <4>4. seen[r] = IF Balance(u) + Signed(op[r]) < 0 THEN 0
                      ELSE Balance(u) + Signed(op[r])
        BY <1>2 DEF NextBalance
      <4>5. TypeOf(op[r]) # "adjustment" => ~ (Balance(u) + Signed(op[r]) < 0)
        BY <1>2, <4>1, <4>2 DEF TypeOf, Deducts, Covers, Signed, Kind
      <4> QED
        BY <4>3, <4>4, <4>5
    <3> QED
      BY <3>1, <3>2, <3>3
  <2>2. CASE ~ (v = u /\ i = Len(rows) + 1)
    <3>1. i \in DOMAIN ledger[v] /\ ledger'[v][i] = ledger[v][i]
      BY <1>3, <1>5, <2>2
    <3>2. Prev(ledger'[v], i) = Prev(ledger[v], i)
      <4>1. CASE v # u
        BY <1>3, <4>1
      <4>2. CASE v = u
        BY <1>5, <3>1, <4>2
      <4> QED
        BY <4>1, <4>2
    <3> QED
      BY <3>1, <3>2 DEF DataInv, LedgerChain
  <2> QED
    BY <2>1, <2>2
<1>13. KeyPostedOnce'
  <2> SUFFICES ASSUME NEW v \in User, NEW w \in User,
                      NEW i \in DOMAIN ledger'[v], NEW j \in DOMAIN ledger'[w],
                      ledger'[v][i].key = ledger'[w][j].key,
                      ledger'[v][i].key # NoKey
               PROVE  v = w /\ i = j
    BY DEF KeyPostedOnce
  <2>1. ASSUME NEW x \in User, NEW k \in DOMAIN ledger'[x]
        PROVE  \/ x = u /\ k = Len(rows) + 1 /\ ledger'[x][k].key = op[r].key
               \/ /\ k \in DOMAIN ledger[x]
                  /\ ledger'[x][k].key = ledger[x][k].key
                  /\ ledger[x][k].key # NoKey => ledger[x][k].key \in UsedKeys
    <3>1. CASE x = u /\ k = Len(rows) + 1
      BY <1>5, <3>1 DEF EntryOf
    <3>2. CASE ~ (x = u /\ k = Len(rows) + 1)
      <4>1. k \in DOMAIN ledger[x] /\ ledger'[x][k] = ledger[x][k]
        BY <1>3, <1>5, <3>2
      <4> QED
        BY <4>1 DEF UsedKeys, KeysOf
    <3> QED
      BY <3>1, <3>2
  <2>2. CASE i \in DOMAIN ledger[v] /\ ledger'[v][i].key = ledger[v][i].key
    <3>1. ledger[v][i].key \in UsedKeys
      <4>1. ledger[v][i].key \in KeysOf(ledger[v])
        BY <2>2 DEF KeysOf
      <4> QED
        BY <4>1 DEF UsedKeys
    <3>2. ~ (w = u /\ j = Len(rows) + 1)
      <4> SUFFICES ASSUME w = u, j = Len(rows) + 1
                   PROVE  FALSE
        OBVIOUS
      <4>1. ledger'[w][j].key = op[r].key
        BY <1>5 DEF EntryOf
      <4> QED
        BY <1>2, <2>2, <3>1, <4>1
    <3>3. j \in DOMAIN ledger[w] /\ ledger'[w][j].key = ledger[w][j].key
      BY <2>1, <3>2
    <3>4. ledger[v][i].key = ledger[w][j].key /\ ledger[v][i].key # NoKey
      BY <2>2, <3>3
    <3>5. KeyPostedOnce
      BY DEF DataInv
    <3> QED
      BY <2>2, <3>3, <3>4, <3>5 DEF KeyPostedOnce
  <2>3. CASE v = u /\ i = Len(rows) + 1 /\ ledger'[v][i].key = op[r].key
    <3>1. \/ w = u /\ j = Len(rows) + 1
          \/ op[r].key \in UsedKeys
      BY <2>1, <2>3
    <3> QED
      BY <1>2, <2>3, <3>1
  <2> QED
    BY <2>1, <2>2, <2>3
<1>14. CreditsFollowLedger'
  <2>1. credits' = [credits EXCEPT ![u] = seen[r]]
    BY DEF Commit
  <2> QED
    BY <1>1, <1>6, <2>1 DEF DataInv, CreditsFollowLedger, ControlInv, TypeOK
<1>15. WorkspaceBalanceWasReal'
  <2> SUFFICES ASSUME NEW v \in User
               PROVE  wsBalance'[v] \in BalancesOf(ledger'[v])
    BY DEF WorkspaceBalanceWasReal
  <2>1. wsBalance'[v] = IF balLock[v] = r THEN seen[r] ELSE wsBalance[v]
    BY DEF Commit, CommittedBalance
  <2>2. CASE balLock[v] = r
    BY <1>3, <1>4, <2>1, <2>2 DEF ControlInv, BalLockInv
  <2>3. CASE balLock[v] # r
    BY <1>6, <2>1, <2>3 DEF DataInv, WorkspaceBalanceWasReal
  <2> QED
    BY <2>2, <2>3
<1>16. AllowedIsPaid'
  <2> SUFFICES ASSUME NEW q \in Request,
                      pc'[q] \in {"calling", "recording"}, op'[q].kind = "charge"
               PROVE  \E i \in DOMAIN ledger'[op'[q].user] :
                         /\ ledger'[op'[q].user][i].key = op'[q].key
                         /\ ledger'[op'[q].user][i].type = "deduction"
    BY DEF AllowedIsPaid
  <2>1. CASE q = r
    <3>1. op'[q] = op[r] /\ op[r].kind = "charge"
      BY <1>8, <2>1
    <3>2. e.key = op[r].key /\ e.type = "deduction"
      BY <3>1 DEF EntryOf, TypeOf, Deducts
    <3> QED
      BY <1>5, <3>1, <3>2
  <2>2. CASE q # r
    <3>1. pc'[q] = pc[q] /\ op'[q] = op[q]
      BY <1>8, <2>2
    <3>2. PICK i \in DOMAIN ledger[op[q].user] :
                  /\ ledger[op[q].user][i].key = op[q].key
                  /\ ledger[op[q].user][i].type = "deduction"
      BY <3>1 DEF DataInv, AllowedIsPaid
    <3>3. op[q].user \in User
      BY <3>1, OperationFacts DEF ControlInv, SlotInv
    <3>4. i \in DOMAIN ledger'[op[q].user] /\ ledger'[op[q].user][i] = ledger[op[q].user][i]
      BY <1>3, <1>5, <3>2, <3>3
    <3> QED
      BY <3>1, <3>2, <3>4
  <2> QED
    BY <2>1, <2>2
<1> QED
  BY <1>9, <1>10, <1>11, <1>12, <1>13, <1>14, <1>15, <1>16 DEF DataInv

\* Every step of the service preserves the data invariant.
LEMMA DataStep == ControlInv /\ DataInv /\ [Next]_vars => DataInv'
<1> SUFFICES ASSUME ControlInv, DataInv, [Next]_vars
             PROVE  DataInv'
  OBVIOUS
<1>1. ASSUME NEW r \in Request, Step(r)
      PROVE  DataInv'
  BY <1>1, DataStepEarly, DataStepRealign, DataStepStage, DataStepRecordProjection,
     DataStepClose, DataStepCommit, RollbackData DEF Step, RejectDuplicate
<1>2. ASSUME NEW r \in Request, Rollback(r)
      PROVE  DataInv'
  BY <1>2, RollbackData
<1>3. ASSUME UNCHANGED vars
      PROVE  DataInv'
  BY <1>3 DEF vars, DataInv, RequestInv, StagedApart, RowsOfOperations, LedgerChain,
     KeyPostedOnce, CreditsFollowLedger, WorkspaceBalanceWasReal, AllowedIsPaid, Balance,
     UsedKeys
<1> QED
  BY <1>1, <1>2, <1>3, DataStepBegin DEF Next, Abort, BreakDeadlock

\* The inductive invariant holds in every state.
THEOREM DataInvariant == Spec => [](ControlInv /\ DataInv)
<1>1. Init => ControlInv /\ DataInv
  BY ControlInit, DataInit
<1>2. ControlInv /\ DataInv /\ [Next]_vars => (ControlInv /\ DataInv)'
  BY ControlStep, DataStep
<1> QED
  BY <1>1, <1>2, PTL DEF Spec

\* Every reachable state is well typed: in particular no committed balance, in the
\* ledger or in a projection, is negative.
THEOREM TypeCorrect == Spec => []TypeOK
<1>1. ControlInv => TypeOK
  BY DEF ControlInv
<1> QED
  BY <1>1, ControlInvariant, PTL

\* The ledger is a chain: no two mutations of an account start from one balance.
THEOREM LedgerIsChain == Spec => []LedgerChain
<1>1. DataInv => LedgerChain
  BY DEF DataInv
<1> QED
  BY <1>1, DataInvariant, PTL

\* An idempotency key is posted at most once.
THEOREM KeysPostedOnce == Spec => []KeyPostedOnce
<1>1. DataInv => KeyPostedOnce
  BY DEF DataInv
<1> QED
  BY <1>1, DataInvariant, PTL

\* users.credits is the ledger's balance.
THEOREM CreditsAlwaysFollowLedger == Spec => []CreditsFollowLedger
<1>1. DataInv => CreditsFollowLedger
  BY DEF DataInv
<1> QED
  BY <1>1, DataInvariant, PTL

\* The workspace projection shows a balance the account had.
THEOREM WorkspaceBalanceAlwaysReal == Spec => []WorkspaceBalanceWasReal
<1>1. DataInv => WorkspaceBalanceWasReal
  BY DEF DataInv
<1> QED
  BY <1>1, DataInvariant, PTL

\* No over-limit request reaches the model unpaid.
THEOREM AllowedIsAlwaysPaid == Spec => []AllowedIsPaid
<1>1. DataInv => AllowedIsPaid
  BY DEF DataInv
<1> QED
  BY <1>1, DataInvariant, PTL
-----------------------------------------------------------------------------
\* The refinement: a commit is one posting to the account, everything else a
\* stutter.
LEMMA AccountInitMaps == Init => Account!AccountInit
<1> SUFFICES ASSUME Init PROVE Account!AccountInit
  OBVIOUS
<1>1. [u \in User |-> Balance(u)] = [u \in User |-> 0]
  BY DEF Init, Balance, LatestBalance
<1>2. PostedKeys = {}
  BY DEF Init, PostedKeys
<1> QED
  BY <1>1, <1>2 DEF Account!AccountInit

\* Only a commit changes the ledger.
LEMMA OnlyCommitPosts ==
    ASSUME [Next]_vars, \A r \in Request : ~ Commit(r)
    PROVE  UNCHANGED ledger
<1>1. ASSUME NEW r \in Request, Step(r)
      PROVE  UNCHANGED ledger
  BY <1>1 DEF Step, Gate, CheckKey, Lock, Realign, Deny, Stage, RejectDuplicate,
     RecordProjection, RecordUsage, Rollback, db
<1>2. ASSUME NEW r \in Request, NEW o \in Operation, Begin(r, o)
      PROVE  UNCHANGED ledger
  BY <1>2 DEF Begin, db
<1>3. ASSUME NEW r \in Request, Rollback(r)
      PROVE  UNCHANGED ledger
  BY <1>3 DEF Rollback, db
<1> QED
  BY <1>1, <1>2, <1>3 DEF Next, Abort, BreakDeadlock, vars

\* A commit posts to the account exactly what its operation asks for.
LEMMA CommitPosts ==
    ASSUME ControlInv, DataInv, NEW r \in Request, Commit(r)
    PROVE  Account!AccountNext
<1>0. op[r] \in Operation /\ op[r].user \in User /\ op[r].kind # "serve"
  BY OperationFacts DEF Commit, ControlInv, SlotInv, Mutating
<1> SUFFICES ASSUME NEW u \in User, u = op[r].user,
                    NEW k \in Key \union {NoKey}, k = op[r].key,
                    NEW t, t = TypeOf(op[r]),
                    NEW n \in {o.amount : o \in Operation}, n = op[r].amount
             PROVE  Account!AccountNext
  BY <1>0, OperationFacts
<1> DEFINE e == EntryOf(op[r], seen[r])
           rows == ledger[u]
           posting == [key |-> k, user |-> u, type |-> t, amount |-> Signed(op[r])]
<1>1. /\ seen[r] \in Nat
      /\ rows \in Seq(Entry)
      /\ e \in Entry
      /\ Balance(u) \in Nat
      /\ n \in Int
      /\ op[r].kind \in Kind
      /\ op[r].kind \in {"purchase", "consume", "charge"} => n > 0
  BY <1>0, NextBalanceType, LatestBalanceType, LedgerAssumption
     DEF ControlInv, TypeOK, Balance
<1>2. /\ Covers(op[r], Balance(u))
      /\ seen[r] = NextBalance(op[r], Balance(u))
      /\ k \notin UsedKeys
  BY DEF Commit, DataInv, RequestInv
<1>3. /\ ledger'[u] = Append(rows, e)
      /\ \A v \in User \ {u} : ledger'[v] = ledger[v]
  BY <1>1 DEF Commit, ControlInv, TypeOK
<1>4. /\ DOMAIN ledger'[u] = DOMAIN rows \union {Len(rows) + 1}
      /\ \A i \in DOMAIN rows : ledger'[u][i] = rows[i]
      /\ ledger'[u][Len(rows) + 1] = e
      /\ LatestBalance(ledger'[u]) = seen[r]
  <2>1. e.after = seen[r]
    BY DEF EntryOf
  <2> QED
    BY <1>1, <1>3, <2>1, AppendRow, AppendBalance
<1>5. [v \in User |-> LatestBalance(ledger'[v])]
          = [[v \in User |-> LatestBalance(ledger[v])] EXCEPT ![u] = seen[r]]
  BY <1>3, <1>4
<1>6. \A p \in PostedKeys : p.key # k
  BY <1>2 DEF PostedKeys, UsedKeys, KeysOf
<1>7. e.key = k /\ e.type = t /\ e.amount = Signed(op[r])
  BY DEF EntryOf
<1>8. PostedKeys' = PostedKeys \union {p \in {posting} : k # NoKey}
  <2> DEFINE Row(v, x) == [key |-> x.key, user |-> v, type |-> x.type, amount |-> x.amount]
             Keyed(s) == {j \in DOMAIN s : s[j].key # NoKey}
             PostedBy(v, s) == {Row(v, s[i]) : i \in Keyed(s)}
  <2>1. /\ PostedKeys = UNION {PostedBy(v, ledger[v]) : v \in User}
        /\ PostedKeys' = UNION {PostedBy(v, ledger'[v]) : v \in User}
    BY DEF PostedKeys
  <2>2. Keyed(ledger'[u]) = Keyed(rows) \union {i \in {Len(rows) + 1} : k # NoKey}
    BY <1>4, <1>7
  <2>3. Row(u, e) = posting
    BY <1>7
  <2>4. Keyed(rows) \subseteq DOMAIN rows
    OBVIOUS
  <2>5. PostedBy(u, ledger'[u]) = PostedBy(u, rows) \union {p \in {posting} : k # NoKey}
    <3> HIDE DEF Row, Keyed, rows, posting
    <3> QED
      BY <1>4, <2>2, <2>3, <2>4, Zenon
  <2>6. \A v \in User \ {u} : PostedBy(v, ledger'[v]) = PostedBy(v, ledger[v])
    BY <1>3
  <2> HIDE DEF PostedBy
  <2> QED
    BY <2>1, <2>5, <2>6
<1>9. Account!SpendKey(u, k, t, Signed(op[r]))
  BY <1>6, <1>8 DEF Account!SpendKey
<1>10. CASE op[r].kind = "purchase"
  <2>1. t = "purchase" /\ Signed(op[r]) = n /\ seen[r] = Balance(u) + n /\ n > 0
    BY <1>1, <1>2, <1>10 DEF TypeOf, Deducts, NextBalance, Signed
  <2>2. Account!Credit(u, k, n)
    BY <1>5, <1>9, <2>1 DEF Account!Credit, Balance, LatestBalance
  <2> QED
    BY <2>2 DEF Account!AccountNext
<1>11. CASE op[r].kind \in {"consume", "charge"}
  <2>1. t = "deduction" /\ Signed(op[r]) = - n /\ seen[r] = Balance(u) - n /\ n > 0 /\ n <= Balance(u)
    BY <1>1, <1>2, <1>11 DEF TypeOf, Deducts, NextBalance, Signed, Covers
  <2>2. Account!Debit(u, k, n)
    BY <1>5, <1>9, <2>1 DEF Account!Debit, Balance, LatestBalance
  <2> QED
    BY <2>2 DEF Account!AccountNext
<1>12. CASE op[r].kind = "adjust"
  <2>1. t = "adjustment" /\ Signed(op[r]) = n /\ seen[r] = Account!Floor(Balance(u) + n)
    BY <1>1, <1>2, <1>12 DEF TypeOf, Deducts, NextBalance, Signed, Account!Floor
  <2>2. Account!Adjust(u, k, n)
    BY <1>5, <1>9, <2>1 DEF Account!Adjust, Balance, LatestBalance
  <2> QED
    BY <2>2 DEF Account!AccountNext
<1> QED
  BY <1>0, <1>1, <1>10, <1>11, <1>12 DEF Kind

\* The credit service implements CreditAccount: whatever the interleaving, the
\* committed ledger moves in the indivisible steps of one account per user.
THEOREM CreditServiceIsAccount == Spec => ImplementsAccount
<1>1. ControlInv /\ DataInv /\ [Next]_vars
          => [Account!AccountNext]_(Account!accountVars)
  <2> SUFFICES ASSUME ControlInv, DataInv, [Next]_vars
               PROVE  Account!AccountNext \/ UNCHANGED Account!accountVars
    OBVIOUS
  <2>1. CASE \E r \in Request : Commit(r)
    BY <2>1, CommitPosts
  <2>2. CASE \A r \in Request : ~ Commit(r)
    <3>1. UNCHANGED ledger
      BY <2>2, OnlyCommitPosts
    <3> QED
      BY <3>1 DEF Account!accountVars, PostedKeys, Balance, LatestBalance
  <2> QED
    BY <2>1, <2>2
<1> QED
  BY <1>1, AccountInitMaps, DataInvariant, PTL DEF Spec, Account!AccountSpec, ImplementsAccount
=============================================================================
