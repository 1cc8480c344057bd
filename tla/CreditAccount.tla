--------------------------- MODULE CreditAccount ---------------------------
(***************************************************************************)
(* What the credit service promises its callers, with no database in       *)
(* sight: every user has one balance, an operation posts to it in one      *)
(* indivisible step, a keyed operation posts at most once whatever is      *)
(* retried, and only an administrator's adjustment may be cut off at zero. *)
(* CreditLedger, the model of services/credit_service.py, implements it.   *)
(***************************************************************************)
EXTENDS Integers

CONSTANTS User,    \* the account holders
          Key,     \* idempotency keys a caller can attach to an operation
          NoKey,   \* not in Key: the operation carries none, nothing guards its replay
          Amount   \* the amounts operations are asked to post

VARIABLES balance, \* balance[u]: credits user u can spend
          posted   \* the keyed postings so far: which key, for whom, of what type and amount

accountVars == <<balance, posted>>

PostingType == {"purchase", "deduction", "adjustment"}

Posting == [key : Key, user : User, type : PostingType, amount : Int]

AccountTypeOK ==
    /\ balance \in [User -> Nat]
    /\ posted \subseteq Posting

AccountInit ==
    /\ balance = [u \in User |-> 0]
    /\ posted = {}

\* A balance never goes below zero.
Floor(n) == IF n < 0 THEN 0 ELSE n

\* Key k was not spent by an earlier posting and is spent by this one.
SpendKey(u, k, t, n) ==
    /\ \A p \in posted : p.key # k
    /\ posted' = posted \union
           {p \in {[key |-> k, user |-> u, type |-> t, amount |-> n]} : k # NoKey}

\* The three things that happen to an account.
Credit(u, k, n) ==
    /\ n > 0
    /\ SpendKey(u, k, "purchase", n)
    /\ balance' = [balance EXCEPT ![u] = @ + n]

Debit(u, k, n) ==
    /\ 0 < n
    /\ n <= balance[u]
    /\ SpendKey(u, k, "deduction", - n)
    /\ balance' = [balance EXCEPT ![u] = @ - n]

Adjust(u, k, n) ==
    /\ SpendKey(u, k, "adjustment", n)
    /\ balance' = [balance EXCEPT ![u] = Floor(@ + n)]

AccountNext ==
    \E u \in User, k \in Key \union {NoKey}, n \in Amount :
        \/ Credit(u, k, n)
        \/ Debit(u, k, n)
        \/ Adjust(u, k, n)

AccountSpec == AccountInit /\ [][AccountNext]_accountVars
=============================================================================
