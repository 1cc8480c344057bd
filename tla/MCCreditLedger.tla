--------------------------- MODULE MCCreditLedger ---------------------------
(***************************************************************************)
(* Instance of CreditLedger for TLC: on one account a purchase, an over-   *)
(* limit AI request, a workspace charge of two credits, an administrator's *)
(* unkeyed correction below zero and an AI request within its plan; on a   *)
(* second account an adjustment sent under the key of the first account's  *)
(* purchase.                                                               *)
(***************************************************************************)
EXTENDS CreditLedger

CONSTANTS u1, u2, k1, k2, k3, k4

Operations ==
    {[kind |-> "purchase", user |-> u1, amount |-> 2, key |-> k1],
     [kind |-> "charge", user |-> u1, amount |-> 1, key |-> k2],
     [kind |-> "consume", user |-> u1, amount |-> 2, key |-> k3],
     [kind |-> "adjust", user |-> u1, amount |-> -1, key |-> NoKey],
     [kind |-> "adjust", user |-> u2, amount |-> 1, key |-> k1],
     [kind |-> "serve", user |-> u1, amount |-> 1, key |-> k4]}
=============================================================================
