-------------------------- MODULE MCStripeWebhook --------------------------
(***************************************************************************)
(* Instances of StripeWebhook for TLC.  Safety: two events of one checkout *)
(* session, so that different rows of webhook_events lead to the same      *)
(* ledger key.  Liveness: one event of that kind and one of a type the     *)
(* service ignores.                                                        *)
(***************************************************************************)
EXTENDS StripeWebhook, TLC

CONSTANTS u1, k1, e1, e2, d1, d2, a1, a2

SameCheckout == (e1 :> k1) @@ (e2 :> k1)

OneIgnored == (e1 :> k1) @@ (e2 :> NoKey)

Buyers == k1 :> u1

Packs == k1 :> 50

\* Slots are interchangeable, and so are two events of one checkout session.
Interchangeable ==
    Permutations({d1, d2}) \union Permutations({a1, a2}) \union Permutations({e1, e2})
=============================================================================
