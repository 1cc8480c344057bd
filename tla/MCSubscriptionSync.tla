------------------------- MODULE MCSubscriptionSync -------------------------
(***************************************************************************)
(* Instances of SubscriptionSync for TLC.                                  *)
(***************************************************************************)
EXTENDS SubscriptionSync, TLC

CONSTANTS s1, s2, r1, r2

\* Subscriptions are interchangeable, and so are request slots.
Interchangeable == Permutations({s1, s2}) \union Permutations({r1, r2})
=============================================================================
