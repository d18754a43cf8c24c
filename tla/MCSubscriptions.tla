--------------------------- MODULE MCSubscriptions ---------------------------
(* Two users, one promo code that can be used once, three requests. *)
EXTENDS Subscriptions, TLC

Symmetry == Permutations(Reqs) \cup Permutations(Users)
=============================================================================
