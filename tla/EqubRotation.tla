---------------------------- MODULE EqubRotation ----------------------------
(***************************************************************************)
(* What a rotating savings group promises: the pot goes round in payout    *)
(* order, to every member once, and nobody is passed over.                 *)
(***************************************************************************)
EXTENDS Naturals

CONSTANT N        \* members, and so cycles

VARIABLE received \* the payout positions that have had the pot

Init == received = {}

PayOut(m) ==
  /\ m \notin received
  /\ 1 .. (m - 1) \subseteq received
  /\ received' = received \cup {m}

Next == \E m \in 1 .. N : PayOut(m)

Spec == Init /\ [][Next]_received

=============================================================================
