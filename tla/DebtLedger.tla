----------------------------- MODULE DebtLedger -----------------------------
(***************************************************************************)
(* What a debt promises its owner, without requests or transactions: money *)
(* owed is opened once and goes down by exactly what is paid, never below  *)
(* zero.  Debts.tla is checked and proved to implement this when the       *)
(* payments on one debt do not overlap.                                    *)
(***************************************************************************)
EXTENDS Naturals

CONSTANTS Debts, Amounts

VARIABLES
  original,   \* the amount each debt was opened with, 0 before that
  owed,       \* what is still to be paid
  paid        \* what has been paid

ledger == <<original, owed, paid>>

Init ==
  /\ original = [d \in Debts |-> 0]
  /\ owed     = [d \in Debts |-> 0]
  /\ paid     = [d \in Debts |-> 0]

Open(d, a) ==
  /\ original[d] = 0
  /\ original' = [original EXCEPT ![d] = a]
  /\ owed'     = [owed EXCEPT ![d] = a]
  /\ UNCHANGED paid

Pay(d, a) ==
  /\ a <= owed[d]
  /\ owed' = [owed EXCEPT ![d] = @ - a]
  /\ paid' = [paid EXCEPT ![d] = @ + a]
  /\ UNCHANGED original

Next == \E d \in Debts, a \in Amounts : Open(d, a) \/ Pay(d, a)

Spec == Init /\ [][Next]_ledger

=============================================================================
