------------------------------ MODULE MCDebts ------------------------------
(* Small instances of Debts: a few requests on one or two debts. *)
EXTENDS Debts, TLC


RequestSymmetry == Permutations(Reqs)
=============================================================================
