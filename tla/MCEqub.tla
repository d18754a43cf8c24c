------------------------------- MODULE MCEqub -------------------------------
(* Small instances of Equb: two or three members, a few requests. *)
EXTENDS Equb, TLC

RequestSymmetry == Permutations(Reqs)
=============================================================================
