--------------------------- MODULE MCTransactions ---------------------------
(* Small instances of Transactions: racing creates on one or two keys. *)
EXTENDS Transactions, TLC

RequestSymmetry == Permutations(Reqs)
=============================================================================
