------------------------------ MODULE MCGroups ------------------------------
(* TLC instances of GroupSavings and GroupBudgets, which share Membership: *)
(* a behaviour is one of the two, and `part` says of which.  People,       *)
(* groups and requests are alike.                                          *)
EXTENDS GroupSavings, GroupBudgets, TLC
VARIABLE part
Init == part \in {"goals", "budgets"} /\ GoalsInit /\ BudgetsInit
Next == \/ part = "goals" /\ GoalsNext /\ UNCHANGED <<part, budgetOwn>>
        \/ part = "budgets" /\ BudgetsNext /\ UNCHANGED <<part, goalOwn>>
Spec == Init /\ [][Next]_<<part, shared, goalOwn, budgetOwn>>
Symmetry == Permutations(Reqs) \cup Permutations(Users) \cup Permutations(Groups)
-----------------------------------------------------------------------------
(* Whatever overlaps, the rows of a goal and of a budget fit the schema,   *)
(* each in the behaviours it is about: in those of budgets the upsert may  *)
(* change the role of a creator.                                           *)
RowsFit == IF part = "goals" THEN SavingsSchemaOK ELSE BudgetSchemaOK
=============================================================================
