------------------------------ MODULE MCPlans ------------------------------
(* TLC instances of what concerns one user: SignUp, Savings, SavingsPace   *)
(* and Budgets.  The four share no state, so a behaviour is one of one of  *)
(* them, and `part` says of which.                                         *)
EXTENDS Savings, SavingsPace, Budgets, SignUp
VARIABLE part
allVars == <<part, savingsVars, paceVars, budgetVars, signUpVars>>
FiveMonths == <<3, 1, 3, 1, 1>>
Init == /\ part \in {"savings", "pace", "budgets", "signup"}
        /\ SavingsInit /\ PaceInit /\ BudgetsInit /\ SignUpInit
        /\ part = "savings" \/ unlimited
        /\ part = "pace" \/ (profileIncome = 0 /\ plan = 0)
        /\ part = "signup" \/ ~user
Next == \/ /\ part = "savings" /\ SavingsNext
           /\ UNCHANGED <<part, paceVars, budgetVars, signUpVars>>
        \/ /\ part = "pace" /\ PaceNext
           /\ UNCHANGED <<part, savingsVars, budgetVars, signUpVars>>
        \/ /\ part = "budgets" /\ BudgetsNext
           /\ UNCHANGED <<part, savingsVars, paceVars, signUpVars>>
        \/ /\ part = "signup" /\ SignUpNext
           /\ UNCHANGED <<part, savingsVars, paceVars, budgetVars>>
Spec == Init /\ [][Next]_allVars
Symmetry == Permutations(Calls)
=============================================================================
