---------------------------- MODULE SavingsPace ----------------------------
(***************************************************************************)
(* The savings pace of a month: SavingsService.buildPace and updatePace,   *)
(* and the pure computeSavingsPace.  It tells a user who set an income and *)
(* a spending plan how much may be spent per day from today on; expenses   *)
(* and deletions change what was spent, and every day the advice is        *)
(* computed again.  Amounts are in the smallest unit formatMoney keeps,    *)
(* which is what its rounding works on.                                    *)
(***************************************************************************)
EXTENDS Integers

CONSTANTS
  DaysTotal,    \* days in the month
  Incomes,      \* monthly incomes, 0 when none is known
  Plans         \* monthly spending plans, 0 when none is set

ASSUME PaceAssumption ==
  DaysTotal \in Nat \ {0} /\ Incomes \subseteq Nat /\ Plans \subseteq Nat

VARIABLES
  today,        \* day of the month
  profileIncome, recordedIncome, plan,   \* columns, and income transactions of the month
  spent,        \* expenses of the month
  spentToday,   \* those recorded today
  allowed,      \* what the pace allowed this morning
  followed      \* history: never more than allowed on a day, nothing changed since the first

paceVars == <<today, profileIncome, recordedIncome, plan, spent, spentToday, allowed, followed>>

HalfUp(a, b) == (2 * a + b) \div (2 * b)

(* Recorded income of the month goes before the profile's.                 *)
Income(p, r) == IF r > 0 THEN r ELSE p

(* The daily allowance; mutant: the plan is spread over the whole month.   *)
EvenDaily(plannedSpend, out, daysLeft) == HalfUp(plannedSpend, DaysTotal)
Daily(plannedSpend, out, daysLeft) ==
  IF plannedSpend - out <= 0 THEN 0 ELSE HalfUp(plannedSpend - out, daysLeft)

(* computeSavingsPace.                                                     *)
Pace(income, planned, out, day) ==
  LET daysLeft == DaysTotal - day + 1
      plannedSpend == IF planned > income THEN income ELSE planned
      over == plannedSpend - out <= 0
      toDate == HalfUp(plannedSpend * day, DaysTotal)
      setup(need) == [status |-> "setup", need |-> need, save |-> 0, left |-> 0, dailyNow |-> 0]
  IN  IF income = 0 THEN setup("income")
      ELSE IF planned = 0 THEN setup("plan")
      ELSE [status |-> IF over THEN "over" ELSE IF out > toDate THEN "behind" ELSE "on_track",
            need |-> "none",
            save |-> income - plannedSpend,
            left |-> IF over THEN 0 ELSE plannedSpend - out,
            dailyNow |-> Daily(plannedSpend, out, daysLeft)]

PaceNow == Pace(Income(profileIncome, recordedIncome), plan, spent, today)

PaceInit ==
  /\ today = 1
  /\ profileIncome \in Incomes
  /\ recordedIncome = 0
  /\ plan \in Plans
  /\ spent = 0 /\ spentToday = 0
  /\ allowed = PaceNow.dailyNow
  /\ followed = TRUE

SpendSome(amount) ==
  /\ spent + amount <= 2 * DaysTotal    \* bound
  /\ spent' = spent + amount
  /\ spentToday' = spentToday + amount
  /\ followed' = (followed /\ spentToday' <= allowed)
  /\ UNCHANGED <<today, profileIncome, recordedIncome, plan, allowed>>

DeleteExpense ==
  /\ spentToday > 0
  /\ spent' = spent - 1
  /\ spentToday' = spentToday - 1
  /\ UNCHANGED <<today, profileIncome, recordedIncome, plan, allowed, followed>>

(* The answer to a changed plan or income is a new pace.                   *)
Replan(p, q, r) ==
  /\ <<p, q, r>> # <<profileIncome, recordedIncome, plan>>
  /\ profileIncome' = p /\ recordedIncome' = q /\ plan' = r
  /\ allowed' = Pace(Income(p, q), r, spent, today).dailyNow
  /\ followed' = FALSE
  /\ UNCHANGED <<today, spent, spentToday>>

NextMorning ==
  /\ today < DaysTotal
  /\ today' = today + 1
  /\ spentToday' = 0
  /\ allowed' = Pace(Income(profileIncome, recordedIncome), plan, spent, today').dailyNow
  /\ UNCHANGED <<profileIncome, recordedIncome, plan, spent, followed>>

PaceNext ==
  \/ \E amount \in 1..2 : SpendSome(amount)
  \/ DeleteExpense
  \/ \E p, q \in Incomes, r \in Plans : Replan(p, q, r)
  \/ NextMorning

PaceSpec == PaceInit /\ [][PaceNext]_paceVars
-----------------------------------------------------------------------------
(* Who never spends more than the allowance of the morning ends the month  *)
(* within the plan and with the income less the plan saved, in spite of    *)
(* the rounding of every day; and whatever else happens, a status is only  *)
(* "over" when the plan is used up, and what is left plus what is spent is *)
(* the plan.                                                               *)
PaceIsSafe ==
  LET income == Income(profileIncome, recordedIncome)
      planned == IF plan > income THEN income ELSE plan
  IN  /\ followed /\ income > 0 /\ plan > 0 => /\ spent <= planned
                                               /\ income - spent >= PaceNow.save
      /\ PaceNow.status \in {"on_track", "behind"} =>
           /\ PaceNow.left + spent = planned
           /\ PaceNow.dailyNow <= PaceNow.left
=============================================================================
