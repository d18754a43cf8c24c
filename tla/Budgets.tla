------------------------------ MODULE Budgets ------------------------------
(***************************************************************************)
(* A user's repeating budgets: BudgetService and BudgetRepository.  What   *)
(* is spent of a budget is summed, at every read, over the transactions of *)
(* the current period that its filters let through.  Periods follow the    *)
(* calendar arithmetic of luxon, here with short months: adding months to  *)
(* a date clamps the day to the month's length, and the months elapsed are *)
(* those that can be added without passing today.  Requests are taken one  *)
(* at a time here: what overlapping creates do to a limit that is checked  *)
(* on a count read before is the subject of Savings, whose create is alike. *)
(***************************************************************************)
EXTENDS Integers, FiniteSetsExt, SequencesExt

CONSTANTS
  MonthLengths, \* bound: the calendar, a sequence of month lengths
  Counts,       \* periodCount, in months
  Ids,          \* ids of budgets
  Categories,   \* expense categories
  NoCategory,   \* the null of categoryId
  MaxRows,      \* bound: transactions
  BudgetLimit   \* budgets on the free plan

ASSUME BudgetsAssumption ==
  /\ MonthLengths \in Seq(Nat \ {0})
  /\ Counts \subseteq Nat \ {0} /\ Counts # {}
  /\ \A count \in Counts : count + 2 <= Len(MonthLengths)
  /\ NoCategory \notin Categories
  /\ MaxRows \in Nat /\ BudgetLimit \in Nat

VARIABLES
  now,          \* the day, counted from the first of the first month
  budgets,      \* the user's budgets
  rows,         \* the user's transactions
  edits         \* bound: edits of budgets so far

budgetVars == <<now, budgets, rows, edits>>

Months == DOMAIN MonthLengths
Start[m \in Months] == IF m = 1 THEN 0 ELSE Start[m - 1] + MonthLengths[m - 1]
MonthOf(day) == CHOOSE m \in Months : Start[m] <= day /\ day < Start[m] + MonthLengths[m]
DayOf(day) == day - Start[MonthOf(day)] + 1
Days == 0..(Start[Len(MonthLengths)] - 1)
LastDay == Start[Len(MonthLengths) - Max(Counts) + 1] - 1
Origins == 0..MonthLengths[1]   \* days of the first month and the next first

(* luxon's plus({months: n}).                                              *)
(* Mutant: the day is not clamped but runs over into the next month. *)
PlusMonthsUnclamped(day, n) == Start[MonthOf(day) + n] + DayOf(day) - 1
PlusMonths(day, n) ==
  LET m == MonthOf(day) + n
  IN  Start[m] + (IF DayOf(day) > MonthLengths[m] THEN MonthLengths[m] ELSE DayOf(day)) - 1

(* The whole months of luxon's diff.                                       *)
Elapsed(origin, day) ==
  Max({n \in 0..(MonthOf(day) - MonthOf(origin)) : PlusMonths(origin, n) <= day})

(* periodWindow: whole periods are counted from the origin, the end from   *)
(* the start of the period.                                                *)
PeriodWindow(origin, count, day) ==
  LET k == IF day > origin THEN Elapsed(origin, day) \div count ELSE 0
      start == PlusMonths(origin, k * count)
  IN  start .. (PlusMonths(start, count) - 1)
Window == [asked \in Origins \X Counts \X (0..LastDay) |->
             PeriodWindow(asked[1], asked[2], asked[3])]
WindowOf(b, day) == Window[<<b.origin, b.count, day>>]

(* sumMatching: the filters; an empty include list lets every category     *)
(* through, and income is netted only where the budget asks for it.        *)
Matches(b, t) ==
  /\ t.type = "EXPENSE" \/ b.includeIncome
  /\ b.include = {} \/ t.category \in b.include
  /\ t.category \notin b.exclude
Counted(b, day) == {t \in rows : t.day \in WindowOf(b, day) /\ Matches(b, t)}

BudgetsInit == now = 0 /\ budgets = {} /\ rows = {} /\ edits = 0

Budget(id, origin, count, include, exclude, primary, income) ==
  [id |-> id, origin |-> origin, count |-> count, include |-> include, exclude |-> exclude,
   primary |-> primary, includeIncome |-> income]

(* The legacy column takes the first category of the list.                 *)
First(include) == IF include = {} THEN {NoCategory} ELSE include

(* create, on the free plan; the schema asks for a category to include.    *)
CreateBudget(id, origin, count, include, exclude, income) ==
  /\ Cardinality(budgets) < BudgetLimit
  /\ \A b \in budgets : b.id # id
  /\ include # {}
  /\ \E primary \in First(include) :
       budgets' = budgets \cup {Budget(id, origin, count, include, exclude, primary, income)}
  /\ UNCHANGED <<now, rows, edits>>

Replace(b, new) == budgets' = (budgets \ {b}) \cup {new}

(* update: one transaction.  Lists that are sent replace the lists there   *)
(* are, and when only one list is sent the other becomes empty.            *)
(* Mutant: the legacy column keeps its value. *)
UpdateBudgetOnly(b, sent, include, exclude, income) ==
  /\ edits < 1
  /\ edits' = edits + 1
  /\ IF sent = {} THEN Replace(b, [b EXCEPT !.includeIncome = income])
     ELSE Replace(b, [b EXCEPT !.include = IF "include" \in sent THEN include ELSE {},
                               !.exclude = IF "exclude" \in sent THEN exclude ELSE {},
                               !.includeIncome = income])
  /\ UNCHANGED <<now, rows>>
UpdateBudget(b, sent, include, exclude, income) ==
  /\ edits < 1      \* bound
  /\ edits' = edits + 1
  /\ LET included == IF "include" \in sent THEN include ELSE {}
         excluded == IF "exclude" \in sent THEN exclude ELSE {}
     IN  IF sent = {} THEN Replace(b, [b EXCEPT !.includeIncome = income])
         ELSE \E primary \in First(included) :
                Replace(b, Budget(b.id, b.origin, b.count, included, excluded, primary, income))
  /\ UNCHANGED <<now, rows>>

(* The same call when it sends the period alone.                           *)
Reschedule(b, origin, count) ==
  /\ edits < 1      \* bound
  /\ edits' = edits + 1
  /\ Replace(b, [b EXCEPT !.origin = origin, !.count = count])
  /\ UNCHANGED <<now, rows>>

DeleteBudget(b) ==
  /\ budgets' = budgets \ {b}
  /\ UNCHANGED <<now, rows, edits>>

(* A transaction, of today or dated otherwise.                             *)
Record(day, type, category) ==
  /\ Cardinality(rows) < MaxRows
  /\ rows' = rows \cup {[day |-> day, type |-> type, category |-> category]}
  /\ UNCHANGED <<now, budgets, edits>>

NextDay ==
  /\ now < LastDay
  /\ now' = now + 1
  /\ UNCHANGED <<budgets, rows, edits>>

(* Lists that are not sent are of no consequence.                          *)
BudgetsNext ==
  \/ \E id \in Ids, origin \in Origins, count \in Counts, income \in BOOLEAN :
       \E include \in SUBSET Categories : \E exclude \in {{}, Categories \ include} :
         CreateBudget(id, origin, count, include, exclude, income)
  \/ \E b \in budgets :
       \/ \E sent \in SUBSET {"include", "exclude"}, income \in BOOLEAN :
          \E include \in IF "include" \in sent THEN SUBSET Categories ELSE {{}},
             exclude \in IF "exclude" \in sent THEN SUBSET Categories ELSE {{}} :
            UpdateBudget(b, sent, include, exclude, income)
       \/ \E origin \in Origins, count \in Counts : Reschedule(b, origin, count)
       \/ DeleteBudget(b)
  \/ \E day \in 0..LastDay, type \in {"EXPENSE", "INCOME"}, category \in Categories :
       Record(day, type, category)
  \/ NextDay

BudgetsSpec == BudgetsInit /\ [][BudgetsNext]_budgetVars
-----------------------------------------------------------------------------
(* A budget that starts on a day every month has counts today's expenses   *)
(* today ("The period window (containing `now`)"), and the legacy category *)
(* column names one of the categories included, or none when there is none. *)
FitsEveryMonth(b) == \A m \in Months : DayOf(b.origin) <= MonthLengths[m]
TodayCounts ==
  \A b \in budgets :
    /\ b.primary \in b.include \/ (b.include = {} /\ b.primary = NoCategory)
    /\ FitsEveryMonth(b) /\ b.origin <= now =>
         \A t \in rows : t.day = now /\ Matches(b, t) => t \in Counted(b, now)

(* No transaction is counted in two periods, whatever day a budget starts. *)
CountedOnce ==
  [][\A b \in budgets \cap budgets' :
       \/ WindowOf(b, now) = WindowOf(b, now')
       \/ Counted(b, now) \cap Counted(b, now') = {}]_budgetVars
=============================================================================
