---------------------------- MODULE PlansProofs ----------------------------
(***************************************************************************)
(* Proofs about Savings, SavingsPace, SignUp and Budgets, what concerns    *)
(* one user: for any number of goals, requests, accounts and budgets, any  *)
(* amounts and any calendar.                                               *)
(***************************************************************************)
EXTENDS MCPlans, FiniteSetTheorems, NaturalsInduction, TLAPS

(* Savings.  A contribution under way has read an amount that was given;   *)
(* while the goal was not contributed to twice at once, it is what the     *)
(* column holds, and there is no other.                                    *)
Contributes(p) ==
  /\ p.what \in Goals /\ p.amount \in Nat /\ p.read \in Nat
  /\ p.read <= gifts[p.what]
  /\ p.what \notin raced => p.read = saved[p.what]

SavingsInv ==
  /\ goals \subseteq used /\ used \subseteq Goals /\ IsFiniteSet(goals)
  /\ saved \in [Goals -> Nat] /\ gifts \in [Goals -> Nat]
  /\ \A g \in Goals : saved[g] <= gifts[g] /\ (g \notin raced => saved[g] = gifts[g])
  /\ \A p \in doing : p.what = "create" \/ Contributes(p)
  /\ \A p, q \in doing : p.what = q.what => p = q \/ p.what \in raced
  /\ "create" \notin raced =>
       /\ ~unlimited /\ Cardinality(goals) <= GoalLimit
       /\ \A p \in doing : p.what = "create" => Cardinality(goals) < GoalLimit

LEMMA SavingsInitInv == SavingsInit => SavingsInv
BY FS_EmptySet, SavingsAssumption DEF SavingsInit, SavingsInv

LEMMA EnterInv ==
  ASSUME SavingsInv, NEW c \in Calls, NEW what, NEW p, Enter(c, what, p), p.what = what,
         UNCHANGED <<unlimited, goals, used, saved, gifts>>,
         \/ what = "create" /\ (unlimited \/ Cardinality(goals) < GoalLimit)
         \/ what \in Goals /\ p.amount \in Nat /\ p.read = saved[what]
  PROVE  SavingsInv'
<1>1. /\ doing' = doing \cup {p} /\ raced \subseteq raced' /\ raced' \subseteq raced \cup {what}
      /\ \A q \in doing : q.what = what => what \in raced'
  BY DEF Enter
<1>2. \A q \in doing' : q.what = "create" \/ Contributes(q)'
  BY <1>1 DEF SavingsInv, Contributes
<1>3. \A q, r \in doing' : q.what = r.what => q = r \/ q.what \in raced'
  BY <1>1 DEF SavingsInv
<1>4. "create" \notin raced' =>
        /\ ~unlimited' /\ Cardinality(goals') <= GoalLimit
        /\ \A q \in doing' : q.what = "create" => Cardinality(goals') < GoalLimit
  BY <1>1, SavingsAssumption DEF SavingsInv
<1>5. QED
  BY <1>1, <1>2, <1>3, <1>4 DEF SavingsInv

LEMMA FinishCreateInv ==
  ASSUME SavingsInv, NEW p \in doing, NEW g \in Goals, FinishCreate(p, g)
  PROVE  SavingsInv'
<1>1. /\ p.what = "create" /\ g \notin used /\ goals' = goals \cup {g} /\ used' = used \cup {g}
      /\ doing' = doing \ {p} /\ UNCHANGED <<unlimited, raced, saved, gifts>>
  BY DEF FinishCreate, Leave
<1>2. IsFiniteSet(goals') /\ Cardinality(goals') = Cardinality(goals) + 1 /\ Cardinality(goals) \in Nat
  BY <1>1, FS_AddElement, FS_CardinalityType DEF SavingsInv
<1>3. "create" \notin raced => Cardinality(goals) < GoalLimit /\ \A q \in doing' : q.what # "create"
  BY <1>1 DEF SavingsInv
<1>4. "create" \notin raced => Cardinality(goals') <= GoalLimit
  BY <1>2, <1>3, SavingsAssumption
<1>5. \A q \in doing' : q.what = "create" \/ Contributes(q)'
  BY <1>1 DEF SavingsInv, Contributes
<1>6. QED
  BY <1>1, <1>2, <1>3, <1>4, <1>5 DEF SavingsInv

LEMMA FinishContributeInv ==
  ASSUME SavingsInv, NEW p \in doing, FinishContribute(p)
  PROVE  SavingsInv'
<1> DEFINE g == p.what
<1>1. /\ g \in Goals /\ doing' = doing \ {p} /\ UNCHANGED <<unlimited, raced, goals, used>>
      /\ Contributes(p)
  BY SavingsAssumption DEF FinishContribute, Leave, SavingsInv
<1>2. \A q \in doing' : q \in doing /\ (q.what = g => g \in raced)
  BY <1>1 DEF SavingsInv
<1>3. CASE UNCHANGED <<gifts, saved>>
  BY <1>1, <1>3 DEF SavingsInv, Contributes
<1>4. CASE /\ gifts' = [gifts EXCEPT ![g] = @ + p.amount]
           /\ saved' = [saved EXCEPT ![g] = p.read + p.amount]
  <2>1. /\ gifts[g] \in Nat /\ saved[g] \in Nat /\ p.amount \in Nat /\ p.read \in Nat
        /\ p.read <= gifts[g] /\ (g \notin raced => p.read = gifts[g])
    BY <1>1 DEF SavingsInv, Contributes
  <2>2. /\ gifts'[g] = gifts[g] + p.amount /\ saved'[g] = p.read + p.amount
        /\ \A h \in Goals : h # g => gifts'[h] = gifts[h] /\ saved'[h] = saved[h]
    BY <1>1, <1>4 DEF SavingsInv
  <2>3. gifts' \in [Goals -> Nat] /\ saved' \in [Goals -> Nat]
    <3>1. gifts[g] + p.amount \in Nat /\ p.read + p.amount \in Nat
      BY <2>1
    <3>2. QED
      BY <1>1, <1>4, <3>1 DEF SavingsInv
  <2>4. saved'[g] <= gifts'[g] /\ gifts[g] <= gifts'[g] /\ (g \notin raced => saved'[g] = gifts'[g])
    BY <2>1, <2>2
  <2>5. \A h \in Goals : saved'[h] <= gifts'[h] /\ (h \notin raced' => saved'[h] = gifts'[h])
    BY <1>1, <2>2, <2>4 DEF SavingsInv
  <2>6. ASSUME NEW q \in doing', q.what # "create" PROVE Contributes(q)'
    <3>1. Contributes(q)
      BY <1>2, <2>6 DEF SavingsInv
    <3>2. CASE q.what = g
      <4>1. q.read \in Nat /\ q.read <= gifts[g]
        BY <3>1, <3>2 DEF Contributes
      <4>2. q.read <= gifts'[g]
        BY <2>1, <2>2, <4>1
      <4>3. QED
        BY <1>1, <1>2, <3>1, <3>2, <4>2 DEF Contributes
    <3>3. CASE q.what # g
      BY <1>1, <2>2, <3>1, <3>3 DEF Contributes
    <3>4. QED
      BY <3>2, <3>3
  <2>7. QED
    BY <1>1, <2>3, <2>5, <2>6 DEF SavingsInv
<1>5. QED
  BY <1>3, <1>4 DEF FinishContribute

LEMMA SavingsStep == SavingsInv /\ [SavingsNext]_savingsVars => SavingsInv'
<1> SUFFICES ASSUME SavingsInv, [SavingsNext]_savingsVars PROVE SavingsInv'
  OBVIOUS
<1>1. ASSUME NEW c \in Calls, StartCreate(c) PROVE SavingsInv'
  BY <1>1, EnterInv DEF StartCreate
<1>2. ASSUME NEW c \in Calls, NEW g \in Goals, NEW amount \in Given, StartContribute(c, g, amount)
      PROVE  SavingsInv'
  BY <1>2, EnterInv, SavingsAssumption DEF StartContribute
<1>3. ASSUME NEW c \in Calls, NEW g \in Goals, RemoveGoal(c, g) PROVE SavingsInv'
  <2>1. /\ goals' = goals \ {g} /\ g \in goals
        /\ UNCHANGED <<unlimited, used, saved, gifts, doing, raced>>
    BY <1>3 DEF RemoveGoal
  <2>2. /\ IsFiniteSet(goals') /\ Cardinality(goals') = Cardinality(goals) - 1
        /\ Cardinality(goals) \in Nat
    BY <2>1, FS_RemoveElement, FS_CardinalityType DEF SavingsInv
  <2>3. /\ Cardinality(goals) <= GoalLimit => Cardinality(goals') <= GoalLimit
        /\ Cardinality(goals) < GoalLimit => Cardinality(goals') < GoalLimit
    BY <2>2, SavingsAssumption
  <2>4. \A q \in doing' : q.what = "create" \/ Contributes(q)'
    BY <2>1 DEF SavingsInv, Contributes
  <2>5. QED
    BY <2>1, <2>2, <2>3, <2>4 DEF SavingsInv
<1>4. ASSUME NEW p \in doing, (\E g \in Goals : FinishCreate(p, g)) \/ FinishContribute(p)
      PROVE  SavingsInv'
  BY <1>4, FinishCreateInv, FinishContributeInv
<1>5. CASE Upgrade
  BY <1>5, SavingsAssumption DEF Upgrade, SavingsInv, Contributes
<1>6. CASE UNCHANGED savingsVars
  BY <1>6 DEF savingsVars, SavingsInv, Contributes
<1>7. QED
  BY <1>1, <1>2, <1>3, <1>4, <1>5, <1>6 DEF SavingsNext

(* What is at least a hundred hundredths of b rounds to at least 100.      *)
LEMMA RoundReached ==
  ASSUME NEW s \in Nat, NEW b \in Nat \ {0}, b <= s
  PROVE  Round(100 * s, b) >= 100 /\ Round(100 * s, b) \in Int
<1> DEFINE n == 200 * s + b
           d == 2 * b
           k == n \div d
<1>1. n \in Nat /\ d \in Nat /\ d > 0
  OBVIOUS
<1>2. n >= 100 * d
  OBVIOUS
<1>3. Round(100 * s, b) = k
  BY DEF Round
<1>4. \A x \in Nat, y \in Nat : y > 0 /\ x >= 100 * y => x \div y >= 100 /\ x \div y \in Int
  OBVIOUS
<1> HIDE DEF n, d
<1>5. QED
  BY <1>1, <1>2, <1>3, <1>4

(* No amount is invented, a goal said to be reached was given its target,  *)
(* and a free user is beyond the limit only by creating two goals at once. *)
THEOREM SavingsAreGiven == SavingsSpec => []SavedWasGiven
<1>1. ASSUME SavingsInv PROVE SavedWasGiven
  <2>1. ASSUME NEW g \in goals, Progress(g).reached
        PROVE  /\ gifts[g] >= Target
               /\ Progress(g).percent = 100 /\ Progress(g).remaining = 0
    <3>1. saved[g] \in Nat /\ gifts[g] \in Nat /\ saved[g] <= gifts[g]
      BY <1>1 DEF SavingsInv
    <3>2. Target <= saved[g]
      <4>1. Progress(g).reached = (Target - saved[g] <= 0)
        BY Zenon DEF Progress
      <4>2. Target - saved[g] <= 0
        BY <2>1, <4>1
      <4>3. QED
        BY <3>1, <4>2, SavingsAssumption
    <3>3. Round(100 * saved[g], Target) >= 100 /\ Round(100 * saved[g], Target) \in Int
      BY <3>1, <3>2, SavingsAssumption, RoundReached
    <3>4. Least(100, Round(100 * saved[g], Target)) = 100
      BY <3>3 DEF Least
    <3>5. Progress(g).remaining = 0
      BY <3>1, <3>2, SavingsAssumption DEF Progress
    <3>6. QED
      BY <3>1, <3>2, <3>4, <3>5, SavingsAssumption DEF Progress
  <2>2. QED
    BY <1>1, <2>1 DEF SavedWasGiven, SavingsInv
<1>2. QED
  BY SavingsInitInv, SavingsStep, <1>1, PTL DEF SavingsSpec
-----------------------------------------------------------------------------
(* The pace.  A day's share, however rounded, is never more than what is   *)
(* left to share.                                                          *)
LEMMA ShareIsPart ==
  ASSUME NEW a \in Nat \ {0}, NEW b \in Nat \ {0}
  PROVE  HalfUp(a, b) \in Nat /\ HalfUp(a, b) <= a
<1> DEFINE n == 2 * a + b
           d == 2 * b
<1>1. n \in Nat /\ d \in Nat /\ d > 0
  OBVIOUS
<1>2. n < d * (a + 1)
  <2>1. a * b >= a
    <3>1. PICK c \in Nat : b = c + 1
      <4>1. b - 1 \in Nat /\ b = (b - 1) + 1
        OBVIOUS
      <4>2. QED
        BY <4>1
    <3>2. a * b = a * c + a /\ a * c \in Nat
      BY <3>1
    <3>3. QED
      BY <3>2
  <2>2. d * (a + 1) = 2 * (a * b) + 2 * b /\ a * b \in Nat
    OBVIOUS
  <2>3. QED
    BY <2>1, <2>2
<1>3. \A x \in Nat, y \in Nat, z \in Nat : y > 0 /\ x < y * (z + 1) => x \div y <= z
  OBVIOUS
<1>4. \A x \in Nat, y \in Nat : y > 0 => x \div y \in Nat
  OBVIOUS
<1>5. HalfUp(a, b) = n \div d
  BY DEF HalfUp
<1> HIDE DEF n, d
<1>6. QED
  BY <1>1, <1>2, <1>3, <1>4, <1>5

LEMMA DailyIsPart ==
  ASSUME NEW planned \in Nat, NEW out \in Nat, NEW daysLeft \in Nat \ {0}
  PROVE  /\ Daily(planned, out, daysLeft) \in Nat
         /\ Daily(planned, out, daysLeft) <= IF planned - out <= 0 THEN 0 ELSE planned - out
<1>1. CASE planned - out <= 0
  BY <1>1 DEF Daily
<1>2. CASE ~(planned - out <= 0)
  <2>1. planned - out \in Nat \ {0}
    BY <1>2
  <2>2. HalfUp(planned - out, daysLeft) \in Nat /\ HalfUp(planned - out, daysLeft) <= planned - out
    BY <2>1, ShareIsPart
  <2>3. QED
    BY <1>2, <2>2 DEF Daily
<1>3. QED
  BY <1>1, <1>2

(* What computeSavingsPace answers, once a plan and an income are known.   *)
Planned(income, planned) == IF planned > income THEN income ELSE planned

LEMMA PaceAnswers ==
  ASSUME NEW income \in Nat, NEW planned \in Nat, NEW out \in Nat, NEW day \in 1 .. DaysTotal
  PROVE  LET pace == Pace(income, planned, out, day)
             limit == Planned(income, planned)
         IN  /\ pace.dailyNow \in Nat
             /\ income > 0 /\ planned > 0 =>
                  /\ pace.save = income - limit
                  /\ pace.dailyNow <= IF limit - out <= 0 THEN 0 ELSE limit - out
             /\ pace.status \in {"on_track", "behind"} =>
                  /\ income > 0 /\ planned > 0 /\ limit - out > 0
                  /\ pace.left = limit - out
<1> DEFINE limit == Planned(income, planned)
           daily == Daily(limit, out, DaysTotal - day + 1)
<1>1. limit \in Nat /\ DaysTotal - day + 1 \in Nat \ {0}
  BY PaceAssumption DEF Planned
<1>2. daily \in Nat /\ daily <= IF limit - out <= 0 THEN 0 ELSE limit - out
  BY <1>1, DailyIsPart
<1>3. CASE income = 0 \/ planned = 0
  BY <1>3 DEF Pace
<1>4. CASE income # 0 /\ planned # 0
  <2>1. /\ Pace(income, planned, out, day).dailyNow = daily
        /\ Pace(income, planned, out, day).save = income - limit
        /\ Pace(income, planned, out, day).left = IF limit - out <= 0 THEN 0 ELSE limit - out
        /\ limit - out <= 0 => Pace(income, planned, out, day).status = "over"
    BY <1>4 DEF Pace, Planned
  <2> HIDE DEF limit, daily
  <2>2. QED
    BY <1>1, <1>2, <1>4, <2>1 DEF limit
<1>5. QED
  BY <1>3, <1>4

(* What was spent until this morning, together with what was allowed this  *)
(* morning, is within the plan of somebody who follows the pace.           *)
PaceInv ==
  /\ today \in 1 .. DaysTotal
  /\ profileIncome \in Nat /\ recordedIncome \in Nat /\ plan \in Nat
  /\ spent \in Nat /\ spentToday \in Nat /\ spentToday <= spent /\ allowed \in Nat
  /\ followed =>
       /\ spentToday <= allowed
       /\ LET income == Income(profileIncome, recordedIncome)
          IN  income > 0 /\ plan > 0 => spent - spentToday + allowed <= Planned(income, plan)

LEMMA PaceInitInv == PaceInit => PaceInv
<1> SUFFICES ASSUME PaceInit PROVE PaceInv
  OBVIOUS
<1> DEFINE income == Income(profileIncome, recordedIncome)
<1>1. /\ today \in 1 .. DaysTotal /\ profileIncome \in Nat /\ recordedIncome \in Nat /\ plan \in Nat
      /\ spent = 0 /\ spentToday = 0 /\ allowed = Pace(income, plan, spent, today).dailyNow
  BY PaceAssumption DEF PaceInit, PaceNow
<1>2. income \in Nat /\ Planned(income, plan) \in Nat
  BY <1>1 DEF Income, Planned
<1>3. /\ allowed \in Nat
      /\ income > 0 /\ plan > 0 =>
           allowed <= IF Planned(income, plan) - spent <= 0 THEN 0 ELSE Planned(income, plan) - spent
  BY <1>1, <1>2, PaceAnswers
<1>4. QED
  BY <1>1, <1>2, <1>3 DEF PaceInv

LEMMA PaceStep == PaceInv /\ [PaceNext]_paceVars => PaceInv'
<1> SUFFICES ASSUME PaceInv, [PaceNext]_paceVars PROVE PaceInv'
  OBVIOUS
<1> DEFINE income == Income(profileIncome, recordedIncome)
<1>1. income \in Nat /\ Planned(income, plan) \in Nat
  BY DEF PaceInv, Income, Planned
<1>2. ASSUME NEW amount \in 1 .. 2, SpendSome(amount) PROVE PaceInv'
  <2>1. /\ spent' = spent + amount /\ spentToday' = spentToday + amount
        /\ UNCHANGED <<today, profileIncome, recordedIncome, plan, allowed>>
    BY <1>2 DEF SpendSome
  <2>2. followed' => followed /\ spentToday' <= allowed
    BY <1>2, Zenon DEF SpendSome
  <2>3. income' = income /\ Planned(income, plan)' = Planned(income, plan)
    BY <2>1
  <2>4. QED
    BY <1>1, <2>1, <2>2, <2>3 DEF PaceInv
<1>3. CASE DeleteExpense
  BY <1>1, <1>3 DEF DeleteExpense, PaceInv, Income, Planned
<1>4. ASSUME NEW p \in Incomes, NEW q \in Incomes, NEW r \in Plans, Replan(p, q, r) PROVE PaceInv'
  <2>1. p \in Nat /\ q \in Nat /\ r \in Nat /\ Income(p, q) \in Nat
    BY PaceAssumption DEF Income
  <2>2. allowed' \in Nat
    BY <1>4, <2>1, PaceAnswers DEF Replan, PaceInv
  <2>3. QED
    BY <1>4, <2>1, <2>2 DEF Replan, PaceInv
<1>5. CASE NextMorning
  <2> DEFINE limit == Planned(income, plan)
  <2>1. /\ today' \in 1 .. DaysTotal /\ spentToday' = 0
        /\ allowed' = Pace(income, plan, spent, today').dailyNow
        /\ UNCHANGED <<profileIncome, recordedIncome, plan, spent, followed>>
    BY <1>5, PaceAssumption DEF NextMorning, PaceInv
  <2>2. /\ allowed' \in Nat
        /\ income > 0 /\ plan > 0 =>
             allowed' <= IF limit - spent <= 0 THEN 0 ELSE limit - spent
    BY <1>1, <2>1, PaceAnswers DEF PaceInv
  <2>3. followed /\ income > 0 /\ plan > 0 => spent <= limit
    BY <1>1 DEF PaceInv
  <2>4. income' = income /\ Planned(income, plan)' = limit
    BY <2>1
  <2> HIDE DEF income, limit
  <2>5. followed' /\ income > 0 /\ plan > 0 => spent' - spentToday' + allowed' <= limit
    BY <1>1, <2>1, <2>2, <2>3 DEF PaceInv, limit
  <2>6. QED
    BY <2>1, <2>2, <2>4, <2>5 DEF PaceInv, income
<1>6. CASE UNCHANGED paceVars
  BY <1>6 DEF paceVars, PaceInv, Income, Planned
<1>7. QED
  BY <1>2, <1>3, <1>4, <1>5, <1>6 DEF PaceNext

(* Who follows the pace ends the month within the plan, for all incomes,   *)
(* plans and months; a pace that is not "over" tells what is left.         *)
THEOREM PaceKeepsPlan == PaceSpec => []PaceIsSafe
<1>1. ASSUME PaceInv PROVE PaceIsSafe
  <2> DEFINE income == Income(profileIncome, recordedIncome)
             limit == Planned(income, plan)
  <2>1. income \in Nat /\ limit \in Nat /\ limit = IF plan > income THEN income ELSE plan
    BY <1>1 DEF PaceInv, Income, Planned
  <2>2. /\ PaceNow.dailyNow \in Nat
        /\ income > 0 /\ plan > 0 =>
             /\ PaceNow.save = income - limit
             /\ PaceNow.dailyNow <= IF limit - spent <= 0 THEN 0 ELSE limit - spent
        /\ PaceNow.status \in {"on_track", "behind"} =>
             /\ income > 0 /\ plan > 0 /\ limit - spent > 0
             /\ PaceNow.left = limit - spent
    <3>1. spent \in Nat /\ plan \in Nat /\ today \in 1 .. DaysTotal
      BY <1>1 DEF PaceInv
    <3> DEFINE pace == Pace(income, plan, spent, today)
    <3>2. PaceNow = pace
      BY DEF PaceNow
    <3>3. /\ pace.dailyNow \in Nat
          /\ income > 0 /\ plan > 0 =>
               /\ pace.save = income - limit
               /\ pace.dailyNow <= IF limit - spent <= 0 THEN 0 ELSE limit - spent
          /\ pace.status \in {"on_track", "behind"} =>
               /\ income > 0 /\ plan > 0 /\ limit - spent > 0
               /\ pace.left = limit - spent
      <4> HIDE DEF income
      <4>1. QED
        BY <2>1, <3>1, PaceAnswers, SMTT(20)
    <3> HIDE DEF income, limit, pace
    <3>4. QED
      BY <3>2, <3>3
  <2>3. followed /\ income > 0 /\ plan > 0 => spent <= limit
    BY <1>1, <2>1 DEF PaceInv
  <2> HIDE DEF income, limit
  <2>4. followed /\ income > 0 /\ plan > 0 => spent <= limit /\ income - spent >= PaceNow.save
    BY <1>1, <2>1, <2>2, <2>3 DEF PaceInv
  <2>5. PaceNow.status \in {"on_track", "behind"} =>
          PaceNow.left + spent = limit /\ PaceNow.dailyNow <= PaceNow.left
    BY <1>1, <2>1, <2>2 DEF PaceInv
  <2>6. QED
    BY <2>1, <2>4, <2>5 DEF PaceIsSafe, income
<1>2. QED
  BY PaceInitInv, PaceStep, <1>1, PTL DEF PaceSpec
-----------------------------------------------------------------------------
(* Signing up.  A request that has passed the sign-up has a user; once the *)
(* default accounts were created, there is one of every name; an account   *)
(* that is revived as the default is the one that every request picks.     *)
Places == {"find", "byId", "insert", "audit", "find again", "category", "create category",
           "audit category", "category again", "default", "list", "ensure", "default again",
           "list again", "any", "failed", "no category", "slug taken"}
Asking == [at : Places, kind : Kinds \cup {"login"}, chat : BOOLEAN, chosen : BOOLEAN]
Placed == [at : {"revive", "logged", "failed"}, kind : Kinds \cup {"login"}, account : Names]

AllThere == \A n \in Names : account[n] # "none"
PickedByAll(n) == default = {n} \/ (default = {} /\ \A m \in Names : n <= m)

Stands(x) ==
  /\ x \in {Idle} \cup Asking \cup Placed
  /\ x.at \notin {"idle", "find", "insert", "failed"} => user
  /\ x.at \in {"default again", "list again", "any", "revive"} => AllThere
  /\ x.at \in {"create category", "category again", "slug taken"} => x.chosen /\ x.kind \in Kinds
  /\ x.at \in {"category again", "slug taken"} => own # "none"
  /\ x.at = "slug taken" => own # x.kind
  /\ x.at = "no category" => ~Seeded
  /\ x.at = "logged" => account[x.account] # "none"
  /\ x.at = "revive" => PickedByAll(x.account)

SignUpInv ==
  /\ user \in BOOLEAN /\ account \in [Names -> {"none", "open", "archived"}]
  /\ own \in Kinds \cup {"none"} /\ token \in BOOLEAN /\ (token => user)
  /\ ~user => own = "none" /\ \A n \in Names : account[n] = "none"
  /\ default = {} \/ \E n \in Names : default = {n} /\ account[n] # "none" /\ (n = Cash \/ AllThere)
  /\ DOMAIN entry = Entries /\ \A e \in Entries : Stands(entry[e])

LEMMA SignUpInitInv == SignUpInit => SignUpInv
<1> SUFFICES ASSUME SignUpInit PROVE SignUpInv
  OBVIOUS
<1>1. \A e \in Entries : Stands(entry[e])
  BY DEF SignUpInit, Stands, Idle
<1>2. default = {} \/ default = {Cash}
  BY DEF SignUpInit
<1>3. QED
  BY <1>1, <1>2, SignUpAssumption DEF SignUpInit, SignUpInv

(* Of some names one comes first: the default, or the least.               *)
LEMMA FirstOfThem ==
  ASSUME SignUpInv, NEW S \in SUBSET Names, S # {}
  PROVE  /\ FirstBy(S) \in S
         /\ \A n \in S : default = {n} => FirstBy(S) = n
         /\ default = {} => \A m \in S : FirstBy(S) <= m
<1> DEFINE ComesFirst(n) == \A m \in S \ {n} :
                         \/ n \in default /\ m \notin default
                         \/ (n \in default) = (m \in default) /\ n < m
<1>1. PICK least \in S : \A m \in S : least <= m
  <2>1. S \subseteq Nat
    BY SignUpAssumption
  <2>2. PICK n \in S : \A m \in S : <<m, n>> \notin OpToRel(<, Nat)
    BY <2>1, NatLessThanWellFounded, WFMin
  <2>3. \A m \in S : ~(m < n)
    BY <2>1, <2>2 DEF OpToRel
  <2>4. QED
    BY <2>1, <2>3
<1>2. \E n \in S : ComesFirst(n)
  <2>1. CASE \E n \in S : default = {n}
    BY <2>1
  <2>2. CASE ~\E n \in S : default = {n}
    <3>1. \A n \in S : n \notin default
      BY <2>2 DEF SignUpInv
    <3>2. ComesFirst(least)
      <4>1. \A m \in S \ {least} : least < m
        BY <1>1, SignUpAssumption
      <4>2. QED
        BY <3>1, <4>1
    <3>3. QED
      BY <3>2
  <2>3. QED
    BY <2>1, <2>2
<1>3. FirstBy(S) \in S /\ ComesFirst(FirstBy(S))
  BY <1>2 DEF FirstBy
<1>4. ASSUME NEW n \in S, default = {n} PROVE FirstBy(S) = n
  BY <1>3, <1>4
<1>5. ASSUME default = {}, NEW m \in S PROVE FirstBy(S) <= m
  <2>1. m # FirstBy(S) => FirstBy(S) < m
    BY <1>3, <1>5
  <2>2. FirstBy(S) \in Nat /\ m \in Nat
    BY <1>3, SignUpAssumption
  <2> HIDE DEF ComesFirst
  <2>3. QED
    BY <2>1, <2>2
<1>6. QED
  BY <1>3, <1>4, <1>5

(* A step of one request that changes nothing the others rely on.          *)
LEMMA OneMoves ==
  ASSUME SignUpInv, NEW e \in Entries, NEW new, Goto(e, new), Stands(new)',
         UNCHANGED <<user, account, default>>, token' \in BOOLEAN, token' => user,
         own' = own \/ (own = "none" /\ own' \in Kinds /\ user)
  PROVE  SignUpInv'
<1>1. entry' = [entry EXCEPT ![e] = new] /\ DOMAIN entry = Entries
  BY DEF Goto, SignUpInv
<1>2. ASSUME NEW f \in Entries PROVE Stands(entry[f])'
  <2>1. CASE f = e
    BY <1>1, <2>1
  <2>2. CASE f # e
    <3>1. entry'[f] = entry[f] /\ Stands(entry[f])
      BY <1>1, <2>2 DEF SignUpInv
    <3>2. entry[f].at = "slug taken" => own' = own
      BY <3>1 DEF Stands
    <3>3. QED
      BY <3>1, <3>2, ZenonT(60) DEF Stands, AllThere, PickedByAll, SignUpInv, Kinds
  <2>3. QED
    BY <2>1, <2>2
<1>3. own' \in Kinds \cup {"none"} /\ (~user => own' = "none")
  BY DEF SignUpInv
<1>4. QED
  BY <1>1, <1>2, <1>3 DEF SignUpInv, AllThere

(* What a request carries depends on where it is.                          *)
LEMMA WhatIsCarried ==
  ASSUME NEW x, Stands(x)
  PROVE  /\ x.at # "idle" => x \in Asking \cup Placed /\ x.kind \in Kinds \cup {"login"}
         /\ x.at \in Places \ {"failed"} => x \in Asking
         /\ x.at \in {"revive", "logged"} => x.account \in Names
<1>1. x \in {Idle} \cup Asking \cup Placed
  BY DEF Stands
<1>2. CASE x = Idle
  BY <1>2 DEF Idle, Places
<1>3. CASE x \in Asking
  BY <1>3 DEF Asking, Places
<1>4. CASE x \in Placed
  BY <1>4 DEF Placed, Places
<1>5. QED
  BY <1>1, <1>2, <1>3, <1>4

(* A request that goes on to the next place with what it carries.          *)
LEMMA GoesOn ==
  ASSUME SignUpInv, NEW e \in Entries, entry[e].at \in Places \ {"failed"},
         NEW place \in Places, MoveTo(e, place), UNCHANGED <<user, account, default, token>>,
         own' = own \/ (own = "none" /\ own' \in Kinds /\ user),
         place \notin {"insert", "failed"} => user,
         place \in {"default again", "list again", "any"} => AllThere,
         place \in {"create category", "category again", "slug taken"} =>
           entry[e].chosen /\ entry[e].kind \in Kinds,
         place \in {"category again", "slug taken"} => own' # "none",
         place = "slug taken" => own' # entry[e].kind,
         place = "no category" => ~Seeded
  PROVE  SignUpInv'
<1> PICK new : new = [entry[e] EXCEPT !.at = place]
  OBVIOUS
<1>1. entry[e] \in Asking
  BY WhatIsCarried DEF SignUpInv
<1>2. new \in Asking /\ new.at = place /\ new.kind = entry[e].kind /\ new.chosen = entry[e].chosen
  BY <1>1 DEF Asking
<1>3. Goto(e, new)
  BY DEF MoveTo
<1>4. Stands(new)'
  BY <1>2 DEF Stands, AllThere, Places
<1>5. token' \in BOOLEAN /\ (token' => user)
  BY DEF SignUpInv
<1>6. QED
  BY <1>3, <1>4, <1>5, OneMoves

LEMMA FindingUserInv ==
  ASSUME SignUpInv, NEW e \in Entries,
         \/ \E kind \in Kinds \cup {"login"}, chat \in BOOLEAN :
              Arrive(e, kind, chat) \/ (kind \in Kinds /\ ArriveWithToken(e, kind))
         \/ FindById(e) \/ FindUser(e) \/ FindUserAgain(e) \/ LogIn(e)
         \/ \E fails \in BOOLEAN : AuditUser(e, fails)
  PROVE  SignUpInv'
<1>1. Stands(entry[e]) /\ token \in BOOLEAN /\ (token => user)
  BY DEF SignUpInv
<1>2. ASSUME NEW kind \in Kinds \cup {"login"}, NEW chat \in BOOLEAN, NEW place \in {"find", "byId"},
             Goto(e, [at |-> place, kind |-> kind, chat |-> chat, chosen |-> FALSE]),
             UNCHANGED <<user, account, default, own, token>>, place = "byId" => token
      PROVE  SignUpInv'
  <2> DEFINE new == [at |-> place, kind |-> kind, chat |-> chat, chosen |-> FALSE]
  <2>1. new \in Asking /\ new.at = place
    BY DEF Asking, Places
  <2> HIDE DEF new
  <2>2. Stands(new)'
    BY <1>1, <1>2, <2>1 DEF Stands
  <2>3. QED
    BY <1>1, <1>2, <2>2, OneMoves DEF new
<1>3. ASSUME NEW kind \in Kinds \cup {"login"}, NEW chat \in BOOLEAN,
             Arrive(e, kind, chat) \/ (kind \in Kinds /\ ArriveWithToken(e, kind))
      PROVE  SignUpInv'
  BY <1>2, <1>3 DEF Arrive, ArriveWithToken
<1>4. CASE FindById(e) \/ FindUser(e) \/ FindUserAgain(e)
  <2>1. \E place \in {"category", "insert"} :
          /\ entry[e].at \in {"byId", "find", "find again"} /\ MoveTo(e, place)
          /\ place = "category" => user
    BY <1>1, <1>4 DEF FindById, FindUser, FindUserAgain, At, Stands
  <2>2. QED
    BY <1>4, <2>1, GoesOn DEF FindById, FindUser, FindUserAgain, Places
<1>5. CASE LogIn(e)
  <2>1. user /\ Stands(Idle)'
    BY <1>1, <1>5 DEF LogIn, At, Stands, Idle
  <2>2. QED
    BY <1>5, <2>1, OneMoves DEF LogIn
<1>6. ASSUME NEW fails \in BOOLEAN, AuditUser(e, fails) PROVE SignUpInv'
  BY <1>1, <1>6, GoesOn DEF AuditUser, At, Places, Stands
<1>7. QED
  BY <1>3, <1>4, <1>5, <1>6

LEMMA FindingCategoryInv ==
  ASSUME SignUpInv, NEW e \in Entries,
         \/ Offer(e) \/ FindCategory(e) \/ CreateCategory(e) \/ FindCategoryAgain(e)
         \/ \E fails \in BOOLEAN : AuditCategory(e, fails)
  PROVE  SignUpInv'
<1>1. Stands(entry[e]) /\ token \in BOOLEAN /\ (token => user) /\ own \in Kinds \cup {"none"}
  BY DEF SignUpInv
<1>2. At(e, "category") => entry[e] \in Asking /\ user
  BY <1>1 DEF At, Stands, Placed, Idle
<1>3. CASE Offer(e)
  <2> PICK new : new = [entry[e] EXCEPT !.chat = FALSE, !.chosen = own # entry[e].kind]
    OBVIOUS
  <2>1. Goto(e, new) /\ At(e, "category") /\ UNCHANGED <<user, account, default, own, token>>
    BY <1>3 DEF Offer
  <2>2. new \in Asking /\ new.at = "category"
    BY <1>2, <2>1 DEF Asking, At
  <2>3. Stands(new)'
    BY <1>2, <2>1, <2>2 DEF Stands
  <2>4. QED
    BY <1>1, <2>1, <2>3, OneMoves
<1>4. CASE FindCategory(e)
  <2>1. \E place \in {"default", "create category", "no category"} :
          /\ MoveTo(e, place) /\ (place = "create category" => entry[e].chosen)
          /\ place = "no category" => ~Seeded
    BY <1>4 DEF FindCategory, Fallback, MoveTo
  <2>2. At(e, "category") /\ entry[e].kind \in Kinds
    BY <1>2, <1>4 DEF FindCategory, Asking
  <2>3. QED
    BY <1>2, <1>4, <2>1, <2>2, GoesOn DEF FindCategory, At, Places
<1>5. CASE CreateCategory(e)
  <2>1. /\ entry[e].at = "create category" /\ user /\ entry[e].chosen /\ entry[e].kind \in Kinds
    BY <1>1, <1>5 DEF CreateCategory, At, Stands
  <2>2. QED
    BY <1>5, <2>1, GoesOn DEF CreateCategory, Places, Kinds
<1>6. CASE FindCategoryAgain(e)
  <2>1. /\ entry[e].at = "category again" /\ user /\ entry[e].chosen /\ entry[e].kind \in Kinds
        /\ own # "none"
    BY <1>1, <1>6 DEF FindCategoryAgain, At, Stands
  <2>2. QED
    BY <1>6, <2>1, GoesOn DEF FindCategoryAgain, Places
<1>7. ASSUME NEW fails \in BOOLEAN, AuditCategory(e, fails) PROVE SignUpInv'
  BY <1>1, <1>7, GoesOn DEF AuditCategory, At, Places, Stands
<1>8. QED
  BY <1>3, <1>4, <1>5, <1>6, <1>7

(* A request that is over, or breaks off.                                  *)
LEMMA LeavingInv ==
  ASSUME SignUpInv, NEW e \in Entries, Answer(e) \/ Break(e)
  PROVE  SignUpInv'
<1>1. Stands(entry[e]) /\ token \in BOOLEAN /\ (token => user)
  BY DEF SignUpInv
<1>2. CASE Answer(e)
  <2>1. Stands(Idle)'
    BY DEF Stands, Idle
  <2>2. QED
    BY <1>1, <1>2, <2>1, OneMoves DEF Answer
<1>3. CASE Break(e)
  <2> PICK new : new = [entry[e] EXCEPT !.at = "failed"]
    OBVIOUS
  <2>1. entry[e] \in Asking \cup Placed
    BY <1>1, <1>3, WhatIsCarried DEF Break
  <2>2. new \in Asking \cup Placed /\ new.at = "failed"
    BY <2>1 DEF Asking, Placed, Places
  <2>3. Stands(new)'
    BY <2>2 DEF Stands
  <2>4. QED
    BY <1>1, <1>3, <2>3, OneMoves DEF Break, MoveTo
<1>4. QED
  BY <1>2, <1>3

(* What the other requests rely on when accounts are opened or archived.   *)
LEMMA OthersStand ==
  ASSUME SignUpInv, NEW x, Stands(x), user => user', own' = own,
         \A n \in Names : account[n] # "none" => account'[n] # "none",
         user /\ AllThere => \A n \in Names : PickedByAll(n) => PickedByAll(n)'
  PROVE  Stands(x)'
<1>1. AllThere => AllThere'
  BY DEF AllThere
<1>2. x.at = "revive" => x.account \in Names /\ user /\ AllThere
  BY WhatIsCarried DEF Stands
<1>3. x.at = "logged" => x.account \in Names
  BY WhatIsCarried
<1>4. QED
  BY <1>1, <1>2, <1>3 DEF Stands

LEMMA AllStand ==
  ASSUME SignUpInv, NEW e \in Entries, NEW new, Goto(e, new), Stands(new)',
         user => user', own' = own,
         \A n \in Names : account[n] # "none" => account'[n] # "none",
         user /\ AllThere => \A n \in Names : PickedByAll(n) => PickedByAll(n)'
  PROVE  \A f \in Entries : Stands(entry[f])'
<1> SUFFICES ASSUME NEW f \in Entries PROVE Stands(entry[f])'
  OBVIOUS
<1>1. entry' = [entry EXCEPT ![e] = new] /\ DOMAIN entry = Entries
  BY DEF Goto, SignUpInv
<1>2. CASE f = e
  BY <1>1, <1>2
<1>3. CASE f # e
  <2>1. entry'[f] = entry[f] /\ Stands(entry[f])
    BY <1>1, <1>3 DEF SignUpInv
  <2>2. PICK x : x = entry[f]
    OBVIOUS
  <2>3. Stands(x)'
    BY <2>1, <2>2, OthersStand
  <2>4. QED
    BY <2>1, <2>2, <2>3, ZenonT(60) DEF Stands
<1>4. QED
  BY <1>2, <1>3

LEMMA LogInv ==
  ASSUME SignUpInv, NEW e \in Entries, NEW n \in Names, account[n] # "none", Log(e, n),
         entry[e].at \in {"default", "list", "default again", "list again"},
         UNCHANGED <<user, account, default, own, token>>
  PROVE  SignUpInv'
<1> PICK new : new = [at |-> "logged", kind |-> entry[e].kind, account |-> n]
  OBVIOUS
<1>1. Stands(entry[e]) /\ token \in BOOLEAN /\ (token => user)
  BY DEF SignUpInv
<1>2. new \in Placed /\ new.at = "logged" /\ new.account = n
  BY <1>1, WhatIsCarried DEF Placed
<1>3. Stands(new)'
  BY <1>1, <1>2 DEF Stands
<1>4. QED
  BY <1>1, <1>3, OneMoves DEF Log

LEMMA LookingForAccountInv ==
  ASSUME SignUpInv, NEW e \in Entries,
         \/ FindDefault(e, "default", "list") \/ ListFirst(e, "list", "ensure")
         \/ FindDefault(e, "default again", "list again") \/ ListFirst(e, "list again", "any")
         \/ FindArchived(e)
  PROVE  SignUpInv'
<1>1. Stands(entry[e]) /\ token \in BOOLEAN /\ (token => user)
  BY DEF SignUpInv
<1>2. \A n \in Open : n \in Names /\ account[n] # "none"
  BY DEF Open
<1>3. ASSUME NEW here \in {"default", "default again"}, NEW next \in {"list", "list again"},
             FindDefault(e, here, next), here = "default again" <=> next = "list again"
      PROVE  SignUpInv'
  <2>1. entry[e].at = here /\ user /\ (here = "default again" => AllThere)
    BY <1>1, <1>3 DEF FindDefault, At, Stands
  <2>2. CASE Open \cap default # {}
    BY <1>2, <1>3, <2>1, <2>2, LogInv DEF FindDefault
  <2>3. CASE Open \cap default = {}
    BY <1>3, <2>1, <2>3, GoesOn DEF FindDefault, Places
  <2>4. QED
    BY <2>2, <2>3
<1>4. ASSUME NEW here \in {"list", "list again"}, NEW next \in {"ensure", "any"},
             ListFirst(e, here, next), here = "list again" <=> next = "any"
      PROVE  SignUpInv'
  <2>1. entry[e].at = here /\ user /\ (here = "list again" => AllThere)
    BY <1>1, <1>4 DEF ListFirst, At, Stands
  <2>2. CASE Open # {}
    <3>1. FirstBy(Open) \in Open
      BY <2>2, FirstOfThem DEF Open
    <3>2. PICK n : n = FirstBy(Open)
      OBVIOUS
    <3>3. Log(e, n) /\ UNCHANGED <<user, account, default, own, token>>
      BY <1>4, <2>2, <3>2 DEF ListFirst
    <3>4. QED
      BY <1>2, <2>1, <3>1, <3>2, <3>3, LogInv
  <2>3. CASE Open = {}
    BY <1>4, <2>1, <2>3, GoesOn DEF ListFirst, Places
  <2>4. QED
    BY <2>2, <2>3
<1>5. CASE FindArchived(e)
  <2> DEFINE any == {n \in Names : account[n] # "none"}
  <2>1. entry[e].at = "any" /\ user /\ AllThere /\ UNCHANGED <<user, account, default, own, token>>
    BY <1>1, <1>5 DEF FindArchived, At, Stands
  <2>2. any = Names /\ Names # {}
    BY <2>1, SignUpAssumption DEF AllThere
  <2>3. PICK n : n = FirstBy(Names)
    OBVIOUS
  <2>4. n \in Names /\ PickedByAll(n)
    <3>1. /\ n \in Names /\ (default = {} => \A m \in Names : n <= m)
          /\ \A m \in Names : default = {m} => n = m
      BY <2>2, <2>3, FirstOfThem
    <3>2. QED
      BY <3>1 DEF PickedByAll, SignUpInv
  <2>5. PICK new : new = [at |-> "revive", kind |-> entry[e].kind, account |-> n]
    OBVIOUS
  <2>6. Goto(e, new)
    BY <1>5, <2>2, <2>3, <2>5 DEF FindArchived
  <2>7. new \in Placed /\ new.at = "revive" /\ new.account = n
    BY <1>1, <2>1, <2>4, <2>5, WhatIsCarried DEF Placed
  <2>8. Stands(new)'
    BY <2>1, <2>4, <2>7 DEF Stands, AllThere, PickedByAll
  <2>9. QED
    BY <1>1, <2>1, <2>6, <2>8, OneMoves
<1>6. QED
  BY <1>1, <1>3, <1>4, <1>5

LEMMA InsertUserInv ==
  ASSUME SignUpInv, NEW e \in Entries, InsertUser(e)
  PROVE  SignUpInv'
<1>1. entry[e].at = "insert" /\ Stands(entry[e]) /\ UNCHANGED <<own, token>>
  BY DEF InsertUser, At, SignUpInv
<1>2. CASE user
  BY <1>1, <1>2, GoesOn DEF InsertUser, Places
<1>3. CASE ~user
  <2>1. /\ user' = TRUE /\ account' = [n \in Names |-> "open"] /\ default' = {Cash}
        /\ MoveTo(e, "audit")
    BY <1>3 DEF InsertUser
  <2>2. PICK new : new = [entry[e] EXCEPT !.at = "audit"]
    OBVIOUS
  <2>3. entry' = [entry EXCEPT ![e] = new] /\ DOMAIN entry = Entries
    BY <2>1, <2>2 DEF MoveTo, Goto, SignUpInv
  <2>4. new \in Asking /\ new.at = "audit"
    <3>1. entry[e] \in Asking
      BY <1>1, WhatIsCarried DEF Places
    <3>2. QED
      BY <2>2, <3>1 DEF Asking, Places
  <2>5. Stands(new)'
    BY <2>1, <2>4 DEF Stands
  <2>6. \A f \in Entries : Stands(entry[f])'
    BY <1>1, <1>3, <2>1, <2>2, <2>5, AllStand DEF MoveTo
  <2>7. QED
    BY <1>1, <2>1, <2>3, <2>6, SignUpAssumption DEF SignUpInv
<1>4. QED
  BY <1>2, <1>3

(* Accounts that are missing are created; none is a second default.        *)
LEMMA EnsureDefaultsInv ==
  ASSUME SignUpInv, NEW e \in Entries, EnsureDefaults(e)
  PROVE  SignUpInv'
<1>1. /\ entry[e].at = "ensure" /\ Stands(entry[e]) /\ UNCHANGED <<user, own, token>>
      /\ account' = [n \in Names |-> IF account[n] = "none" THEN "open" ELSE account[n]]
      /\ default' = default \cup ({Cash} \ {n \in Names : account[n] # "none"})
      /\ MoveTo(e, "default again") /\ user /\ DOMAIN entry = Entries
  BY DEF EnsureDefaults, At, SignUpInv, Stands
<1>2. AllThere' /\ \A n \in Names : account[n] # "none" => account'[n] # "none"
  BY <1>1 DEF AllThere
<1>3. AllThere => default' = default
  BY <1>1, SignUpAssumption DEF AllThere
<1>4. default' = {} \/ \E n \in Names : default' = {n}
  <2>1. CASE account[Cash] = "none"
    <3>1. default' = default \cup {Cash}
      BY <1>1, <2>1
    <3>2. default = {} \/ default = {Cash}
      BY <2>1, SignUpAssumption DEF SignUpInv, AllThere
    <3>3. QED
      BY <3>1, <3>2, SignUpAssumption
  <2>2. CASE account[Cash] # "none"
    BY <1>1, <2>2, SignUpAssumption DEF SignUpInv
  <2>3. QED
    BY <2>1, <2>2
<1>5. PICK new : new = [entry[e] EXCEPT !.at = "default again"]
  OBVIOUS
<1>6. new \in Asking /\ new.at = "default again"
  <2>1. entry[e] \in Asking
    BY <1>1, WhatIsCarried DEF Places
  <2>2. QED
    BY <1>5, <2>1 DEF Asking, Places
<1>7. Stands(new)'
  BY <1>1, <1>2, <1>6 DEF Stands
<1>8. \A f \in Entries : Stands(entry[f])'
  BY <1>1, <1>2, <1>3, <1>5, <1>7, AllStand DEF MoveTo, PickedByAll
<1>9. DOMAIN entry' = Entries /\ account' \in [Names -> {"none", "open", "archived"}]
  BY <1>1 DEF MoveTo, Goto, SignUpInv
<1>10. QED
  BY <1>1, <1>2, <1>4, <1>8, <1>9 DEF SignUpInv, AllThere

LEMMA ReviveInv ==
  ASSUME SignUpInv, NEW e \in Entries, Revive(e)
  PROVE  SignUpInv'
<1> PICK n : n = entry[e].account
  OBVIOUS
<1>1. /\ entry[e].at = "revive" /\ Stands(entry[e]) /\ UNCHANGED <<user, own, token>>
      /\ account' = [account EXCEPT ![n] = "open"] /\ default' = default \cup {n}
      /\ Log(e, n) /\ user /\ AllThere /\ DOMAIN entry = Entries
      /\ account \in [Names -> {"none", "open", "archived"}]
  BY DEF Revive, At, SignUpInv, Stands
<1>2. n \in Names /\ PickedByAll(n)
  BY <1>1, WhatIsCarried DEF Stands
<1>3. default' = {n} /\ account'[n] = "open"
  BY <1>1, <1>2 DEF PickedByAll
<1>4. AllThere' /\ account' \in [Names -> {"none", "open", "archived"}]
  BY <1>1 DEF AllThere
<1>5. ASSUME NEW m \in Names, PickedByAll(m) PROVE m = n
  <2>1. CASE default = {}
    <3>1. n <= m /\ m <= n /\ n \in Nat /\ m \in Nat
      BY <1>2, <1>5, <2>1, SignUpAssumption DEF PickedByAll
    <3>2. QED
      BY <3>1
  <2>2. CASE default # {}
    BY <1>2, <1>5, <2>2 DEF PickedByAll
  <2>3. QED
    BY <2>1, <2>2
<1>6. \A m \in Names : PickedByAll(m) => PickedByAll(m)'
  BY <1>3, <1>5 DEF PickedByAll
<1>7. PICK new : new = [at |-> "logged", kind |-> entry[e].kind, account |-> n]
  OBVIOUS
<1>8. new \in Placed /\ new.at = "logged" /\ new.account = n
  BY <1>1, <1>2, <1>7, WhatIsCarried DEF Placed
<1>9. Stands(new)'
  BY <1>1, <1>3, <1>8 DEF Stands
<1>10. \A f \in Entries : Stands(entry[f])'
  BY <1>1, <1>4, <1>6, <1>7, <1>9, AllStand DEF Log, AllThere
<1>11. DOMAIN entry' = Entries
  BY <1>1 DEF Log, Goto
<1>12. QED
  BY <1>1, <1>2, <1>3, <1>4, <1>10, <1>11 DEF SignUpInv

(* Steps of no request.                                                    *)
LEMMA AsideInv ==
  ASSUME SignUpInv,
         \/ \E kind \in Kinds : AddOwnCategory(kind)
         \/ \E n \in Names : Archive(n)
         \/ TokenExpires
         \/ UNCHANGED signUpVars
  PROVE  SignUpInv'
<1>1. ASSUME NEW kind \in Kinds, AddOwnCategory(kind) PROVE SignUpInv'
  <2>1. own = "none" /\ own' = kind /\ user /\ UNCHANGED <<user, account, default, token, entry>>
    BY <1>1 DEF AddOwnCategory
  <2>2. \A e \in Entries : Stands(entry[e])'
    BY <1>1, <2>1 DEF SignUpInv, Stands, AllThere, PickedByAll, Kinds
  <2>3. QED
    BY <1>1, <2>1, <2>2 DEF SignUpInv, AllThere
<1>2. ASSUME NEW n \in Names, Archive(n) PROVE SignUpInv'
  <2>1. /\ account[n] = "open" /\ account' = [account EXCEPT ![n] = "archived"]
        /\ UNCHANGED <<user, default, own, token, entry>>
    BY <1>2 DEF Archive
  <2>2. /\ account' \in [Names -> {"none", "open", "archived"}]
        /\ \A m \in Names : account'[m] = "none" <=> account[m] = "none"
    BY <2>1 DEF SignUpInv
  <2>3. \A e \in Entries : Stands(entry[e])'
    <3>1. ASSUME NEW e \in Entries PROVE Stands(entry[e])'
      <4>1. PICK x : x = entry[e]
        OBVIOUS
      <4>2. Stands(x)'
        BY <2>1, <2>2, <4>1, OthersStand DEF SignUpInv, PickedByAll
      <4>3. QED
        BY <2>1, <4>1, <4>2 DEF Stands
    <3>2. QED
      BY <3>1
  <2>4. QED
    BY <2>1, <2>2, <2>3 DEF SignUpInv, AllThere
<1>3. CASE TokenExpires \/ UNCHANGED signUpVars
  <2>1. UNCHANGED <<user, account, default, own, entry>> /\ (token' = FALSE \/ token' = token)
    BY <1>3 DEF TokenExpires, signUpVars
  <2>2. \A e \in Entries : Stands(entry[e])'
    BY <2>1 DEF SignUpInv, Stands, AllThere, PickedByAll
  <2>3. token' \in BOOLEAN /\ (token' => user)
    <3>1. token \in BOOLEAN /\ (token => user)
      BY DEF SignUpInv
    <3>2. CASE token' = FALSE
      BY <3>2
    <3>3. CASE token' = token
      BY <3>1, <3>3
    <3>4. QED
      BY <2>1, <3>2, <3>3
  <2>4. QED
    BY <2>1, <2>2, <2>3 DEF SignUpInv, AllThere
<1>4. QED
  BY <1>1, <1>2, <1>3

LEMMA SignUpStep == SignUpInv /\ [SignUpNext]_signUpVars => SignUpInv'
<1> SUFFICES ASSUME SignUpInv, [SignUpNext]_signUpVars PROVE SignUpInv'
  OBVIOUS
<1>1. ASSUME NEW e \in Entries,
             \/ \E kind \in Kinds, chat \in BOOLEAN : Arrive(e, kind, chat) \/ ArriveWithToken(e, kind)
             \/ Arrive(e, "login", FALSE)
             \/ FindById(e) \/ FindUser(e) \/ FindUserAgain(e) \/ LogIn(e)
             \/ \E fails \in BOOLEAN : AuditUser(e, fails)
      PROVE  SignUpInv'
  BY <1>1, FindingUserInv
<1>2. ASSUME NEW e \in Entries,
             \/ Offer(e) \/ FindCategory(e) \/ CreateCategory(e) \/ FindCategoryAgain(e)
             \/ \E fails \in BOOLEAN : AuditCategory(e, fails)
             \/ FindDefault(e, "default", "list") \/ ListFirst(e, "list", "ensure")
             \/ FindDefault(e, "default again", "list again") \/ ListFirst(e, "list again", "any")
             \/ FindArchived(e)
      PROVE  SignUpInv'
  BY <1>2, FindingCategoryInv, LookingForAccountInv
<1>3. ASSUME NEW e \in Entries,
             InsertUser(e) \/ EnsureDefaults(e) \/ Revive(e) \/ Answer(e) \/ Break(e)
      PROVE  SignUpInv'
  BY <1>3, InsertUserInv, EnsureDefaultsInv, ReviveInv, LeavingInv
<1>4. CASE \/ \E kind \in Kinds : AddOwnCategory(kind)
           \/ \E n \in Names : Archive(n)
           \/ TokenExpires
           \/ UNCHANGED signUpVars
  BY <1>4, AsideInv
<1>5. QED
  BY <1>1, <1>2, <1>3, <1>4 DEF SignUpNext

(* However many requests overlap, a contact finds its user and an entry a  *)
(* place, and the user has at most one default account.                    *)
THEOREM PlaceToLog == SignUpSpec => []AlwaysAPlaceToLog
<1>1. ASSUME SignUpInv PROVE AlwaysAPlaceToLog
  <2>1. ASSUME NEW e \in Entries
        PROVE  /\ entry[e].at \notin {"no user", "no account"}
               /\ At(e, "no category") => ~Seeded
               /\ At(e, "slug taken") => entry[e].chosen /\ own \in Kinds \ {entry[e].kind}
               /\ entry[e].at \in {"audit", "category", "default", "logged"} => user
               /\ At(e, "logged") => account[entry[e].account] # "none"
    <3>1. Stands(entry[e]) /\ own \in Kinds \cup {"none"}
      BY <1>1 DEF SignUpInv
    <3>2. entry[e].at \notin {"no user", "no account"}
      <4>1. \A x \in Asking \cup Placed : x.at \notin {"no user", "no account"}
        BY DEF Asking, Placed, Places
      <4>2. entry[e].at # "idle" => entry[e] \in Asking \cup Placed
        BY <3>1, WhatIsCarried
      <4>3. QED
        BY <4>1, <4>2
    <3>3. QED
      BY <3>1, <3>2 DEF Stands, At
  <2>2. Cardinality(default) <= 1 /\ \A n \in default : account[n] # "none"
    <3>1. CASE default = {}
      BY <3>1, FS_EmptySet
    <3>2. CASE default # {}
      <4>1. PICK n \in Names : default = {n} /\ account[n] # "none"
        BY <1>1, <3>2 DEF SignUpInv
      <4>2. Cardinality({n}) = 1
        BY FS_Singleton
      <4>3. QED
        BY <4>1, <4>2
    <3>3. QED
      BY <3>1, <3>2
  <2>3. QED
    BY <1>1, <2>1, <2>2 DEF AlwaysAPlaceToLog, SignUpInv
<1>2. QED
  BY SignUpInitInv, SignUpStep, <1>1, PTL DEF SignUpSpec
-----------------------------------------------------------------------------
(* The calendar.  The first day of a month is the number of days before    *)
(* it, so the recursive definition of Start has a solution.                *)
DaysBefore(m) == UNION {{k} \X (1 .. MonthLengths[k]) : k \in 1 .. (m - 1)}

LEMMA Calendar ==
  /\ Months = 1 .. Len(MonthLengths) /\ Len(MonthLengths) \in Nat /\ Len(MonthLengths) >= 3
  /\ \A m \in Months : MonthLengths[m] \in Nat /\ MonthLengths[m] >= 1
<1>1. Months = 1 .. Len(MonthLengths) /\ Len(MonthLengths) \in Nat
  BY BudgetsAssumption DEF Months
<1>2. Len(MonthLengths) >= 3
  <2>1. PICK count \in Counts : count \in Nat \ {0} /\ count + 2 <= Len(MonthLengths)
    BY BudgetsAssumption
  <2>2. QED
    BY <1>1, <2>1
<1>3. \A m \in Months : MonthLengths[m] \in Nat \ {0}
  BY BudgetsAssumption DEF Months
<1>4. QED
  BY <1>1, <1>2, <1>3

LEMMA DaysBeforeCounted ==
  /\ DaysBefore(1) = {}
  /\ \A m \in Months : IsFiniteSet(DaysBefore(m))
  /\ \A m \in Months : m # 1 =>
       Cardinality(DaysBefore(m)) = Cardinality(DaysBefore(m - 1)) + MonthLengths[m - 1]
<1>1. DaysBefore(1) = {}
  BY DEF DaysBefore
<1>2. ASSUME NEW k \in Months
      PROVE  /\ IsFiniteSet({k} \X (1 .. MonthLengths[k]))
             /\ Cardinality({k} \X (1 .. MonthLengths[k])) = MonthLengths[k]
  <2>1. IsFiniteSet({k}) /\ Cardinality({k}) = 1
    BY FS_Singleton
  <2>2. \A n \in Nat : IsFiniteSet(1 .. n) /\ Cardinality(1 .. n) = n
    BY FS_Interval, SMTT(20)
  <2>3. MonthLengths[k] \in Nat
    BY Calendar
  <2>4. ASSUME NEW n \in Nat
        PROVE  IsFiniteSet({k} \X (1 .. n)) /\ Cardinality({k} \X (1 .. n)) = 1 * n
    <3>1. IsFiniteSet(1 .. n) /\ Cardinality(1 .. n) = n
      BY <2>2
    <3>2. /\ IsFiniteSet({k} \X (1 .. n))
          /\ Cardinality({k} \X (1 .. n)) = Cardinality({k}) * Cardinality(1 .. n)
      BY <2>1, <3>1, FS_Product, Zenon
    <3>3. QED
      BY <2>1, <3>1, <3>2
  <2>5. \A n \in Nat : 1 * n = n
    OBVIOUS
  <2>6. QED
    BY <2>3, <2>4, <2>5
<1>3. ASSUME NEW m \in Months PROVE IsFiniteSet(DaysBefore(m))
  <2> DEFINE days == [k \in 1 .. (m - 1) |-> {k} \X (1 .. MonthLengths[k])]
             all == {{k} \X (1 .. MonthLengths[k]) : k \in 1 .. (m - 1)}
  <2>1. days \in Surjection(1 .. (m - 1), all)
    BY DEF Surjection
  <2>2. IsFiniteSet(1 .. (m - 1))
    BY Calendar, FS_Interval
  <2>3. IsFiniteSet(all)
    BY <2>1, <2>2, FS_Surjection
  <2>4. 1 .. (m - 1) \subseteq Months
    BY Calendar
  <2>5. \A D \in all : IsFiniteSet(D)
    BY <1>2, <2>4
  <2>6. QED
    BY <2>3, <2>5, FS_UNION DEF DaysBefore
<1>4. ASSUME NEW m \in Months, m # 1
      PROVE  Cardinality(DaysBefore(m)) = Cardinality(DaysBefore(m - 1)) + MonthLengths[m - 1]
  <2> DEFINE A == DaysBefore(m - 1)
             B == {m - 1} \X (1 .. MonthLengths[m - 1])
  <2>1. m - 1 \in Months
    BY <1>4, Calendar
  <2>2. 1 .. (m - 1) = (1 .. (m - 1 - 1)) \cup {m - 1} /\ m - 1 \notin 1 .. (m - 1 - 1)
    BY <1>4, Calendar
  <2>3. DaysBefore(m) = A \cup B /\ A \cap B = {}
    BY <2>2 DEF DaysBefore
  <2>4. IsFiniteSet(A) /\ IsFiniteSet(B) /\ Cardinality(B) = MonthLengths[m - 1]
    BY <1>2, <1>3, <2>1
  <2>5. Cardinality(A \cup B) = Cardinality(A) + Cardinality(B) - Cardinality(A \cap B)
    BY <2>4, FS_Union
  <2>6. Cardinality(A \cap B) = 0 /\ Cardinality(A) \in Nat /\ MonthLengths[m - 1] \in Nat
    BY <2>1, <2>3, <2>4, FS_EmptySet, FS_CardinalityType, Calendar
  <2> HIDE DEF A, B
  <2>7. QED
    BY <2>3, <2>4, <2>5, <2>6 DEF A
<1>5. QED
  BY <1>1, <1>3, <1>4

LEMMA StartOfMonths ==
  /\ Start \in [Months -> Nat] /\ Start[1] = 0
  /\ \A m \in Months : m + 1 \in Months => Start[m + 1] = Start[m] + MonthLengths[m]
<1> DEFINE f == [m \in Months |-> Cardinality(DaysBefore(m))]
           Rec(s) == s = [m \in Months |-> IF m = 1 THEN 0 ELSE s[m - 1] + MonthLengths[m - 1]]
<1>1. ASSUME NEW m \in Months
      PROVE  f[m] = IF m = 1 THEN 0 ELSE f[m - 1] + MonthLengths[m - 1]
  <2>1. CASE m = 1
    BY <2>1, DaysBeforeCounted, FS_EmptySet
  <2>2. CASE m # 1
    <3>1. m - 1 \in Months
      BY <2>2, Calendar
    <3>2. QED
      BY <2>2, <3>1, DaysBeforeCounted
  <2>3. QED
    BY <2>1, <2>2
<1>2. Rec(f)
  BY <1>1
<1>3. Rec(Start)
  <2>1. Start = CHOOSE s : Rec(s)
    BY DEF Start
  <2>2. QED
    BY <1>2, <2>1
<1>4. 1 \in Months /\ \A m \in Months : m + 1 \in Months => (m + 1) - 1 = m /\ m + 1 # 1
  BY Calendar
<1>5. Start[1] = 0 /\ \A m \in Months : m + 1 \in Months => Start[m + 1] = Start[m] + MonthLengths[m]
  BY <1>3, <1>4
<1>6. Start \in [Months -> Nat]
  <2>1. SUFFICES ASSUME {m \in Months : Start[m] \notin Nat} # {} PROVE FALSE
    BY <1>3
  <2> DEFINE Wrong == {m \in Months : Start[m] \notin Nat}
  <2>2. Wrong \subseteq Nat
    BY Calendar
  <2>3. PICK m \in Wrong : \A n \in Wrong : <<n, m>> \notin OpToRel(<, Nat)
    BY <2>1, <2>2, NatLessThanWellFounded, WFMin
  <2>4. m # 1 /\ m \in Months
    <3>1. m \in Months /\ Start[m] \notin Nat
      BY <2>3
    <3>2. Start[1] \in Nat
      BY <1>5
    <3>3. QED
      BY <3>1, <3>2
  <2>5. m - 1 \in Months /\ m - 1 < m /\ m - 1 \in Nat /\ m \in Nat
    BY <2>4, Calendar
  <2>6. m - 1 \notin Wrong
    BY <2>3, <2>5 DEF OpToRel
  <2>7. Start[m] = Start[m - 1] + MonthLengths[m - 1]
    BY <1>3, <2>4
  <2>8. Start[m - 1] \in Nat /\ MonthLengths[m - 1] \in Nat
    BY <2>5, <2>6, Calendar
  <2>9. Start[m] \in Nat
    BY <2>7, <2>8
  <2>10. QED
    BY <2>3, <2>9
<1>7. QED
  BY <1>5, <1>6

LEMMA LargestOf ==
  ASSUME NEW S, S # {}, S \subseteq Nat, NEW b \in Nat, \A x \in S : x <= b
  PROVE  Max(S) \in S /\ \A y \in S : y <= Max(S)
<1> DEFINE T == {b - x : x \in S}
<1>1. T # {} /\ T \subseteq Nat
  <2>1. T # {}
    BY Zenon
  <2>2. ASSUME NEW x \in S PROVE b - x \in Nat
    <3>1. x \in Nat /\ x <= b
      OBVIOUS
    <3>2. QED
      BY <3>1
  <2>3. QED
    BY <2>1, <2>2
<1>2. PICK t \in T : \A s \in T : <<s, t>> \notin OpToRel(<, Nat)
  BY <1>1, NatLessThanWellFounded, WFMin
<1>3. \A s \in T : ~(s < t)
  BY <1>1, <1>2 DEF OpToRel
<1>4. PICK x \in S : t = b - x
  BY <1>2
<1>5. ASSUME NEW y \in S PROVE x >= y
  <2>1. b - y \in T
    OBVIOUS
  <2>2. ~(b - y < b - x)
    BY <1>3, <1>4, <2>1
  <2>3. QED
    BY <2>2
<1> HIDE DEF T
<1>6. \E z \in S : \A y \in S : z >= y
  BY <1>4, <1>5
<1>7. Max(S) \in S /\ \A y \in S : Max(S) >= y
  BY <1>6, Zenon DEF Max
<1>8. QED
  BY <1>7

LEMMA MonthsInOrder ==
  ASSUME NEW m \in Months, NEW n \in Months, m < n
  PROVE  Start[m] + MonthLengths[m] <= Start[n]
<1> DEFINE Wrong == {k \in Months : m < k /\ ~(Start[m] + MonthLengths[m] <= Start[k])}
<1>1. SUFFICES ASSUME Wrong # {} PROVE FALSE
  OBVIOUS
<1>2. Wrong \subseteq Nat
  BY Calendar
<1>3. PICK k \in Wrong : \A l \in Wrong : <<l, k>> \notin OpToRel(<, Nat)
  BY <1>1, <1>2, NatLessThanWellFounded, WFMin
<1>4. /\ k \in Months /\ k - 1 \in Months /\ k - 1 \in Nat /\ k \in Nat /\ m \in Nat
      /\ k - 1 < k /\ m < k /\ (k - 1) + 1 = k
  <2>1. k \in Months /\ m < k
    BY <1>3
  <2>2. QED
    BY <2>1, Calendar
<1>5. Start[k] = Start[k - 1] + MonthLengths[k - 1]
  BY <1>4, StartOfMonths
<1>6. /\ Start[m] \in Nat /\ Start[k - 1] \in Nat
      /\ MonthLengths[m] \in Nat /\ MonthLengths[k - 1] \in Nat
  BY <1>4, StartOfMonths, Calendar
<1>7. ~(Start[m] + MonthLengths[m] <= Start[k])
  BY <1>3
<1>8. CASE k - 1 = m
  BY <1>5, <1>6, <1>7, <1>8
<1>9. CASE k - 1 # m
  <2>1. m < k - 1
    BY <1>4, <1>9
  <2>2. k - 1 \notin Wrong
    BY <1>3, <1>4 DEF OpToRel
  <2>3. Start[m] + MonthLengths[m] <= Start[k - 1]
    BY <1>4, <2>1, <2>2
  <2>4. QED
    BY <1>5, <1>6, <1>7, <2>3
<1>10. QED
  BY <1>8, <1>9

(* A day of the calendar lies in its month.                                *)
InMonth(day, m) == m \in Months /\ Start[m] <= day /\ day < Start[m] + MonthLengths[m]
RealDay(day) == day \in Nat /\ InMonth(day, MonthOf(day))

LEMMA MonthIs ==
  ASSUME NEW day \in Nat, NEW m, InMonth(day, m)
  PROVE  MonthOf(day) = m /\ RealDay(day)
<1>1. ASSUME NEW n \in Months, InMonth(day, n) PROVE n = m
  <2>1. /\ m \in Nat /\ n \in Nat /\ Start[m] \in Nat /\ Start[n] \in Nat
        /\ MonthLengths[m] \in Nat /\ MonthLengths[n] \in Nat
    BY Calendar, StartOfMonths, SMTT(20) DEF InMonth
  <2>2. CASE m < n
    BY <1>1, <2>1, <2>2, MonthsInOrder DEF InMonth
  <2>3. CASE n < m
    BY <1>1, <2>1, <2>3, MonthsInOrder DEF InMonth
  <2>4. QED
    BY <2>1, <2>2, <2>3
<1>2. MonthOf(day) = m
  BY <1>1 DEF MonthOf, InMonth
<1>3. QED
  BY <1>2 DEF RealDay

LEMMA EveryDay ==
  ASSUME NEW day \in Nat, NEW m \in Months, day < Start[m] + MonthLengths[m]
  PROVE  RealDay(day) /\ MonthOf(day) <= m
<1> DEFINE S == {n \in Months : Start[n] <= day}
<1>1. S # {} /\ S \subseteq Nat /\ \A x \in S : x <= Len(MonthLengths)
  <2>1. 1 \in S
    BY Calendar, StartOfMonths
  <2>2. QED
    BY <2>1, Calendar
<1> HIDE DEF S
<1>2. PICK k \in S : \A x \in S : x <= k
  BY <1>1, Calendar, LargestOf
<1> USE DEF S
<1>3. /\ k \in Months /\ k \in Nat /\ m \in Nat /\ Start[k] \in Nat /\ Start[m] \in Nat
      /\ MonthLengths[k] \in Nat /\ MonthLengths[m] \in Nat /\ Start[k] <= day
  <2>1. k \in Months /\ Start[k] <= day
    BY <1>2
  <2>2. Start[k] \in Nat /\ Start[m] \in Nat
    BY <2>1, StartOfMonths
  <2>3. MonthLengths[k] \in Nat /\ MonthLengths[m] \in Nat /\ k \in Nat /\ m \in Nat
    BY <2>1, Calendar
  <2>4. QED
    BY <2>1, <2>2, <2>3
<1>4. k <= m
  <2>1. SUFFICES ASSUME m < k PROVE FALSE
    BY <1>3
  <2>2. QED
    BY <1>3, <2>1, MonthsInOrder
<1>5. day < Start[k] + MonthLengths[k]
  <2>1. CASE k = m
    BY <2>1
  <2>2. CASE k < m
    <3>1. k + 1 \in Months /\ k + 1 \in Nat
      BY <1>3, <2>2, Calendar
    <3>2. k + 1 \notin S
      BY <1>2, <1>3, <3>1
    <3>3. ~(Start[k + 1] <= day) /\ Start[k + 1] = Start[k] + MonthLengths[k]
      BY <1>3, <3>1, <3>2, StartOfMonths
    <3>4. QED
      BY <1>3, <3>3
  <2>3. QED
    BY <1>3, <1>4, <2>1, <2>2
<1>6. QED
  BY <1>3, <1>4, <1>5, MonthIs DEF InMonth

(* Adding months: the day of the month stays, or is clamped.               *)
LEMMA PlusIs ==
  ASSUME NEW day, RealDay(day), NEW n \in Nat, MonthOf(day) + n \in Months
  PROVE  LET later == PlusMonths(day, n)
             m == MonthOf(day) + n
         IN  /\ RealDay(later) /\ MonthOf(later) = m
             /\ DayOf(later) = Least(DayOf(day), MonthLengths[m])
             /\ later = Start[m] + Least(DayOf(day), MonthLengths[m]) - 1
             /\ later >= Start[m] /\ later < Start[m] + MonthLengths[m]
<1> DEFINE later == PlusMonths(day, n)
           m == MonthOf(day) + n
           d == DayOf(day)
<1>1. MonthOf(day) \in Months /\ Start[MonthOf(day)] \in Nat /\ day \in Nat /\ Start[MonthOf(day)] <= day
  BY StartOfMonths DEF RealDay, InMonth
<1>2. d \in Nat /\ d >= 1
  BY <1>1 DEF DayOf
<1>3. m \in Months /\ Start[m] \in Nat /\ MonthLengths[m] \in Nat /\ MonthLengths[m] >= 1
  BY Calendar, StartOfMonths
<1> HIDE DEF m, d
<1>4. /\ Least(d, MonthLengths[m]) \in Nat /\ Least(d, MonthLengths[m]) >= 1
      /\ Least(d, MonthLengths[m]) <= MonthLengths[m]
      /\ Least(d, MonthLengths[m]) = IF d > MonthLengths[m] THEN MonthLengths[m] ELSE d
  BY <1>2, <1>3 DEF Least
<1>5. later = Start[m] + Least(d, MonthLengths[m]) - 1
  BY <1>4 DEF PlusMonths, m, d
<1> HIDE DEF later
<1>6. later \in Nat /\ later >= Start[m] /\ later < Start[m] + MonthLengths[m]
  BY <1>3, <1>4, <1>5
<1>7. RealDay(later) /\ MonthOf(later) = m
  BY <1>3, <1>6, MonthIs DEF InMonth
<1>8. DayOf(later) = Least(d, MonthLengths[m])
  BY <1>3, <1>4, <1>5, <1>7 DEF DayOf
<1>9. QED
  BY <1>5, <1>6, <1>7, <1>8 DEF later, m, d

LEMMA PlusGrows ==
  ASSUME NEW day, RealDay(day), NEW n \in Nat, NEW k \in Nat, n < k, MonthOf(day) + k \in Months
  PROVE  PlusMonths(day, n) < PlusMonths(day, k)
<1> DEFINE m == MonthOf(day)
<1>1. m \in Months /\ m \in Nat
  BY Calendar DEF RealDay, InMonth
<1>2. m + n \in Months /\ m + n < m + k
  BY <1>1, Calendar
<1>3. Start[m + n] + MonthLengths[m + n] <= Start[m + k]
  BY <1>2, MonthsInOrder
<1>4. /\ PlusMonths(day, n) \in Nat /\ PlusMonths(day, n) < Start[m + n] + MonthLengths[m + n]
      /\ PlusMonths(day, k) \in Nat /\ PlusMonths(day, k) >= Start[m + k]
  BY <1>2, PlusIs DEF RealDay
<1>5. Start[m + n] \in Nat /\ MonthLengths[m + n] \in Nat /\ Start[m + k] \in Nat
  BY <1>2, Calendar, StartOfMonths
<1> HIDE DEF m
<1>6. QED
  BY <1>3, <1>4, <1>5

LEMMA RealDayIs ==
  ASSUME NEW day, RealDay(day)
  PROVE  LET m == MonthOf(day)
         IN  /\ day \in Nat /\ m \in Months /\ m \in Nat /\ Start[m] \in Nat
             /\ MonthLengths[m] \in Nat \ {0}
             /\ Start[m] <= day /\ day < Start[m] + MonthLengths[m]
             /\ DayOf(day) = day - Start[m] + 1 /\ DayOf(day) \in Nat \ {0}
             /\ DayOf(day) <= MonthLengths[m]
<1> DEFINE m == MonthOf(day)
<1>1. day \in Nat /\ m \in Months /\ Start[m] <= day /\ day < Start[m] + MonthLengths[m]
  BY DEF RealDay, InMonth
<1>2. DayOf(day) = day - Start[m] + 1
  BY DEF DayOf
<1> HIDE DEF m
<1>3. m \in Nat /\ MonthLengths[m] \in Nat \ {0}
  BY <1>1, Calendar
<1>4. Start[m] \in Nat
  BY <1>1, StartOfMonths
<1>5. DayOf(day) \in Nat \ {0} /\ DayOf(day) <= MonthLengths[m]
  BY <1>1, <1>2, <1>3, <1>4
<1>6. QED
  BY <1>1, <1>2, <1>3, <1>4, <1>5 DEF m

LEMMA EarlierMonth ==
  ASSUME NEW day, RealDay(day), NEW later, RealDay(later), day <= later
  PROVE  MonthOf(day) <= MonthOf(later)
<1>1. PICK m, n : m = MonthOf(day) /\ n = MonthOf(later)
  OBVIOUS
<1>2. /\ day \in Nat /\ m \in Months /\ m \in Nat /\ Start[m] \in Nat /\ Start[m] <= day
      /\ later \in Nat /\ n \in Months /\ n \in Nat /\ Start[n] \in Nat
      /\ MonthLengths[n] \in Nat /\ later < Start[n] + MonthLengths[n]
  BY <1>1, RealDayIs
<1>3. CASE n < m
  <2>1. Start[n] + MonthLengths[n] <= Start[m]
    BY <1>2, <1>3, MonthsInOrder
  <2>2. QED
    BY <1>2, <2>1
<1>4. QED
  BY <1>1, <1>2, <1>3

LEMMA PlusZero ==
  ASSUME NEW day, RealDay(day)
  PROVE  PlusMonths(day, 0) = day
<1>1. PICK m, d : m = MonthOf(day) /\ d = DayOf(day)
  OBVIOUS
<1>2. m \in Nat /\ d \in Nat /\ MonthLengths[m] \in Nat /\ d <= MonthLengths[m]
      /\ Start[m] \in Nat /\ day \in Nat /\ d = day - Start[m] + 1
  BY <1>1, RealDayIs
<1>3. m + 0 = m
  BY <1>2
<1>4. PlusMonths(day, 0) = Start[m] + d - 1
  BY <1>1, <1>2, <1>3 DEF PlusMonths
<1>5. QED
  BY <1>2, <1>4

(* The whole months elapsed.                                               *)
LEMMA ElapsedIs ==
  ASSUME NEW origin, RealDay(origin), NEW day, RealDay(day), origin <= day
  PROVE  LET e == Elapsed(origin, day)
         IN  /\ e \in Nat /\ MonthOf(origin) + e <= MonthOf(day)
             /\ PlusMonths(origin, e) <= day
             /\ \A n \in Nat : n > e /\ MonthOf(origin) + n \in Months => day < PlusMonths(origin, n)
<1>1. PICK a, b : a = MonthOf(origin) /\ b = MonthOf(day)
  OBVIOUS
<1>2. /\ origin \in Nat /\ day \in Nat /\ a \in Nat /\ b \in Nat /\ b \in Months /\ a <= b
      /\ Start[b] \in Nat /\ MonthLengths[b] \in Nat /\ day < Start[b] + MonthLengths[b]
  BY <1>1, RealDayIs, EarlierMonth
<1> DEFINE S == {n \in 0..(b - a) : PlusMonths(origin, n) <= day}
<1>3. 0 \in S
  BY <1>2, PlusZero
<1>4. S # {} /\ S \subseteq Nat /\ b - a \in Nat /\ \A x \in S : x <= b - a
  BY <1>2, <1>3
<1>5. Elapsed(origin, day) = Max(S)
  BY <1>1 DEF Elapsed
<1> HIDE DEF S
<1>6. PICK e : e = Elapsed(origin, day) /\ e \in S /\ \A x \in S : x <= e
  BY <1>4, <1>5, LargestOf
<1>7. e \in Nat /\ e <= b - a /\ PlusMonths(origin, e) <= day
  BY <1>2, <1>6 DEF S
<1>8. ASSUME NEW n \in Nat, n > e, a + n \in Months
      PROVE  day < PlusMonths(origin, n)
  <2>1. PlusMonths(origin, n) \in Nat /\ PlusMonths(origin, n) >= Start[a + n]
    BY <1>1, <1>8, PlusIs DEF RealDay
  <2>2. CASE n <= b - a
    <3>1. n \notin S
      BY <1>6, <1>7, <1>8
    <3>2. QED
      BY <1>2, <2>1, <2>2, <3>1 DEF S
  <2>3. CASE n > b - a
    <3>1. b < a + n
      BY <1>2, <2>3
    <3>2. Start[b] + MonthLengths[b] <= Start[a + n]
      BY <1>2, <1>8, <3>1, MonthsInOrder
    <3>3. Start[a + n] \in Nat
      BY <1>8, StartOfMonths
    <3>4. QED
      BY <1>2, <2>1, <3>2, <3>3
  <2>4. QED
    BY <1>2, <2>2, <2>3
<1>9. QED
  BY <1>1, <1>2, <1>6, <1>7, <1>8

LEMMA WholePeriods ==
  ASSUME NEW e \in Nat, NEW c \in Nat \ {0}
  PROVE  e \div c \in Nat /\ (e \div c) * c <= e /\ e < (e \div c) * c + c
         /\ (e \div c) * c \in Nat
<1>1. e \div c \in Int /\ e = (e \div c) * c + (e % c) /\ e % c \in 0 .. (c - 1)
  OBVIOUS
<1> DEFINE q == e \div c
<1>2. q >= 0
  OBVIOUS
<1>3. q * c \in Int
  BY <1>1
<1>4. q * c \in Nat
  BY <1>1, <1>2
<1>5. QED
  BY <1>1, <1>2, <1>3, <1>4

LEMMA LaterPeriods ==
  ASSUME NEW c \in Nat \ {0}, NEW k \in Nat, NEW l \in Nat, k < l
  PROVE  k * c + c <= l * c /\ k * c \in Nat /\ l * c \in Nat
<1>1. PICK j \in Nat : l = k + 1 + j
  <2>1. l - k - 1 \in Nat /\ l = k + 1 + (l - k - 1)
    OBVIOUS
  <2>2. QED
    BY <2>1
<1>2. (k + 1 + j) * c = k * c + c + j * c
  OBVIOUS
<1>3. j * c \in Nat /\ k * c \in Nat /\ l * c \in Nat
  OBVIOUS
<1>4. QED
  BY <1>1, <1>2, <1>3

(* The days a budget starts on and is asked about are days of the calendar *)
(* that leave room for a period.                                           *)
LEMMA Origin ==
  ASSUME NEW origin \in Origins
  PROVE  RealDay(origin) /\ MonthOf(origin) <= 2
<1>1. 1 \in Months /\ 2 \in Months /\ 1 + 1 = 2
  BY Calendar
<1>2. Start[2] = Start[1] + MonthLengths[1] /\ Start[1] = 0
  BY <1>1, StartOfMonths
<1>3. MonthLengths[1] \in Nat /\ MonthLengths[2] \in Nat \ {0}
  BY <1>1, Calendar
<1>4. origin \in Nat /\ origin < Start[2] + MonthLengths[2]
  BY <1>2, <1>3 DEF Origins
<1>5. QED
  BY <1>1, <1>4, EveryDay

LEMMA RoomForAPeriod ==
  LET C == Max(Counts)
      m == Len(MonthLengths) - C
  IN  /\ C \in Counts /\ \A count \in Counts : count <= C
      /\ C \in Nat /\ C >= 1 /\ C + 2 <= Len(MonthLengths)
      /\ Len(MonthLengths) - C + 1 = m + 1
      /\ m \in Nat /\ m \in Months /\ m + 1 \in Months
      /\ LastDay = Start[m + 1] - 1
<1>1. Len(MonthLengths) \in Nat /\ Months = 1 .. Len(MonthLengths)
  BY Calendar
<1>2. Counts # {} /\ Counts \subseteq Nat /\ \A c \in Counts : c <= Len(MonthLengths)
  BY <1>1, BudgetsAssumption
<1>3. PICK C : C = Max(Counts)
  OBVIOUS
<1>4. C \in Counts /\ \A count \in Counts : count <= C
  BY <1>1, <1>2, <1>3, LargestOf
<1>5. C \in Nat /\ C >= 1 /\ C + 2 <= Len(MonthLengths)
  BY <1>4, BudgetsAssumption
<1>6. PICK m : m = Len(MonthLengths) - C
  OBVIOUS
<1>7. m \in Months /\ m + 1 \in Months /\ m \in Nat /\ Len(MonthLengths) - C + 1 = m + 1
  BY <1>1, <1>5, <1>6
<1>8. LastDay = Start[m + 1] - 1
  BY <1>3, <1>7 DEF LastDay
<1>9. QED
  BY <1>3, <1>4, <1>5, <1>6, <1>7, <1>8

LEMMA Asked ==
  ASSUME NEW day \in 0..LastDay, NEW count \in Counts
  PROVE  RealDay(day) /\ MonthOf(day) + count <= Len(MonthLengths) /\ day \in Nat
<1>1. PICK C, m : C = Max(Counts) /\ m = Len(MonthLengths) - C
  OBVIOUS
<1>2. /\ count <= C /\ C \in Nat /\ m \in Nat /\ m \in Months /\ m + 1 \in Months
      /\ LastDay = Start[m + 1] - 1
  BY <1>1, RoomForAPeriod
<1>3. Start[m + 1] = Start[m] + MonthLengths[m] /\ Start[m] \in Nat /\ MonthLengths[m] \in Nat
  BY <1>2, StartOfMonths, Calendar
<1>4. day \in Nat /\ day < Start[m] + MonthLengths[m]
  BY <1>2, <1>3
<1>5. RealDay(day) /\ MonthOf(day) <= m
  BY <1>2, <1>4, EveryDay
<1>6. MonthOf(day) \in Nat /\ count \in Nat /\ Len(MonthLengths) \in Nat
  BY <1>5, RealDayIs, BudgetsAssumption, Calendar
<1>7. QED
  BY <1>1, <1>2, <1>4, <1>5, <1>6

(* The periods before a day, and the window they lead to.                  *)
Periods(origin, count, day) == IF day > origin THEN Elapsed(origin, day) \div count ELSE 0

LEMMA WindowIs ==
  ASSUME NEW origin \in Origins, NEW count \in Counts, NEW day \in 0..LastDay
  PROVE  LET k == Periods(origin, count, day)
         IN  /\ k \in Nat /\ k * count \in Nat /\ k * count + count \in Nat
             /\ MonthOf(origin) + k * count \in Months
             /\ MonthOf(origin) + (k * count + count) \in Months
             /\ Window[<<origin, count, day>>] =
                  PlusMonths(origin, k * count) .. (PlusMonths(PlusMonths(origin, k * count), count) - 1)
             /\ origin <= day =>
                  /\ PlusMonths(origin, k * count) <= day
                  /\ day < PlusMonths(origin, k * count + count)
<1>1. PICK k, m : k = Periods(origin, count, day) /\ m = MonthOf(origin)
  OBVIOUS
<1>2. /\ RealDay(origin) /\ m \in Nat /\ m \in Months /\ m <= 2 /\ origin \in Nat
      /\ RealDay(day) /\ day \in Nat /\ MonthOf(day) \in Nat
      /\ MonthOf(day) + count <= Len(MonthLengths)
      /\ count \in Nat \ {0} /\ count + 2 <= Len(MonthLengths)
      /\ Len(MonthLengths) \in Nat /\ Months = 1 .. Len(MonthLengths)
  BY <1>1, Origin, Asked, RealDayIs, Calendar, BudgetsAssumption
<1>3. Window[<<origin, count, day>>] =
        PlusMonths(origin, k * count) .. (PlusMonths(PlusMonths(origin, k * count), count) - 1)
  <2>1. <<origin, count, day>> \in Origins \X Counts \X (0..LastDay)
    OBVIOUS
  <2>2. Window[<<origin, count, day>>] = PeriodWindow(origin, count, day)
    BY <2>1 DEF Window
  <2>3. QED
    BY <1>1, <2>2 DEF PeriodWindow, Periods
<1>4. CASE ~(day > origin)
  <2>1. k = 0 /\ k * count = 0 /\ k * count + count = count
    BY <1>1, <1>2, <1>4 DEF Periods
  <2>2. m + 0 \in Months /\ m + count \in Months
    BY <1>2
  <2>3. origin <= day => origin = day
    BY <1>2, <1>4
  <2>4. PlusMonths(origin, 0) = origin
    BY <1>2, PlusZero
  <2>5. PlusMonths(origin, 0) < PlusMonths(origin, count)
    BY <1>1, <1>2, <2>2, PlusGrows
  <2>6. QED
    BY <1>1, <1>2, <1>3, <2>1, <2>2, <2>3, <2>4, <2>5
<1>5. CASE day > origin
  <2>1. PICK e : e = Elapsed(origin, day)
    OBVIOUS
  <2>2. /\ e \in Nat /\ m + e <= MonthOf(day) /\ PlusMonths(origin, e) <= day
        /\ \A n \in Nat : n > e /\ m + n \in Months => day < PlusMonths(origin, n)
    BY <1>1, <1>2, <1>5, <2>1, ElapsedIs, SMTT(20)
  <2>3. k = e \div count
    BY <1>1, <1>5, <2>1 DEF Periods
  <2>4. PICK w : w = k * count
    OBVIOUS
  <2>5. k \in Nat /\ w \in Nat /\ w <= e /\ e < w + count
    BY <1>2, <2>2, <2>3, <2>4, WholePeriods
  <2>6. m + w \in Months /\ m + (w + count) \in Months /\ m + e \in Months /\ w + count \in Nat
    BY <1>2, <2>2, <2>5
  <2>7. PlusMonths(origin, w) <= PlusMonths(origin, e)
    <3>1. CASE w = e
      <4>1. PlusMonths(origin, e) \in Nat
        BY <1>1, <1>2, <2>2, <2>6, PlusIs DEF RealDay
      <4>2. QED
        BY <3>1, <4>1
    <3>2. CASE w < e
      <4>1. PlusMonths(origin, w) < PlusMonths(origin, e)
        BY <1>1, <1>2, <2>2, <2>5, <2>6, <3>2, PlusGrows
      <4>2. PlusMonths(origin, e) \in Nat /\ PlusMonths(origin, w) \in Nat
        BY <1>1, <1>2, <2>2, <2>5, <2>6, PlusIs DEF RealDay
      <4>3. QED
        BY <4>1, <4>2
    <3>3. QED
      BY <2>2, <2>5, <3>1, <3>2
  <2>8. PlusMonths(origin, w) <= day
    <3>1. PlusMonths(origin, e) \in Nat /\ PlusMonths(origin, w) \in Nat
      BY <1>1, <1>2, <2>2, <2>5, <2>6, PlusIs DEF RealDay
    <3>2. QED
      BY <1>2, <2>2, <2>7, <3>1
  <2>9. day < PlusMonths(origin, w + count)
    BY <2>2, <2>5, <2>6
  <2>10. QED
    BY <1>1, <1>3, <2>4, <2>5, <2>6, <2>8, <2>9
<1>6. QED
  BY <1>4, <1>5

(* Going on from the start of a period ends it no later than going on from *)
(* the origin does, and on the same day when every month has that day.     *)
LEMMA PlusTwice ==
  ASSUME NEW day, RealDay(day), NEW n \in Nat, NEW c \in Nat,
         MonthOf(day) + n \in Months, MonthOf(day) + (n + c) \in Months
  PROVE  /\ PlusMonths(PlusMonths(day, n), c) \in Nat
         /\ PlusMonths(day, n + c) \in Nat /\ PlusMonths(day, n) \in Nat
         /\ PlusMonths(PlusMonths(day, n), c) <= PlusMonths(day, n + c)
         /\ (\A m \in Months : DayOf(day) <= MonthLengths[m]) =>
              PlusMonths(PlusMonths(day, n), c) = PlusMonths(day, n + c)
<1>1. PICK m, d, l : m = MonthOf(day) /\ d = DayOf(day) /\ l = PlusMonths(day, n)
  OBVIOUS
<1>2. m \in Nat /\ d \in Nat \ {0}
  BY <1>1, RealDayIs
<1>3. /\ RealDay(l) /\ l \in Nat /\ MonthOf(l) = m + n
      /\ DayOf(l) = Least(d, MonthLengths[m + n])
  BY <1>1, PlusIs DEF RealDay
<1>4. (m + n) + c = m + (n + c) /\ n + c \in Nat
  BY <1>2
<1>5. PICK q : q = m + (n + c)
  OBVIOUS
<1>6. q \in Months
  BY <1>1, <1>5
<1>7. /\ PlusMonths(l, c) \in Nat
      /\ PlusMonths(l, c) = Start[q] + Least(Least(d, MonthLengths[m + n]), MonthLengths[q]) - 1
  BY <1>3, <1>4, <1>5, <1>6, PlusIs DEF RealDay
<1>8. /\ PlusMonths(day, n + c) \in Nat
      /\ PlusMonths(day, n + c) = Start[q] + Least(d, MonthLengths[q]) - 1
  BY <1>1, <1>4, <1>5, <1>6, PlusIs DEF RealDay
<1>9. /\ MonthLengths[m + n] \in Nat \ {0} /\ MonthLengths[q] \in Nat \ {0} /\ Start[q] \in Nat
      /\ m + n \in Months
  <2>1. m + n \in Months
    BY <1>1
  <2>2. QED
    BY <1>6, <2>1, Calendar, StartOfMonths, SMTT(20)
<1>10. \A x \in Nat, y \in Nat, z \in Nat :
         Least(Least(x, y), z) <= Least(x, z) /\ (x <= y => Least(Least(x, y), z) = Least(x, z))
         /\ Least(x, z) \in Nat /\ Least(Least(x, y), z) \in Nat
  BY DEF Least
<1>11. PICK x, y : x = Least(Least(d, MonthLengths[m + n]), MonthLengths[q])
                   /\ y = Least(d, MonthLengths[q])
  OBVIOUS
<1>12. x \in Nat /\ y \in Nat /\ x <= y /\ (d <= MonthLengths[m + n] => x = y)
  <2>1. MonthLengths[m + n] \in Nat /\ MonthLengths[q] \in Nat
    BY <1>9
  <2>2. PICK u, v : u = MonthLengths[m + n] /\ v = MonthLengths[q]
    OBVIOUS
  <2>3. u \in Nat /\ v \in Nat /\ d \in Nat
    BY <1>2, <2>1, <2>2
  <2>4. Least(Least(d, u), v) <= Least(d, v) /\ (d <= u => Least(Least(d, u), v) = Least(d, v))
        /\ Least(d, v) \in Nat /\ Least(Least(d, u), v) \in Nat
    BY <1>10, <2>3
  <2>5. x = Least(Least(d, u), v) /\ y = Least(d, v)
    BY <1>11, <2>2
  <2>6. QED
    BY <2>2, <2>4, <2>5
<1>13. PlusMonths(l, c) <= PlusMonths(day, n + c)
  BY <1>7, <1>8, <1>9, <1>11, <1>12
<1>14. (\A r \in Months : d <= MonthLengths[r]) => PlusMonths(l, c) = PlusMonths(day, n + c)
  BY <1>7, <1>8, <1>9, <1>11, <1>12
<1>15. QED
  BY <1>1, <1>3, <1>7, <1>8, <1>13, <1>14

LEMMA PlusInOrder ==
  ASSUME NEW day, RealDay(day), NEW n \in Nat, NEW k \in Nat, n <= k,
         MonthOf(day) + n \in Months, MonthOf(day) + k \in Months
  PROVE  /\ PlusMonths(day, n) \in Nat /\ PlusMonths(day, k) \in Nat
         /\ PlusMonths(day, n) <= PlusMonths(day, k)
<1>1. PlusMonths(day, n) \in Nat /\ PlusMonths(day, k) \in Nat
  BY PlusIs DEF RealDay
<1>2. CASE n = k
  BY <1>1, <1>2
<1>3. CASE n < k
  <2>1. PlusMonths(day, n) < PlusMonths(day, k)
    BY <1>3, PlusGrows
  <2>2. QED
    BY <1>1, <2>1
<1>4. QED
  BY <1>1, <1>2, <1>3

(* Windows of two days are the same window or share no day.                *)
LEMMA WindowsApart ==
  ASSUME NEW origin \in Origins, NEW count \in Counts,
         NEW day \in 0..LastDay, NEW later \in 0..LastDay, day <= later
  PROVE  \/ Window[<<origin, count, day>>] = Window[<<origin, count, later>>]
         \/ Window[<<origin, count, day>>] \cap Window[<<origin, count, later>>] = {}
<1>1. PICK k, l, m : /\ k = Periods(origin, count, day) /\ l = Periods(origin, count, later)
                     /\ m = MonthOf(origin)
  OBVIOUS
<1>2. /\ RealDay(origin) /\ RealDay(day) /\ RealDay(later) /\ m \in Nat
      /\ origin \in Nat /\ day \in Nat /\ later \in Nat /\ count \in Nat \ {0}
  BY <1>1, Origin, Asked, RealDayIs, BudgetsAssumption
<1>3. PICK a, b : a = k * count /\ b = l * count
  OBVIOUS
<1>4. k \in Nat /\ a \in Nat /\ a + count \in Nat /\ m + a \in Months /\ m + (a + count) \in Months
  BY <1>1, <1>3, WindowIs
<1>5. l \in Nat /\ b \in Nat /\ b + count \in Nat /\ m + b \in Months /\ m + (b + count) \in Months
  BY <1>1, <1>3, WindowIs
<1>6. /\ Window[<<origin, count, day>>] =
           PlusMonths(origin, a) .. (PlusMonths(PlusMonths(origin, a), count) - 1)
      /\ Window[<<origin, count, later>>] =
           PlusMonths(origin, b) .. (PlusMonths(PlusMonths(origin, b), count) - 1)
      /\ origin <= day => PlusMonths(origin, a) <= day
      /\ origin <= later => later < PlusMonths(origin, b + count)
  BY <1>1, <1>3, WindowIs
<1>7. ~(l < k)
  <2>1. SUFFICES ASSUME l < k PROVE FALSE
    OBVIOUS
  <2>2. k # 0
    BY <1>4, <1>5, <2>1
  <2>3. day > origin
    BY <1>1, <2>2 DEF Periods
  <2>4. b + count <= a
    BY <1>2, <1>3, <1>4, <1>5, <2>1, LaterPeriods
  <2>5. /\ PlusMonths(origin, b + count) \in Nat /\ PlusMonths(origin, a) \in Nat
        /\ PlusMonths(origin, b + count) <= PlusMonths(origin, a)
    BY <1>1, <1>2, <1>4, <1>5, <2>4, PlusInOrder
  <2>6. PlusMonths(origin, a) <= day /\ later < PlusMonths(origin, b + count)
    BY <1>2, <1>6, <2>3
  <2>7. QED
    BY <1>2, <2>5, <2>6
<1>8. CASE k = l
  BY <1>3, <1>6, <1>8
<1>9. CASE k < l
  <2>1. a + count <= b
    BY <1>2, <1>3, <1>4, <1>5, <1>9, LaterPeriods
  <2>2. PICK e, s, n : /\ e = PlusMonths(PlusMonths(origin, a), count)
                       /\ s = PlusMonths(origin, b) /\ n = PlusMonths(origin, a + count)
    OBVIOUS
  <2>3. e \in Nat /\ n \in Nat /\ e <= n
    BY <1>1, <1>2, <1>4, <2>2, PlusTwice
  <2>4. s \in Nat /\ n <= s
    BY <1>1, <1>2, <1>4, <1>5, <2>1, <2>2, PlusInOrder
  <2>5. \A i \in Window[<<origin, count, day>>] : i \in Int /\ i < e
    BY <1>6, <2>2, <2>3
  <2>6. \A i \in Window[<<origin, count, later>>] : i \in Int /\ i >= s
    BY <1>6, <2>2, <2>4
  <2>7. \A i \in Window[<<origin, count, day>>] : i \notin Window[<<origin, count, later>>]
    BY <2>3, <2>4, <2>5, <2>6
  <2>8. QED
    BY <2>7
<1>10. QED
  BY <1>4, <1>5, <1>7, <1>8, <1>9

(* A budget that fits every month: today is in its window.                 *)
LEMMA TodayInWindow ==
  ASSUME NEW origin \in Origins, NEW count \in Counts, NEW day \in 0..LastDay, origin <= day,
         \A m \in Months : DayOf(origin) <= MonthLengths[m]
  PROVE  day \in Window[<<origin, count, day>>]
<1>1. PICK k, m : k = Periods(origin, count, day) /\ m = MonthOf(origin)
  OBVIOUS
<1>2. RealDay(origin) /\ day \in Nat /\ count \in Nat \ {0}
  BY Origin, Asked, BudgetsAssumption
<1>3. PICK a : a = k * count
  OBVIOUS
<1>4. /\ a \in Nat /\ m + a \in Months /\ m + (a + count) \in Months
      /\ Window[<<origin, count, day>>] =
           PlusMonths(origin, a) .. (PlusMonths(PlusMonths(origin, a), count) - 1)
      /\ PlusMonths(origin, a) <= day /\ day < PlusMonths(origin, a + count)
  BY <1>1, <1>3, WindowIs
<1>5. /\ PlusMonths(PlusMonths(origin, a), count) = PlusMonths(origin, a + count)
      /\ PlusMonths(origin, a + count) \in Nat /\ PlusMonths(origin, a) \in Nat
  BY <1>1, <1>2, <1>4, PlusTwice
<1>6. PICK e, f : e = PlusMonths(origin, a) /\ f = PlusMonths(origin, a + count)
  OBVIOUS
<1>7. e \in Nat /\ f \in Nat /\ e <= day /\ day < f /\ Window[<<origin, count, day>>] = e .. (f - 1)
  BY <1>4, <1>5, <1>6
<1>8. QED
  BY <1>2, <1>7

(* What is always so of the budgets there are.                             *)
BudgetRecord ==
  [id : Ids, origin : Origins, count : Counts,
   include : SUBSET Categories, exclude : SUBSET Categories,
   primary : Categories \cup {NoCategory}, includeIncome : BOOLEAN]
NamesItsCategory(b) == b.primary \in b.include \/ (b.include = {} /\ b.primary = NoCategory)
BudgetsInv ==
  /\ now \in 0..LastDay
  /\ budgets \subseteq BudgetRecord
  /\ \A b \in budgets : NamesItsCategory(b)

LEMMA FirstNames ==
  ASSUME NEW include \in SUBSET Categories, NEW primary \in First(include)
  PROVE  /\ primary \in Categories \cup {NoCategory}
         /\ primary \in include \/ (include = {} /\ primary = NoCategory)
  BY DEF First

LEMMA BudgetsStart == BudgetsInit => BudgetsInv
<1>1. PICK m : m \in Nat /\ m \in Months /\ m + 1 \in Months /\ LastDay = Start[m + 1] - 1
  BY RoomForAPeriod
<1>2. Start[m + 1] = Start[m] + MonthLengths[m] /\ Start[m] \in Nat /\ MonthLengths[m] \in Nat \ {0}
  <2>1. Start[m + 1] = Start[m] + MonthLengths[m] /\ Start[m] \in Nat
    BY <1>1, StartOfMonths
  <2>2. MonthLengths[m] \in Nat \ {0}
    BY <1>1, Calendar
  <2>3. QED
    BY <2>1, <2>2
<1>3. 0 \in 0..LastDay
  BY <1>1, <1>2
<1>4. QED
  BY <1>3 DEF BudgetsInit, BudgetsInv

LEMMA BudgetsStep == BudgetsInv /\ [BudgetsNext]_budgetVars => BudgetsInv'
<1> SUFFICES ASSUME BudgetsInv, [BudgetsNext]_budgetVars PROVE BudgetsInv'
  OBVIOUS
<1>1. ASSUME now' = now, budgets' \subseteq BudgetRecord, \A b \in budgets' : NamesItsCategory(b)
      PROVE  BudgetsInv'
  BY <1>1 DEF BudgetsInv
<1>2. ASSUME NEW b \in budgets, NEW new \in BudgetRecord, NamesItsCategory(new), Replace(b, new), now' = now
      PROVE  BudgetsInv'
  <2>1. budgets' = (budgets \ {b}) \cup {new}
    BY <1>2 DEF Replace
  <2>2. budgets \subseteq BudgetRecord /\ \A c \in budgets : NamesItsCategory(c)
    BY DEF BudgetsInv
  <2>3. QED
    BY <1>1, <1>2, <2>1, <2>2
<1>3. ASSUME NEW id \in Ids, NEW origin \in Origins, NEW count \in Counts,
             NEW include \in SUBSET Categories, NEW exclude \in SUBSET Categories,
             NEW primary \in First(include), NEW income \in BOOLEAN
      PROVE  /\ Budget(id, origin, count, include, exclude, primary, income) \in BudgetRecord
             /\ NamesItsCategory(Budget(id, origin, count, include, exclude, primary, income))
  BY <1>3, FirstNames DEF Budget, BudgetRecord, NamesItsCategory
<1>4. ASSUME NEW id \in Ids, NEW origin \in Origins, NEW count \in Counts, NEW income \in BOOLEAN,
             NEW include \in SUBSET Categories, NEW exclude \in {{}, Categories \ include},
             CreateBudget(id, origin, count, include, exclude, income)
      PROVE  BudgetsInv'
  <2>1. PICK primary \in First(include) :
          budgets' = budgets \cup {Budget(id, origin, count, include, exclude, primary, income)}
    BY <1>4 DEF CreateBudget
  <2>2. now' = now
    BY <1>4 DEF CreateBudget
  <2>3. PICK new : new = Budget(id, origin, count, include, exclude, primary, income)
    OBVIOUS
  <2>4. exclude \in SUBSET Categories
    OBVIOUS
  <2>5. new \in BudgetRecord /\ NamesItsCategory(new)
    BY <1>3, <2>3, <2>4
  <2>6. budgets \subseteq BudgetRecord /\ \A c \in budgets : NamesItsCategory(c)
    BY DEF BudgetsInv
  <2>7. QED
    BY <1>1, <2>1, <2>2, <2>3, <2>5, <2>6
<1>5. ASSUME NEW b \in budgets, NEW sent \in SUBSET {"include", "exclude"}, NEW income \in BOOLEAN,
             NEW include \in (IF "include" \in sent THEN SUBSET Categories ELSE {{}}),
             NEW exclude \in (IF "exclude" \in sent THEN SUBSET Categories ELSE {{}}),
             UpdateBudget(b, sent, include, exclude, income)
      PROVE  BudgetsInv'
  <2>1. now' = now
    BY <1>5 DEF UpdateBudget
  <2>2. b \in BudgetRecord /\ NamesItsCategory(b)
    BY DEF BudgetsInv
  <2>3. CASE sent = {}
    <3>1. PICK new : new = [b EXCEPT !.includeIncome = income]
      OBVIOUS
    <3>2. Replace(b, new)
      BY <1>5, <2>3, <3>1 DEF UpdateBudget
    <3>3. new \in BudgetRecord
      BY <2>2, <3>1 DEF BudgetRecord
    <3>4. new.primary = b.primary /\ new.include = b.include
      BY <2>2, <3>1 DEF BudgetRecord
    <3>5. NamesItsCategory(new)
      BY <2>2, <3>4 DEF NamesItsCategory
    <3>6. QED
      BY <1>2, <2>1, <3>2, <3>3, <3>5
  <2>4. CASE sent # {}
    <3>1. PICK included, excluded :
            /\ included = (IF "include" \in sent THEN include ELSE {})
            /\ excluded = (IF "exclude" \in sent THEN exclude ELSE {})
      OBVIOUS
    <3>2. included \in SUBSET Categories /\ excluded \in SUBSET Categories
      BY <3>1
    <3>3. PICK primary \in First(included) :
            Replace(b, Budget(b.id, b.origin, b.count, included, excluded, primary, income))
      BY <1>5, <2>4, <3>1 DEF UpdateBudget
    <3>4. b.id \in Ids /\ b.origin \in Origins /\ b.count \in Counts
      BY <2>2 DEF BudgetRecord
    <3>5. PICK new : new = Budget(b.id, b.origin, b.count, included, excluded, primary, income)
      OBVIOUS
    <3>6. new \in BudgetRecord /\ NamesItsCategory(new)
      BY <1>3, <3>2, <3>4, <3>5
    <3>7. QED
      BY <1>2, <2>1, <3>3, <3>5, <3>6
  <2>5. QED
    BY <2>3, <2>4
<1>6. ASSUME NEW b \in budgets, NEW origin \in Origins, NEW count \in Counts, Reschedule(b, origin, count)
      PROVE  BudgetsInv'
  <2>1. b \in BudgetRecord /\ NamesItsCategory(b)
    BY DEF BudgetsInv
  <2>2. PICK new : new = [b EXCEPT !.origin = origin, !.count = count]
    OBVIOUS
  <2>3. new \in BudgetRecord /\ new.primary = b.primary /\ new.include = b.include
    BY <2>1, <2>2 DEF BudgetRecord
  <2>4. NamesItsCategory(new)
    BY <2>1, <2>3 DEF NamesItsCategory
  <2>5. Replace(b, new) /\ now' = now
    BY <1>6, <2>2 DEF Reschedule
  <2>6. QED
    BY <1>2, <2>3, <2>4, <2>5
<1>7. ASSUME NEW b \in budgets, DeleteBudget(b) PROVE BudgetsInv'
  BY <1>7 DEF DeleteBudget, BudgetsInv
<1>8. ASSUME NEW day \in 0..LastDay, NEW type \in {"EXPENSE", "INCOME"}, NEW category \in Categories,
             Record(day, type, category)
      PROVE  BudgetsInv'
  BY <1>8 DEF Record, BudgetsInv
<1>9. CASE NextDay
  <2>1. LastDay \in Int
    <3>1. PICK m \in Months : LastDay = Start[m] - 1
      BY RoomForAPeriod
    <3>2. Start[m] \in Nat
      BY <3>1, StartOfMonths
    <3>3. QED
      BY <3>1, <3>2
  <2>2. now \in 0..LastDay /\ now < LastDay /\ now' = now + 1 /\ budgets' = budgets
    BY <1>9 DEF NextDay, BudgetsInv
  <2>3. now' \in 0..LastDay
    BY <2>1, <2>2
  <2>4. QED
    BY <2>2, <2>3 DEF BudgetsInv
<1>10. CASE UNCHANGED budgetVars
  BY <1>10 DEF budgetVars, BudgetsInv
<1>11. CASE \E id \in Ids, origin \in Origins, count \in Counts, income \in BOOLEAN :
              \E include \in SUBSET Categories : \E exclude \in {{}, Categories \ include} :
                CreateBudget(id, origin, count, include, exclude, income)
  BY <1>4, <1>11
<1>12. CASE \E b \in budgets : \E sent \in SUBSET {"include", "exclude"}, income \in BOOLEAN :
              \E include \in IF "include" \in sent THEN SUBSET Categories ELSE {{}},
                 exclude \in IF "exclude" \in sent THEN SUBSET Categories ELSE {{}} :
                UpdateBudget(b, sent, include, exclude, income)
  BY <1>5, <1>12
<1>13. QED
  BY <1>6, <1>7, <1>8, <1>9, <1>10, <1>11, <1>12, Zenon DEF BudgetsNext

(* The budgets of the spec keep what is asked of a record, and today stays *)
(* within the calendar.                                                    *)
THEOREM BudgetsSafe == BudgetsSpec => []BudgetsInv
<1>1. QED
  BY BudgetsStart, BudgetsStep, PTL DEF BudgetsSpec

(* Today is in the window of a budget whose day every month has, and the   *)
(* old category column names a category of the list: periodWindow and the  *)
(* update of BudgetRepository, for any calendar and any counts.            *)
THEOREM TodayIsCounted == BudgetsSpec => []TodayCounts
<1>1. BudgetsInv => TodayCounts
  <2> SUFFICES ASSUME BudgetsInv, NEW b \in budgets
               PROVE  /\ NamesItsCategory(b)
                      /\ FitsEveryMonth(b) /\ b.origin <= now =>
                           \A t \in rows : t.day = now /\ Matches(b, t) => t \in Counted(b, now)
    BY DEF TodayCounts, NamesItsCategory
  <2>1. b \in BudgetRecord /\ NamesItsCategory(b) /\ now \in 0..LastDay
    BY DEF BudgetsInv
  <2>2. ASSUME FitsEveryMonth(b), b.origin <= now, NEW t \in rows, t.day = now, Matches(b, t)
        PROVE  t \in Counted(b, now)
    <3>1. b.origin \in Origins /\ b.count \in Counts
      BY <2>1 DEF BudgetRecord
    <3>2. \A m \in Months : DayOf(b.origin) <= MonthLengths[m]
      BY <2>2 DEF FitsEveryMonth
    <3>3. now \in WindowOf(b, now)
      BY <2>1, <2>2, <3>1, <3>2, TodayInWindow DEF WindowOf
    <3>4. QED
      BY <2>2, <3>3 DEF Counted
  <2>3. QED
    BY <2>1, <2>2
<1>2. QED
  BY <1>1, BudgetsSafe, PTL

(* No transaction counts in two periods of one budget, whatever day it     *)
(* starts on and whatever the calendar: two windows of periodWindow are    *)
(* the same or share no day.                                               *)
THEOREM PeriodsApart == BudgetsSpec => CountedOnce
<1>1. BudgetsInv /\ BudgetsInv' /\ [BudgetsNext]_budgetVars =>
        [\A b \in budgets \cap budgets' :
           \/ WindowOf(b, now) = WindowOf(b, now')
           \/ Counted(b, now) \cap Counted(b, now') = {}]_budgetVars
  <2> SUFFICES ASSUME BudgetsInv, BudgetsInv', [BudgetsNext]_budgetVars, NEW b \in budgets
               PROVE  \/ WindowOf(b, now) = WindowOf(b, now')
                      \/ Counted(b, now) \cap Counted(b, now') = {}
    OBVIOUS
  <2>1. now' = now \/ now' = now + 1
    BY ZenonT(60) DEF BudgetsNext, budgetVars, CreateBudget, UpdateBudget, Reschedule, DeleteBudget, Record, NextDay
  <2>2. b \in BudgetRecord /\ now \in 0..LastDay /\ now' \in 0..LastDay
    BY DEF BudgetsInv
  <2>3. b.origin \in Origins /\ b.count \in Counts
    BY <2>2 DEF BudgetRecord
  <2>4. PICK d, l : d = now /\ l = now'
    OBVIOUS
  <2>5. d \in 0..LastDay /\ l \in 0..LastDay /\ d <= l
    BY <2>1, <2>2, <2>4
  <2>6. \/ WindowOf(b, d) = WindowOf(b, l)
        \/ WindowOf(b, d) \cap WindowOf(b, l) = {}
    BY <2>3, <2>5, WindowsApart DEF WindowOf
  <2>7. QED
    BY <2>4, <2>6 DEF Counted
<1>2. QED
  BY <1>1, BudgetsSafe, PTL DEF BudgetsSpec, CountedOnce

(* What the run explores is a behaviour of every one of the four, so what  *)
(* is proved of each of them holds of it.                                  *)
THEOREM FourParts == Spec => SavingsSpec /\ PaceSpec /\ BudgetsSpec /\ SignUpSpec
<1>1. Init => SavingsInit /\ PaceInit /\ BudgetsInit /\ SignUpInit
  BY DEF Init
<1>2. [Next]_allVars => /\ [SavingsNext]_savingsVars /\ [PaceNext]_paceVars
                        /\ [BudgetsNext]_budgetVars /\ [SignUpNext]_signUpVars
  BY Zenon DEF Next, allVars
<1>3. QED
  BY <1>1, <1>2, PTL DEF Spec, SavingsSpec, PaceSpec, BudgetsSpec, SignUpSpec
=============================================================================
