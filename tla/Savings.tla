------------------------------ MODULE Savings ------------------------------
(***************************************************************************)
(* The savings goals of one user: SavingsService and SavingsRepository.    *)
(* A contribution reads the amount saved so far, adds to it and writes the *)
(* sum back in one transaction, but without a lock on the goal: the last   *)
(* writer wins.  What is said of a goal (savingsProgress) is computed from *)
(* the column alone.                                                       *)
(***************************************************************************)
EXTENDS Integers, FiniteSets

CONSTANTS
  Goals,        \* ids of goals
  Calls,        \* requests; bound on their number
  Given,        \* amounts that are contributed, positive
  Target,       \* the target of every goal
  GoalLimit     \* goals on the free plan

ASSUME SavingsAssumption ==
  /\ Given \subseteq Nat \ {0} /\ Target \in Nat \ {0} /\ GoalLimit \in Nat
  /\ "create" \notin Goals

VARIABLES
  unlimited,    \* the plan lifts the limit
  goals,        \* goals with a row
  used,         \* ids that were ever given to a goal
  saved,        \* saved[g], the column current_amount
  gifts,        \* gifts[g], the sum of the rows of savings_contributions
  todo,         \* calls not yet received
  doing,        \* calls between their read and their write
  raced         \* history: goals whose calls overlapped; "create" also after any time on a paid plan

savingsVars == <<unlimited, goals, used, saved, gifts, todo, doing, raced>>

Round(a, b) == (2 * a + b) \div (2 * b)
Least(a, b) == IF a < b THEN a ELSE b

(* savingsProgress, in whole percent.                                      *)
Progress(g) ==
  LET left == Target - saved[g]
  IN  [remaining |-> IF left < 0 THEN 0 ELSE left,
       percent |-> Least(100, Round(100 * saved[g], Target)),
       reached |-> left <= 0]

SavingsInit ==
  /\ unlimited \in BOOLEAN
  /\ goals = {} /\ used = {}
  /\ saved = [g \in Goals |-> 0]
  /\ gifts = [g \in Goals |-> 0]
  /\ todo = Calls
  /\ doing = {}
  /\ raced = IF unlimited THEN {"create"} ELSE {}

(* A call about `what` has read and goes on to write p.                    *)
Enter(c, what, p) ==
  /\ c \in todo
  /\ todo' = todo \ {c}
  /\ doing' = doing \cup {p}
  /\ raced' = IF \E q \in doing : q.what = what THEN raced \cup {what} ELSE raced

Leave(p) == doing' = doing \ {p} /\ UNCHANGED <<unlimited, todo, raced>>

(* The plan and the number of goals are read, then the goal is inserted.   *)
StartCreate(c) ==
  /\ unlimited \/ Cardinality(goals) < GoalLimit
  /\ Enter(c, "create", [what |-> "create", call |-> c])
  /\ UNCHANGED <<unlimited, goals, used, saved, gifts>>

FinishCreate(p, g) ==
  /\ p.what = "create"
  /\ g \notin used
  /\ goals' = goals \cup {g}
  /\ used' = used \cup {g}
  /\ Leave(p)
  /\ UNCHANGED <<saved, gifts>>

StartContribute(c, g, amount) ==
  /\ g \in goals
  /\ Enter(c, g, [what |-> g, call |-> c, amount |-> amount, read |-> saved[g]])
  /\ UNCHANGED <<unlimited, goals, used, saved, gifts>>

(* The row and the new amount; the foreign key refuses both for a goal     *)
(* that is gone.                                                           *)
(* Mutant: the amount is added again when the row is written. *)
FinishContributeTwice(p) ==
  /\ p.what \in Goals
  /\ IF p.what \in goals
     THEN /\ gifts' = [gifts EXCEPT ![p.what] = @ + p.amount]
          /\ saved' = [saved EXCEPT ![p.what] = @ + 2 * p.amount]
     ELSE UNCHANGED <<gifts, saved>>
  /\ Leave(p)
  /\ UNCHANGED <<goals, used>>
FinishContribute(p) ==
  /\ p.what \in Goals
  /\ IF p.what \in goals
     THEN /\ gifts' = [gifts EXCEPT ![p.what] = @ + p.amount]
          /\ saved' = [saved EXCEPT ![p.what] = p.read + p.amount]
     ELSE UNCHANGED <<gifts, saved>>
  /\ Leave(p)
  /\ UNCHANGED <<goals, used>>

(* remove: the contributions go with the goal.                             *)
RemoveGoal(c, g) ==
  /\ c \in todo
  /\ g \in goals
  /\ todo' = todo \ {c}
  /\ goals' = goals \ {g}
  /\ UNCHANGED <<unlimited, used, saved, gifts, doing, raced>>

Upgrade ==
  /\ unlimited' = ~unlimited
  /\ raced' = raced \cup {"create"}
  /\ UNCHANGED <<goals, used, saved, gifts, todo, doing>>

SavingsNext ==
  \/ \E c \in Calls : \/ StartCreate(c)
                      \/ \E g \in Goals : RemoveGoal(c, g)
                      \/ \E g \in Goals, amount \in Given : StartContribute(c, g, amount)
  \/ \E p \in doing : \/ \E g \in Goals : FinishCreate(p, g)
                      \/ FinishContribute(p)
  \/ Upgrade

SavingsSpec == SavingsInit /\ [][SavingsNext]_savingsVars
-----------------------------------------------------------------------------
(* Overlapping contributions lose amounts but never invent any: the column *)
(* is at most what was given, and exactly that while no two contributions  *)
(* to the goal overlapped.  So a goal that is said to be reached is, at    *)
(* 100 percent, with contributions for at least its target.  A user who    *)
(* never had a paid plan is beyond the limit only by creating two at once. *)
SavedWasGiven ==
  /\ "create" \notin raced => Cardinality(goals) <= GoalLimit
  /\ \A g \in goals :
       /\ saved[g] <= gifts[g]
       /\ g \notin raced => saved[g] = gifts[g]
       /\ Progress(g).reached => /\ gifts[g] >= Target
                                 /\ Progress(g).percent = 100
                                 /\ Progress(g).remaining = 0
=============================================================================
