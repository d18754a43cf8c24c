---------------------------- MODULE GroupBudgets ----------------------------
(***************************************************************************)
(* Group budgets: GroupBudgetService, GroupBudgetRepository, the /gb       *)
(* commands of the Telegram handler, and the expenses people write in a    *)
(* chat linked to a budget.  They differ from group savings where it       *)
(* matters: adding a member is an upsert that may change a role, a VIEWER  *)
(* may not spend, any member may link the chat, and among several linked   *)
(* budgets a chat uses the one updated last.                               *)
(***************************************************************************)
EXTENDS Membership, FiniteSetsExt

CONSTANTS
  Details,      \* expenses read with one budget (50 in the code)
  Overview      \* expenses read with each budget of a list (30)

ASSUME GroupBudgetsAssumption == Overview \in Nat /\ Details \in Nat /\ Overview <= Details

VARIABLES
  older,        \* older[g], the live budgets with an updated_at before that of g
  chatBudgets,  \* budgets linked to the Telegram chat
  expenses,     \* rows of the expense table
  fate          \* fate[r], what happened to the chat message r so far

budgetOwn == <<older, chatBudgets, expenses, fate>>
budgetVars == <<shared, budgetOwn>>

Touched(g) == [h \in Groups |-> IF h = g THEN live \ {g} ELSE older[h] \ {g}]
NewestOf(S) == CHOOSE g \in S : S \ {g} \subseteq older[g]
ChatBudget == NewestOf(chatBudgets)
MaySpend(u, g) == g \in live /\ HasRole(u, g, Roles \ {"VIEWER"})

(* The newest rows by spentAt, which the caller chooses: any rows.         *)
Latest(g, take) ==
  LET all == {e \in expenses : e.group = g}
  IN  kSubset(Min({take, Cardinality(all)}), all)
(* toDto adds up what was read, in all and for each member it lists.       *)
ReadDetails(g) == Latest(g, Details)
ReadOverview(g) == Latest(g, Overview)
SpentBy(m, read) == Cardinality({e \in read : e.member = m.id})
MembersSpent(g, read) == MapThenSumSet(LAMBDA m : SpentBy(m, read), MembersOf(g))

BudgetsInit ==
  /\ MembershipInit
  /\ older = [g \in Groups |-> {}]
  /\ chatBudgets = {}
  /\ expenses = {}
  /\ fate = [r \in Reqs |-> {}]

BeginCreateBudget(r, u) ==
  /\ MayCreate(u)
  /\ Receive(r, [op |-> "create", id |-> r, user |-> u])
  /\ UNCHANGED <<premium, groupRows, budgetOwn>>

CommitCreateBudget(p, g) ==
  /\ p.op = "create"
  /\ InsertGroup(p, g)
  /\ older' = Touched(g)
  /\ End(p)
  /\ UNCHANGED <<chatBudgets, expenses, fate>>

(* update, for the creator and for managers by role.                       *)
BeginUpdateBudget(r, u, g) ==
  /\ g \in live
  /\ MayManage(u, g)
  /\ Receive(r, [op |-> "update", id |-> r, group |-> g])
  /\ UNCHANGED <<premium, groupRows, budgetOwn>>

CommitUpdateBudget(p) ==
  /\ p.op = "update"
  /\ older' = IF p.group \in live THEN Touched(p.group) ELSE older
  /\ End(p)
  /\ UNCHANGED <<groupRows, chatBudgets, expenses, fate>>

BeginDeleteBudget(r, u, g) ==
  /\ g \in live
  /\ creator[g] = u
  /\ Receive(r, [op |-> "delete", id |-> r, group |-> g])
  /\ UNCHANGED <<premium, groupRows, budgetOwn>>

CommitDeleteBudget(p) ==
  /\ p.op = "delete"
  /\ live' = live \ {p.group}
  /\ members' = members \ MembersOf(p.group)
  /\ older' = [g \in Groups |-> IF g = p.group THEN {} ELSE older[g] \ {p.group}]
  /\ chatBudgets' = chatBudgets \ {p.group}
  /\ expenses' = {e \in expenses : e.group # p.group}
  /\ End(p)
  /\ UNCHANGED <<creator, fate>>

BeginJoinBudget(r, u, g) ==
  /\ g \in live
  /\ ~IsMember(u, g)
  /\ HasRoom(g)
  /\ Receive(r, [op |-> "add", id |-> r, group |-> g, user |-> u, role |-> "MEMBER"])
  /\ UNCHANGED <<premium, groupRows, budgetOwn>>

(* addMemberByTelegramId, whether or not u is a member.                    *)
(* Mutant: the limit is not checked. *)
BeginAddSpenderAnyway(r, acting, u, g, role) ==
  /\ g \in live
  /\ MayManage(acting, g)
  /\ Receive(r, [op |-> "add", id |-> r, group |-> g, user |-> u, role |-> role])
  /\ UNCHANGED <<premium, groupRows, budgetOwn>>
BeginAddSpender(r, acting, u, g, role) ==
  /\ g \in live
  /\ MayManage(acting, g)
  /\ HasRoom(g)
  /\ Receive(r, [op |-> "add", id |-> r, group |-> g, user |-> u, role |-> role])
  /\ UNCHANGED <<premium, groupRows, budgetOwn>>

(* The upsert: a new row, or the new role on the row there is.             *)
CommitAddSpender(p) ==
  LET there == {m \in MembersOf(p.group) : m.user = p.user}
      id == IF there = {} THEN p.id ELSE RowOf(p.user, p.group).id
  IN  /\ p.op = "add"
      /\ members' = IF p.group \in live
                    THEN (members \ there) \cup {Member(id, p.group, p.user, p.role)}
                    ELSE members
      /\ End(p)
      /\ UNCHANGED <<creator, live, budgetOwn>>

(* removeMember: the owner removes others, anybody else only leaves.       *)
(* Mutant: the owner may leave. *)
BeginRemoveSpenderAnyone(r, acting, u, g) ==
  /\ g \in live
  /\ acting = u \/ creator[g] = acting
  /\ Receive(r, [op |-> "remove", id |-> r, group |-> g, user |-> u])
  /\ UNCHANGED <<premium, groupRows, budgetOwn>>
BeginRemoveSpender(r, acting, u, g) ==
  /\ g \in live
  /\ acting = u \/ creator[g] = acting
  /\ ~(creator[g] = acting /\ acting = u)
  /\ Receive(r, [op |-> "remove", id |-> r, group |-> g, user |-> u])
  /\ UNCHANGED <<premium, groupRows, budgetOwn>>

CommitRemoveSpender(p) ==
  LET gone == {m \in MembersOf(p.group) : m.user = p.user}
  IN  /\ p.op = "remove"
      /\ members' = members \ gone
      /\ expenses' = {e \in expenses : \A m \in gone : e.member # m.id}
      /\ End(p)
      /\ UNCHANGED <<creator, live, older, chatBudgets, fate>>

(* linkTelegramChat, for every member.                                     *)
BeginLinkBudget(r, u, g) ==
  /\ g \in live
  /\ creator[g] = u \/ IsMember(u, g)
  /\ Receive(r, [op |-> "link", id |-> r, group |-> g])
  /\ UNCHANGED <<premium, groupRows, budgetOwn>>

CommitLinkBudget(p) ==
  /\ p.op = "link"
  /\ IF p.group \in live
     THEN /\ chatBudgets' = chatBudgets \cup {p.group}
          /\ older' = Touched(p.group)
     ELSE UNCHANGED <<chatBudgets, older>>
  /\ End(p)
  /\ UNCHANGED <<groupRows, expenses, fate>>
-----------------------------------------------------------------------------
(* Expenses.  The mini app calls addExpense; a chat message first finds    *)
(* the budget its chat is linked to, and the category.                     *)
Spend(r, u, g, chat) ==
  [op |-> "spend", id |-> r, group |-> g, user |-> u,
   member |-> RowOf(u, g).id, chat |-> chat]

ExpenseRow(p) == [id |-> p.id, group |-> p.group, user |-> p.user, member |-> p.member]

BeginSpend(r, u, g) ==
  /\ MaySpend(u, g)
  /\ Receive(r, Spend(r, u, g, FALSE))
  /\ UNCHANGED <<premium, groupRows, budgetOwn>>

HearExpense(r, u) ==
  /\ chatBudgets # {}
  /\ Receive(r, [op |-> "heard", id |-> r, group |-> ChatBudget, user |-> u])
  /\ fate' = [fate EXCEPT ![r] = {"heard"}]
  /\ UNCHANGED <<premium, groupRows, older, chatBudgets, expenses>>

(* Whatever is thrown from here on is caught, and the message goes on to   *)
(* the personal confirmation.                                              *)
FallThrough(p, how) ==
  /\ fate' = [fate EXCEPT ![p.id] = @ \cup how \cup {"offered"}]
  /\ End(p)

(* addExpense reads the budget and the role.                               *)
StartChatSpend(p) ==
  /\ p.op = "heard"
  /\ MaySpend(p.user, p.group)
  /\ flight' = (flight \ {p}) \cup {Spend(p.id, p.user, p.group, TRUE)}
  /\ UNCHANGED <<premium, fresh, overlapped, groupRows, budgetOwn>>

(* It refuses, or the category is not found.                               *)
RefuseChatSpend(p) ==
  /\ p.op = "heard"
  /\ FallThrough(p, {})
  /\ UNCHANGED <<groupRows, older, chatBudgets, expenses>>

(* The insert, refused when the member row is gone.                        *)
(* Mutant: a refused insert is taken for a success. *)
CommitSpendBlindly(p) ==
  /\ p.op = "spend"
  /\ expenses' = IF \E m \in members : m.id = p.member THEN expenses \cup {ExpenseRow(p)} ELSE expenses
  /\ End(p)
  /\ UNCHANGED <<groupRows, older, chatBudgets, fate>>
CommitSpend(p) ==
  /\ p.op = "spend"
  /\ IF \E m \in members : m.id = p.member
     THEN /\ expenses' = expenses \cup {ExpenseRow(p)}
          /\ fate' = IF p.chat THEN [fate EXCEPT ![p.id] = @ \cup {"stored"}] ELSE fate
          /\ flight' = (flight \ {p}) \cup IF p.chat THEN {[p EXCEPT !.op = "answer"]} ELSE {}
          /\ UNCHANGED <<premium, fresh, overlapped>>
     ELSE /\ IF p.chat THEN FallThrough(p, {}) ELSE End(p) /\ UNCHANGED fate
          /\ UNCHANGED expenses
  /\ UNCHANGED <<groupRows, older, chatBudgets>>

(* The rest of the handler: the audit row, getById and the message to the  *)
(* chat.  Each may fail although the expense is stored.                    *)
AnswerSpend(p) ==
  /\ p.op = "answer"
  /\ IsMember(p.user, p.group)
  /\ End(p)
  /\ UNCHANGED <<groupRows, budgetOwn>>

FailAnswer(p) ==
  /\ p.op = "answer"
  /\ FallThrough(p, {"failed"})
  /\ UNCHANGED <<groupRows, older, chatBudgets, expenses>>

BudgetsLapse(u) == ChangePlan(u) /\ UNCHANGED budgetOwn

BudgetsNext ==
  \/ \E r \in Reqs, u \in Users :
       \/ BeginCreateBudget(r, u)
       \/ HearExpense(r, u)
       \/ \E g \in Groups :
            \/ BeginUpdateBudget(r, u, g)
            \/ BeginDeleteBudget(r, u, g)
            \/ BeginJoinBudget(r, u, g)
            \/ \E v \in Users, role \in Roles : BeginAddSpender(r, u, v, g, role)
            \/ \E v \in Users : BeginRemoveSpender(r, u, v, g)
            \/ BeginLinkBudget(r, u, g)
            \/ BeginSpend(r, u, g)
  \/ \E p \in flight :
       \/ \E g \in Groups : CommitCreateBudget(p, g)
       \/ CommitUpdateBudget(p)
       \/ CommitDeleteBudget(p)
       \/ CommitAddSpender(p)
       \/ CommitRemoveSpender(p)
       \/ CommitLinkBudget(p)
       \/ StartChatSpend(p)
       \/ RefuseChatSpend(p)
       \/ CommitSpend(p)
       \/ AnswerSpend(p)
       \/ FailAnswer(p)
  \/ \E u \in Users : BudgetsLapse(u)

BudgetsSpec == BudgetsInit /\ [][BudgetsNext]_budgetVars
-----------------------------------------------------------------------------
(* The rows fit the schema; the creator of a budget that exists has a      *)
(* member row, in whatever role (adding the creator again may change it);  *)
(* a chat is only linked to budgets that exist, one of which was updated   *)
(* last.  What the members of a budget are shown to have spent adds up to  *)
(* the total shown, also when some of those who spent were removed.        *)
BudgetSchemaOK ==
  /\ MembersOK
  /\ chatBudgets \subseteq live
  /\ chatBudgets # {} => \E g \in chatBudgets : chatBudgets \ {g} \subseteq older[g]
  /\ \A e \in expenses : \E m \in members :
       e.member = m.id /\ e.group = m.group /\ e.user = m.user
  /\ \A g \in live :
       /\ IsMember(creator[g], g)
       /\ \A read \in ReadDetails(g) \cup ReadOverview(g) :
            MembersSpent(g, read) = Cardinality(read)

(* While requests do not overlap, the limits of the free plan are kept and *)
(* an expense is only stored for somebody who may spend at that moment: a  *)
(* role taken away, a member removed or a plan that lapsed counts at once. *)
BudgetChecksHold ==
  [][overlapped \/ /\ LimitsKeptStep
                   /\ \A e \in expenses' \ expenses : MaySpend(e.user, e.group)]_budgetVars

(* A chat expense that has been handled went to one place: the group       *)
(* budget, or the personal confirmation.  It went to both only if the      *)
(* answer failed after the insert, and never to none.                      *)
ChatExpenseLandsOnce ==
  \A r \in Reqs : "heard" \in fate[r] /\ (\A p \in flight : p.id # r) =>
    \/ ("stored" \in fate[r]) # ("offered" \in fate[r])
    \/ "failed" \in fate[r]
=============================================================================
