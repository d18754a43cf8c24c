---------------------------- MODULE GroupSavings ----------------------------
(***************************************************************************)
(* Group savings goals: GroupSavingsService, GroupSavingsRepository and    *)
(* the /gs commands of the Telegram handler.  A goal keeps its total twice:*)
(* as the column current_amount, raised by every contribution, and as the  *)
(* sum a reader computes from the newest Window contributions.  Removing a *)
(* member deletes the contributions of that member and nothing else.       *)
(***************************************************************************)
EXTENDS Membership, FiniteSetsExt

CONSTANTS
  Amounts,      \* amounts given, positive
  Times,        \* bound: contributedAt, which the caller may choose
  Window        \* contributions a read brings back (50 in the code)

ASSUME GroupSavingsAssumption ==
  Amounts \subseteq Nat \ {0} /\ Times \subseteq Nat /\ Window \in Nat \ {0}

VARIABLES
  current,      \* current[g], the column current_amount
  rows,         \* contributions
  linked,       \* goals linked to the Telegram chat
  shrunk        \* history: goals that lost contributions with a member

goalVars == <<shared, current, rows, linked, shrunk>>

Row(p) == [id |-> p.id, group |-> p.group, user |-> p.user, member |-> p.member,
           amount |-> p.amount, at |-> p.at]
RowsOf(g) == {c \in rows : c.group = g}
SumOf(S) == MapThenSumSet(LAMBDA c : c.amount, S)

(* The totals a reader may be shown: the sum of the newest Window rows,    *)
(* rows of one instant coming in any order.                                *)
Newest(S) ==
  {T \in kSubset(IF Cardinality(S) < Window THEN Cardinality(S) ELSE Window, S) :
     \A c \in T, d \in S \ T : c.at >= d.at}
Shown(g) == {SumOf(T) : T \in Newest(RowsOf(g))}

GoalsInit ==
  /\ MembershipInit
  /\ current = [g \in Groups |-> 0]
  /\ rows = {}
  /\ linked = {}
  /\ shrunk = {}

goalOwn == <<current, rows, linked, shrunk>>

BeginCreate(r, u) ==
  /\ MayCreate(u)
  /\ Receive(r, [op |-> "create", id |-> r, user |-> u])
  /\ UNCHANGED <<premium, groupRows, goalOwn>>

CommitCreate(p, g) ==
  /\ p.op = "create"
  /\ InsertGroup(p, g)
  /\ End(p)
  /\ UNCHANGED goalOwn

(* joinByToken: who is already a member is answered without a write.       *)
BeginJoin(r, u, g) ==
  /\ g \in live
  /\ ~IsMember(u, g)
  /\ HasRoom(g)
  /\ Receive(r, [op |-> "add", id |-> r, group |-> g, user |-> u, role |-> "MEMBER"])
  /\ UNCHANGED <<premium, groupRows, goalOwn>>

(* addMemberByTelegramId: the limit is checked before the membership.      *)
BeginAdd(r, acting, u, g, role) ==
  /\ g \in live
  /\ MayManage(acting, g)
  /\ HasRoom(g)
  /\ ~IsMember(u, g)
  /\ Receive(r, [op |-> "add", id |-> r, group |-> g, user |-> u, role |-> role])
  /\ UNCHANGED <<premium, groupRows, goalOwn>>

(* A plain insert: refused by the unique key when the user became a member *)
(* meanwhile, and by the foreign key when the goal is gone.                *)
CommitAdd(p) ==
  /\ p.op = "add"
  /\ members' = IF p.group \in live /\ ~IsMember(p.user, p.group)
                THEN members \cup {Member(p.id, p.group, p.user, p.role)}
                ELSE members
  /\ End(p)
  /\ UNCHANGED <<creator, live, goalOwn>>

(* addContribution, any role.  A creator without a member row gets one.    *)
BeginGive(r, u, g, amount, at) ==
  /\ g \in live
  /\ IsMember(u, g) \/ creator[g] = u
  /\ LET mine == IF IsMember(u, g) THEN RowOf(u, g) ELSE Member(r, g, u, "OWNER")
     IN  /\ members' = members \cup {mine}
         /\ Receive(r, [op |-> "give", id |-> r, group |-> g, user |-> u,
                        member |-> mine.id, amount |-> amount, at |-> at])
  /\ UNCHANGED <<premium, creator, live, goalOwn>>

(* /gs save: the same, for a goal linked to the chat.                      *)
BeginGiveInChat(r, u, amount, at) ==
  \E g \in linked : BeginGive(r, u, g, amount, at)

(* One transaction inserts the row and raises the total; the foreign key   *)
(* refuses both when the member row read is gone.                          *)
(* Mutant: the repository's addContribution, which inserts only. *)
CommitGiveRowOnly(p) ==
  /\ p.op = "give"
  /\ rows' = IF \E m \in members : m.id = p.member THEN rows \cup {Row(p)} ELSE rows
  /\ End(p)
  /\ UNCHANGED <<groupRows, current, linked, shrunk>>
CommitGive(p) ==
  /\ p.op = "give"
  /\ IF \E m \in members : m.id = p.member
     THEN /\ rows' = rows \cup {Row(p)}
          /\ current' = [current EXCEPT ![p.group] = @ + p.amount]
     ELSE UNCHANGED <<rows, current>>
  /\ End(p)
  /\ UNCHANGED <<groupRows, linked, shrunk>>

(* removeMember: the creator removes others, anybody else only leaves.     *)
BeginRemove(r, acting, u, g) ==
  /\ g \in live
  /\ creator[g] = acting \/ acting = u
  /\ ~(creator[g] = acting /\ acting = u)
  /\ Receive(r, [op |-> "remove", id |-> r, group |-> g, user |-> u])
  /\ UNCHANGED <<premium, groupRows, goalOwn>>

(* deleteMany on the member, and the cascade; the total is left alone.     *)
CommitRemove(p) ==
  LET gone == {m \in MembersOf(p.group) : m.user = p.user}
      lost == {c \in rows : \E m \in gone : c.member = m.id}
  IN  /\ p.op = "remove"
      /\ members' = members \ gone
      /\ rows' = rows \ lost
      /\ shrunk' = IF lost = {} THEN shrunk ELSE shrunk \cup {p.group}
      /\ End(p)
      /\ UNCHANGED <<creator, live, current, linked>>

BeginDelete(r, u, g) ==
  /\ g \in live
  /\ creator[g] = u
  /\ Receive(r, [op |-> "delete", id |-> r, group |-> g])
  /\ UNCHANGED <<premium, groupRows, goalOwn>>

CommitDelete(p) ==
  /\ p.op = "delete"
  /\ live' = live \ {p.group}
  /\ members' = members \ MembersOf(p.group)
  /\ rows' = rows \ RowsOf(p.group)
  /\ linked' = linked \ {p.group}
  /\ End(p)
  /\ UNCHANGED <<creator, current, shrunk>>

(* linkTelegramChat, for the creator; the write needs the row.             *)
BeginLink(r, u, g) ==
  /\ g \in live
  /\ creator[g] = u
  /\ Receive(r, [op |-> "link", id |-> r, group |-> g])
  /\ UNCHANGED <<premium, groupRows, goalOwn>>

CommitLink(p) ==
  /\ p.op = "link"
  /\ linked' = linked \cup ({p.group} \cap live)
  /\ End(p)
  /\ UNCHANGED <<groupRows, current, rows, shrunk>>

GoalsLapse(u) == ChangePlan(u) /\ UNCHANGED goalOwn

GoalsNext ==
  \/ \E r \in Reqs, u \in Users :
       \/ BeginCreate(r, u)
       \/ \E amount \in Amounts, at \in Times : BeginGiveInChat(r, u, amount, at)
       \/ \E g \in Groups :
            \/ BeginJoin(r, u, g)
            \/ \E v \in Users, role \in Roles : BeginAdd(r, u, v, g, role)
            \/ \E amount \in Amounts, at \in Times : BeginGive(r, u, g, amount, at)
            \/ \E v \in Users : BeginRemove(r, u, v, g)
            \/ BeginDelete(r, u, g)
            \/ BeginLink(r, u, g)
  \/ \E p \in flight :
       \/ \E g \in Groups : CommitCreate(p, g)
       \/ CommitAdd(p)
       \/ CommitGive(p)
       \/ CommitRemove(p)
       \/ CommitDelete(p)
       \/ CommitLink(p)
  \/ \E u \in Users : GoalsLapse(u)

GoalsSpec == GoalsInit /\ [][GoalsNext]_goalVars
-----------------------------------------------------------------------------
(* The rows fit the schema: types, the unique key of a membership, the     *)
(* foreign keys; and the creator of a goal that exists is always one of    *)
(* its members with the role OWNER ("Creator is automatically the OWNER    *)
(* member"), so the branch of addContribution that adds the row again is   *)
(* never taken.                                                            *)
SavingsSchemaOK ==
  /\ MembersOK
  /\ current \in [Groups -> Nat]
  /\ linked \subseteq live
  /\ \A c \in rows : \E m \in members :
       c.member = m.id /\ c.group = m.group /\ c.user = m.user
  /\ \A g \in live : \E m \in MembersOf(g) : m.user = creator[g] /\ m.role = "OWNER"

(* The column and the rows tell the same total while no contribution went  *)
(* with a removed member, whatever overlaps; afterwards the column is the  *)
(* larger one.  What a reader is shown is never more than either.          *)
TotalsAgree ==
  \A g \in live :
    LET all == SumOf(RowsOf(g))
    IN  /\ all <= current[g]
        /\ g \notin shrunk => all = current[g]
        /\ \A total \in Shown(g) : total <= all

(* The limits of the free plan are only exceeded by requests that overlap. *)
SavingsLimitsKept == [][overlapped \/ LimitsKeptStep]_goalVars
=============================================================================
