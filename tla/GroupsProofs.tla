---------------------------- MODULE GroupsProofs ----------------------------
(***************************************************************************)
(* Proofs about GroupSavings and GroupBudgets, for any number of people,   *)
(* groups and requests.  The first part is about the sums both modules     *)
(* fold over sets of rows.                                                 *)
(***************************************************************************)
EXTENDS MCGroups, FiniteSetTheorems, TLAPS

(* The function MapThenSumSet computes on the subsets of S: it adds w[x]   *)
(* for every x that it takes.                                              *)
AddsUp(g, w, S) ==
  g = [s \in SUBSET S |-> IF s = {} THEN 0
                          ELSE w[CHOOSE x \in s : TRUE] + g[s \ {CHOOSE x \in s : TRUE}]]

(* There is only one: a smallest set on which two differ would be one      *)
(* element larger than a set on which they agree.                          *)
LEMMA AddsUpOnce ==
  ASSUME NEW S, IsFiniteSet(S), NEW w, NEW g, NEW h, AddsUp(g, w, S), AddsUp(h, w, S)
  PROVE  g = h
<1> DEFINE Differ == {s \in SUBSET S : g[s] # h[s]}
<1>1. SUFFICES ASSUME Differ # {} PROVE FALSE
  BY DEF AddsUp
<1>2. IsWellFoundedOn(StrictSubsetOrdering(S), SUBSET S)
  BY FS_StrictSubsetOrderingWellFounded, FS_FiniteSubsetsOfFinite
<1>3. PICK s \in Differ : \A r \in Differ : <<r, s>> \notin StrictSubsetOrdering(S)
  BY <1>1, <1>2, WFMin
<1>4. s # {}
  BY <1>3 DEF AddsUp
<1> DEFINE x == CHOOSE y \in s : TRUE
<1>5. x \in s
  BY <1>4
<1>6. s \ {x} \in SUBSET S /\ s \ {x} # s
  BY <1>5
<1>7. <<s \ {x}, s>> \in StrictSubsetOrdering(S)
  BY <1>6 DEF StrictSubsetOrdering
<1>8. g[s \ {x}] = h[s \ {x}]
  BY <1>3, <1>6, <1>7
<1>9. g[s] = w[x] + g[s \ {x}] /\ h[s] = w[x] + h[s \ {x}]
  BY <1>4 DEF AddsUp
<1>10. QED
  BY <1>3, <1>8, <1>9

(* A sum of amounts counts the units that make them up, so it is a number, *)
(* no smaller for a larger set, and grows by what is added.                *)
Units(S) == UNION {{c} \X (1 .. c.amount) : c \in S}

LEMMA UnitsOfFinite ==
  ASSUME NEW S, IsFiniteSet(S), \A c \in S : c.amount \in Nat
  PROVE  IsFiniteSet(Units(S))
<1> DEFINE unit == [c \in S |-> {c} \X (1 .. c.amount)]
           Us == {{c} \X (1 .. c.amount) : c \in S}
<1>1. unit \in Surjection(S, Us)
  BY DEF Surjection
<1>2. IsFiniteSet(Us)
  BY <1>1, FS_Surjection
<1>3. ASSUME NEW c \in S PROVE IsFiniteSet({c} \X (1 .. c.amount))
  <2>1. IsFiniteSet({c})
    BY FS_Singleton
  <2>2. IsFiniteSet(1 .. c.amount)
    BY FS_Interval
  <2>3. QED
    BY <2>1, <2>2, FS_Product
<1>4. \A U \in Us : IsFiniteSet(U)
  BY <1>3
<1>5. QED
  BY <1>2, <1>4, FS_UNION DEF Units

LEMMA UnitsSplit ==
  ASSUME NEW S, IsFiniteSet(S), \A c \in S : c.amount \in Nat, NEW x \in S
  PROVE  Cardinality(Units(S)) = x.amount + Cardinality(Units(S \ {x}))
<1> DEFINE U == {x} \X (1 .. x.amount)
           V == Units(S \ {x})
<1>1. Units(S) = U \cup V /\ U \cap V = {}
  BY DEF Units
<1>2. IsFiniteSet(S \ {x})
  BY FS_RemoveElement
<1>3. IsFiniteSet(V)
  BY <1>2, UnitsOfFinite
<1>4. IsFiniteSet(U) /\ Cardinality(U) = x.amount
  <2>1. IsFiniteSet({x}) /\ Cardinality({x}) = 1
    BY FS_Singleton
  <2>2. IsFiniteSet(1 .. x.amount) /\ Cardinality(1 .. x.amount) = x.amount
    <3>1. \A n \in Nat : IsFiniteSet(1 .. n) /\ Cardinality(1 .. n) = n
      BY FS_Interval, SMTT(20)
    <3>2. QED
      BY <3>1
  <2>3. IsFiniteSet(U) /\ Cardinality(U) = 1 * x.amount
    BY <2>1, <2>2, FS_Product
  <2>4. QED
    BY <2>3
<1>5. Cardinality(U \cup V) = Cardinality(U) + Cardinality(V) - Cardinality(U \cap V)
  BY <1>3, <1>4, FS_Union
<1>6. Cardinality(U \cap V) = 0 /\ Cardinality(V) \in Nat
  BY <1>1, <1>3, FS_EmptySet, FS_CardinalityType
<1>7. QED
  BY <1>1, <1>4, <1>5, <1>6

LEMMA SumIsUnits ==
  ASSUME NEW S, IsFiniteSet(S), \A c \in S : c.amount \in Nat
  PROVE  SumOf(S) = Cardinality(Units(S))
<1> DEFINE w == [c \in S |-> c.amount]
           h == [s \in SUBSET S |-> Cardinality(Units(s))]
           Sum(g) == g = [s \in SUBSET S |-> IF s = {} THEN 0
                           ELSE (CHOOSE x \in s : TRUE).amount + g[s \ {CHOOSE x \in s : TRUE}]]
<1>1. AddsUp(h, w, S)
  <2>1. ASSUME NEW s \in SUBSET S
        PROVE  h[s] = IF s = {} THEN 0
                      ELSE w[CHOOSE x \in s : TRUE] + h[s \ {CHOOSE x \in s : TRUE}]
    <3>1. CASE s = {}
      <4>1. Units(s) = {}
        BY <3>1 DEF Units
      <4>2. QED
        BY <3>1, <4>1, FS_EmptySet
    <3>2. CASE s # {}
      <4> DEFINE x == CHOOSE y \in s : TRUE
      <4>1. x \in s /\ x \in S /\ s \ {x} \in SUBSET S
        BY <3>2
      <4>2. IsFiniteSet(s)
        BY FS_Subset
      <4>3. Cardinality(Units(s)) = x.amount + Cardinality(Units(s \ {x}))
        BY <4>1, <4>2, UnitsSplit
      <4>4. w[x] = x.amount /\ h[s \ {x}] = Cardinality(Units(s \ {x}))
        BY <4>1
      <4>5. QED
        BY <3>2, <4>3, <4>4
    <3>3. QED
      BY <3>1, <3>2
  <2>2. QED
    BY <2>1 DEF AddsUp
<1>2. \A g : Sum(g) <=> AddsUp(g, w, S)
  <2>1. \A s \in SUBSET S : s # {} => w[CHOOSE x \in s : TRUE] = (CHOOSE x \in s : TRUE).amount
    OBVIOUS
  <2>2. QED
    BY <2>1 DEF AddsUp
<1>3. Sum(h)
  BY <1>1, <1>2
<1>4. h = CHOOSE g : Sum(g)
  <2>1. Sum(CHOOSE g : Sum(g))
    BY <1>3
  <2>2. QED
    BY <1>1, <1>2, <2>1, AddsUpOnce
<1>5. SumOf(S) = h[S]
  BY <1>4 DEF SumOf, MapThenSumSet, MapThenFoldSet
<1>6. QED
  BY <1>5

LEMMA SumFacts ==
  ASSUME NEW S, IsFiniteSet(S), \A c \in S : c.amount \in Nat
  PROVE  /\ SumOf(S) \in Nat
         /\ \A T \in SUBSET S : SumOf(T) \in Nat /\ SumOf(T) <= SumOf(S)
<1>1. SumOf(S) \in Nat
  BY SumIsUnits, UnitsOfFinite, FS_CardinalityType
<1>2. ASSUME NEW T \in SUBSET S
      PROVE  SumOf(T) \in Nat /\ SumOf(T) <= SumOf(S)
  <2>1. IsFiniteSet(T)
    BY FS_Subset
  <2>2. Units(T) \in SUBSET Units(S)
    BY DEF Units
  <2>3. Cardinality(Units(T)) <= Cardinality(Units(S))
    BY <2>2, UnitsOfFinite, FS_Subset
  <2>4. SumOf(T) \in Nat
    BY <2>1, SumIsUnits, UnitsOfFinite, FS_CardinalityType
  <2>5. QED
    BY <2>1, <2>3, <2>4, SumIsUnits
<1>3. QED
  BY <1>1, <1>2

LEMMA SumAdds ==
  ASSUME NEW S, IsFiniteSet(S), \A c \in S : c.amount \in Nat, NEW x, x.amount \in Nat, x \notin S
  PROVE  SumOf(S \cup {x}) = SumOf(S) + x.amount
<1>1. IsFiniteSet(S \cup {x}) /\ (S \cup {x}) \ {x} = S
  BY FS_AddElement
<1>2. Cardinality(Units(S \cup {x})) = x.amount + Cardinality(Units(S))
  BY <1>1, UnitsSplit
<1>3. Cardinality(Units(S)) \in Nat
  BY UnitsOfFinite, FS_CardinalityType
<1>4. QED
  BY <1>1, <1>2, <1>3, SumIsUnits

LEMMA SumOfNothing == SumOf({}) = 0
<1>1. Units({}) = {}
  BY DEF Units
<1>2. QED
  BY <1>1, FS_EmptySet, SumIsUnits
-----------------------------------------------------------------------------
(* What holds of the requests and rows of both modules.  A request that    *)
(* will insert a member has an id that no member row has.                  *)
IdsOnce ==
  /\ fresh \subseteq Reqs
  /\ \A p \in flight : p.id \in Reqs \ fresh
  /\ \A p, q \in flight : p.id = q.id => p = q
  /\ \A m \in members : m.id \notin fresh
  /\ \A p \in flight, m \in members : p.op \in {"create", "add"} => m.id # p.id

GroupTypes ==
  /\ creator \in [Groups -> Users \cup {Nobody}]
  /\ live \subseteq Groups /\ overlapped \in BOOLEAN
  /\ IsFiniteSet(live) /\ IsFiniteSet(members)

(* A member row that a request holds on to is the one it read, or gone.    *)
HoldsRow(p) ==
  /\ p.member \in Reqs \ fresh
  /\ \A m \in members : m.id = p.member => m.group = p.group /\ m.user = p.user
  /\ \A q \in flight : q.op \in {"create", "add"} => q.id # p.member

(* While nothing overlaps there is one request under way, and what it      *)
(* checked of the plan still holds when it writes.                         *)
ChecksStand(p) ==
  /\ p.op = "create" => MayCreate(p.user)
  /\ p.op = "add" /\ p.group \in live => HasRoom(p.group)
OneAtATime ==
  ~overlapped => (\A p, q \in flight : p = q) /\ (\A p \in flight : ChecksStand(p))
-----------------------------------------------------------------------------
GoalRequest(p) ==
  /\ p.op \in {"create", "add", "give", "remove", "delete", "link"}
  /\ p.op # "create" => p.group \in Groups
  /\ p.op \in {"create", "add", "give"} => p.user \in Users
  /\ p.op = "add" => p.role \in Roles
  /\ p.op = "give" => HoldsRow(p) /\ p.amount \in Nat
  /\ p.op = "remove" => creator[p.group] # Nobody /\ p.user # creator[p.group]

ContributionsOnce ==
  /\ IsFiniteSet(rows)
  /\ \A c \in rows : c.amount \in Nat /\ c.id \notin fresh
  /\ \A c \in rows, p \in flight : p.op = "give" => c.id # p.id

(* The third part of TotalsAgree follows from the rows being finite.       *)
Total(g) == SumOf(RowsOf(g))
TotalsKept ==
  /\ \A g \in Groups : creator[g] = Nobody => current[g] = 0
  /\ \A g \in live : Total(g) <= current[g] /\ (g \notin shrunk => Total(g) = current[g])

GoalsInv ==
  /\ IdsOnce /\ GroupTypes /\ OneAtATime
  /\ \A p \in flight : GoalRequest(p)
  /\ SavingsSchemaOK /\ ContributionsOnce /\ TotalsKept

LEMMA GoalsInitInv == GoalsInit => GoalsInv
<1> SUFFICES ASSUME GoalsInit PROVE GoalsInv
  OBVIOUS
<1> USE DEF GoalsInit, MembershipInit
<1>1. IsFiniteSet({})
  BY FS_EmptySet
<1>2. IdsOnce /\ GroupTypes /\ OneAtATime /\ \A p \in flight : GoalRequest(p)
  BY <1>1 DEF IdsOnce, GroupTypes, OneAtATime
<1>3. SavingsSchemaOK
  BY DEF SavingsSchemaOK, MembersOK, MembersOf
<1>4. ContributionsOnce /\ TotalsKept
  BY <1>1 DEF ContributionsOnce, TotalsKept
<1>5. QED
  BY <1>2, <1>3, <1>4 DEF GoalsInv

(* A request that is received leaves the rows alone.                       *)
LEMMA ReceiveGoal ==
  ASSUME GoalsInv, NEW r \in Reqs, NEW p, Receive(r, p), UNCHANGED <<premium, groupRows, goalOwn>>,
         p.id = r, GoalRequest(p), p.op \in {"create", "add"} => ChecksStand(p)
  PROVE  GoalsInv'
<1> USE DEF groupRows, goalOwn
<1>1. /\ r \in fresh /\ fresh' = fresh \ {r} /\ flight' = flight \cup {p}
      /\ overlapped' = (overlapped \/ flight # {})
  BY DEF Receive
<1>2. IdsOnce'
  BY <1>1 DEF GoalsInv, IdsOnce
<1>3. GroupTypes'
  BY <1>1 DEF GoalsInv, GroupTypes
<1>4. OneAtATime'
  BY <1>1 DEF GoalsInv, OneAtATime, ChecksStand, MayCreate, CountCreated, HasRoom, MembersOf
<1>5. ASSUME NEW q \in flight' PROVE GoalRequest(q)'
  <2>1. GoalRequest(q)
    BY <1>1 DEF GoalsInv
  <2>2. q.op = "give" => HoldsRow(q)'
    <3>1. SUFFICES ASSUME q.op = "give" PROVE HoldsRow(q)'
      OBVIOUS
    <3>2. HoldsRow(q)
      BY <2>1, <3>1 DEF GoalRequest
    <3>3. p.op \in {"create", "add"} => p.id # q.member
      BY <1>1, <3>2 DEF HoldsRow
    <3>4. QED
      BY <1>1, <3>2, <3>3 DEF HoldsRow
  <2>3. QED
    BY <2>1, <2>2 DEF GoalRequest
<1>6. SavingsSchemaOK'
  BY DEF GoalsInv, SavingsSchemaOK, MembersOK, MembersOf
<1>7. ContributionsOnce' /\ TotalsKept'
  BY <1>1 DEF GoalsInv, ContributionsOnce, TotalsKept, Total, RowsOf
<1>8. QED
  BY <1>2, <1>3, <1>4, <1>5, <1>6, <1>7 DEF GoalsInv

LEMMA BeginGoalRequest ==
  ASSUME GoalsInv, NEW r \in Reqs, NEW u \in Users, NEW g \in Groups,
         \/ BeginJoin(r, u, g)
         \/ \E v \in Users, role \in Roles : BeginAdd(r, u, v, g, role)
         \/ \E v \in Users : BeginRemove(r, u, v, g)
         \/ BeginDelete(r, u, g)
         \/ BeginLink(r, u, g)
  PROVE  GoalsInv'
<1>1. CASE BeginJoin(r, u, g)
  <2> DEFINE p == [op |-> "add", id |-> r, group |-> g, user |-> u, role |-> "MEMBER"]
  <2>1. GoalRequest(p) /\ ChecksStand(p)
    BY <1>1 DEF BeginJoin, GoalRequest, ChecksStand, Roles
  <2>2. QED
    BY <1>1, <2>1, ReceiveGoal DEF BeginJoin
<1>2. CASE \E v \in Users, role \in Roles : BeginAdd(r, u, v, g, role)
  <2>1. PICK v \in Users, role \in Roles : BeginAdd(r, u, v, g, role)
    BY <1>2
  <2> DEFINE p == [op |-> "add", id |-> r, group |-> g, user |-> v, role |-> role]
  <2>2. GoalRequest(p) /\ ChecksStand(p)
    BY <2>1 DEF BeginAdd, GoalRequest, ChecksStand
  <2>3. QED
    BY <2>1, <2>2, ReceiveGoal DEF BeginAdd
<1>3. CASE \E v \in Users : BeginRemove(r, u, v, g)
  <2>1. PICK v \in Users : BeginRemove(r, u, v, g)
    BY <1>3
  <2> DEFINE p == [op |-> "remove", id |-> r, group |-> g, user |-> v]
  <2>2. creator[g] # Nobody
    BY <2>1 DEF BeginRemove, GoalsInv, SavingsSchemaOK, MembersOK
  <2>3. GoalRequest(p)
    BY <2>1, <2>2 DEF BeginRemove, GoalRequest
  <2>4. QED
    BY <2>1, <2>3, ReceiveGoal DEF BeginRemove
<1>4. CASE BeginDelete(r, u, g)
  <2> DEFINE p == [op |-> "delete", id |-> r, group |-> g]
  <2>1. GoalRequest(p)
    BY DEF GoalRequest
  <2>2. QED
    BY <1>4, <2>1, ReceiveGoal DEF BeginDelete
<1>5. CASE BeginLink(r, u, g)
  <2> DEFINE p == [op |-> "link", id |-> r, group |-> g]
  <2>1. GoalRequest(p)
    BY DEF GoalRequest
  <2>2. QED
    BY <1>5, <2>1, ReceiveGoal DEF BeginLink
<1>6. QED
  BY <1>1, <1>2, <1>3, <1>4, <1>5

(* Whoever may give has a member row already, so none is added.            *)
LEMMA BeginGiveInv ==
  ASSUME GoalsInv, NEW r \in Reqs, NEW u \in Users, NEW g \in Groups, NEW amount \in Amounts,
         NEW at \in Times, BeginGive(r, u, g, amount, at)
  PROVE  GoalsInv' /\ members' = members
<1>1. IsMember(u, g)
  BY DEF BeginGive, GoalsInv, SavingsSchemaOK, IsMember
<1>2. RowOf(u, g) \in MembersOf(g) /\ RowOf(u, g).user = u
  BY <1>1 DEF IsMember, RowOf
<1> DEFINE mine == RowOf(u, g)
           p == [op |-> "give", id |-> r, group |-> g, user |-> u, member |-> mine.id,
                 amount |-> amount, at |-> at]
<1>3. mine \in members /\ mine.group = g
  BY <1>2 DEF MembersOf
<1>4. members' = members /\ Receive(r, p) /\ UNCHANGED <<premium, groupRows, goalOwn>>
  BY <1>1, <1>3 DEF BeginGive, groupRows
<1>5. HoldsRow(p)
  BY <1>2, <1>3 DEF HoldsRow, GoalsInv, IdsOnce, SavingsSchemaOK, MembersOK, MemberRows
<1>6. GoalRequest(p)
  BY <1>5, GroupSavingsAssumption DEF GoalRequest
<1>7. QED
  BY <1>4, <1>6, ReceiveGoal

(* A request that has ended: what is said of the others stays.             *)
LEMMA EndedRequests ==
  ASSUME GoalsInv, NEW p \in flight, End(p)
  PROVE  /\ flight' = flight \ {p} /\ UNCHANGED <<premium, fresh, overlapped>>
         /\ \A q \in flight' : q \in flight /\ q.id # p.id
         /\ OneAtATime'
<1>1. flight' = flight \ {p} /\ UNCHANGED <<premium, fresh, overlapped>>
  BY DEF End
<1>2. \A q \in flight' : q \in flight /\ q.id # p.id
  BY <1>1 DEF GoalsInv, IdsOnce
<1>3. ~overlapped => flight' = {}
  BY <1>1 DEF GoalsInv, OneAtATime
<1>4. QED
  BY <1>1, <1>2, <1>3 DEF OneAtATime

LEMMA CommitCreateInv ==
  ASSUME GoalsInv, NEW p \in flight, NEW g \in Groups, CommitCreate(p, g)
  PROVE  GoalsInv'
<1> DEFINE m0 == Member(p.id, g, p.user, "OWNER")
<1>1. /\ p.op = "create" /\ creator[g] = Nobody /\ creator' = [creator EXCEPT ![g] = p.user]
      /\ live' = live \cup {g} /\ members' = members \cup {m0} /\ End(p)
      /\ UNCHANGED <<current, rows, linked, shrunk>>
  BY DEF CommitCreate, InsertGroup, goalOwn
<1>2. /\ flight' = flight \ {p} /\ UNCHANGED <<premium, fresh, overlapped>>
      /\ \A q \in flight' : q \in flight /\ q.id # p.id
      /\ OneAtATime'
  BY <1>1, EndedRequests
<1>3. /\ m0.id = p.id /\ m0.group = g /\ m0.user = p.user /\ m0.role = "OWNER"
      /\ p.id \in Reqs \ fresh /\ p.user \in Users /\ m0 \in MemberRows
  BY <1>1 DEF Member, MemberRows, Roles, GoalsInv, IdsOnce, GoalRequest
<1>4. \A m \in members : m.group # g /\ m.id # p.id
  BY <1>1 DEF GoalsInv, SavingsSchemaOK, MembersOK, MemberRows, IdsOnce
<1>5. g \notin live /\ \A c \in rows : c.group # g
  BY <1>1, <1>4 DEF GoalsInv, SavingsSchemaOK, MembersOK
<1>6. IdsOnce'
  BY <1>1, <1>2, <1>3, <1>4 DEF GoalsInv, IdsOnce
<1>7. GroupTypes'
  BY <1>1, <1>2, <1>3, FS_AddElement DEF GoalsInv, GroupTypes
<1>8. ASSUME NEW q \in flight' PROVE GoalRequest(q)'
  <2>1. GoalRequest(q) /\ q.id # p.id /\ q \in flight
    BY <1>2 DEF GoalsInv
  <2>2. q.op = "give" => HoldsRow(q)'
    BY <1>1, <1>2, <1>3, <2>1 DEF GoalRequest, HoldsRow
  <2>3. q.op = "remove" => q.group # g
    BY <1>1, <2>1 DEF GoalRequest
  <2>4. QED
    BY <1>1, <2>1, <2>2, <2>3 DEF GoalRequest, GoalsInv, GroupTypes
<1>9. SavingsSchemaOK'
  <2>1. MembersOK'
    BY <1>1, <1>3, <1>4, MembershipAssumption DEF GoalsInv, SavingsSchemaOK, MembersOK, GroupTypes
  <2>2. \A h \in live' : \E m \in MembersOf(h)' : m.user = creator'[h] /\ m.role = "OWNER"
    BY <1>1, <1>3, <1>5 DEF GoalsInv, SavingsSchemaOK, MembersOf, GroupTypes
  <2>3. QED
    BY <1>1, <2>1, <2>2 DEF GoalsInv, SavingsSchemaOK
<1>10. ContributionsOnce'
  BY <1>1, <1>2 DEF GoalsInv, ContributionsOnce
<1>11. TotalsKept'
  <2>1. \A h \in Groups : Total(h)' = Total(h)
    BY <1>1 DEF Total, RowsOf
  <2>2. current[g] = 0 /\ Total(g) = 0
    BY <1>1, <1>5, SumOfNothing DEF GoalsInv, TotalsKept, Total, RowsOf
  <2>3. QED
    BY <1>1, <1>5, <2>1, <2>2 DEF GoalsInv, TotalsKept, GroupTypes
<1>12. QED
  BY <1>2, <1>6, <1>7, <1>8, <1>9, <1>10, <1>11 DEF GoalsInv

LEMMA CommitAddInv ==
  ASSUME GoalsInv, NEW p \in flight, CommitAdd(p)
  PROVE  GoalsInv'
<1> DEFINE m0 == Member(p.id, p.group, p.user, p.role)
<1>1. /\ p.op = "add" /\ End(p) /\ UNCHANGED <<creator, live, current, rows, linked, shrunk>>
      /\ \/ /\ members' = members \cup {m0}
            /\ p.group \in live /\ ~IsMember(p.user, p.group)
         \/ members' = members
  BY DEF CommitAdd, goalOwn
<1>2. /\ flight' = flight \ {p} /\ UNCHANGED <<premium, fresh, overlapped>>
      /\ \A q \in flight' : q \in flight /\ q.id # p.id
      /\ OneAtATime'
  BY <1>1, EndedRequests
<1>3. /\ m0.id = p.id /\ m0.group = p.group /\ m0.user = p.user
      /\ p.id \in Reqs \ fresh /\ p.user \in Users /\ m0 \in MemberRows
      /\ \A m \in members : m.id # p.id
  BY <1>1 DEF Member, MemberRows, GoalsInv, IdsOnce, GoalRequest
<1>4. IdsOnce'
  BY <1>1, <1>2, <1>3 DEF GoalsInv, IdsOnce
<1>5. GroupTypes'
  BY <1>1, <1>2, FS_AddElement DEF GoalsInv, GroupTypes
<1>6. ASSUME NEW q \in flight' PROVE GoalRequest(q)'
  <2>1. GoalRequest(q) /\ q.id # p.id /\ q \in flight
    BY <1>2 DEF GoalsInv
  <2>2. q.op = "give" => HoldsRow(q)'
    BY <1>1, <1>2, <1>3, <2>1 DEF GoalRequest, HoldsRow
  <2>3. QED
    BY <1>1, <2>1, <2>2 DEF GoalRequest
<1>7. SavingsSchemaOK'
  <2>1. MembersOK'
    BY <1>1, <1>3 DEF GoalsInv, SavingsSchemaOK, MembersOK, IsMember, MembersOf
  <2>2. \A h \in live' : \E m \in MembersOf(h)' : m.user = creator'[h] /\ m.role = "OWNER"
    BY <1>1 DEF GoalsInv, SavingsSchemaOK, MembersOf
  <2>3. QED
    BY <1>1, <2>1, <2>2 DEF GoalsInv, SavingsSchemaOK
<1>8. ContributionsOnce' /\ TotalsKept'
  BY <1>1, <1>2 DEF GoalsInv, ContributionsOnce, TotalsKept, Total, RowsOf
<1>9. QED
  BY <1>2, <1>4, <1>5, <1>6, <1>7, <1>8 DEF GoalsInv

LEMMA CommitGiveInv ==
  ASSUME GoalsInv, NEW p \in flight, CommitGive(p)
  PROVE  GoalsInv'
<1> DEFINE c0 == Row(p)
<1>1. /\ p.op = "give" /\ End(p) /\ UNCHANGED <<creator, live, members, linked, shrunk>>
      /\ \/ /\ \E m \in members : m.id = p.member
            /\ rows' = rows \cup {c0}
            /\ current' = [current EXCEPT ![p.group] = @ + p.amount]
         \/ UNCHANGED <<rows, current>>
  BY DEF CommitGive, groupRows
<1>2. /\ flight' = flight \ {p} /\ UNCHANGED <<premium, fresh, overlapped>>
      /\ \A q \in flight' : q \in flight /\ q.id # p.id
      /\ OneAtATime'
  BY <1>1, EndedRequests
<1>3. HoldsRow(p) /\ p.amount \in Nat /\ p.group \in Groups /\ p.id \in Reqs \ fresh
  BY <1>1 DEF GoalsInv, GoalRequest, IdsOnce
<1>4. /\ c0.id = p.id /\ c0.group = p.group /\ c0.user = p.user /\ c0.member = p.member
      /\ c0.amount = p.amount
  BY DEF Row
<1>5. c0 \notin rows
  BY <1>1, <1>4 DEF GoalsInv, ContributionsOnce
<1>6. IdsOnce' /\ GroupTypes'
  BY <1>1, <1>2 DEF GoalsInv, IdsOnce, GroupTypes
<1>7. ASSUME NEW q \in flight' PROVE GoalRequest(q)'
  BY <1>1, <1>2 DEF GoalsInv, GoalRequest, HoldsRow
<1>8. SavingsSchemaOK'
  <2>1. MembersOK' /\ current' \in [Groups -> Nat]
    BY <1>1, <1>3 DEF GoalsInv, SavingsSchemaOK, MembersOK
  <2>2. \A c \in rows' : \E m \in members :
          c.member = m.id /\ c.group = m.group /\ c.user = m.user
    BY <1>1, <1>3, <1>4 DEF GoalsInv, SavingsSchemaOK, HoldsRow
  <2>3. QED
    BY <1>1, <2>1, <2>2 DEF GoalsInv, SavingsSchemaOK, MembersOf
<1>9. ContributionsOnce'
  BY <1>1, <1>2, <1>3, <1>4, FS_AddElement DEF GoalsInv, ContributionsOnce
<1>10. TotalsKept'
  <2>1. CASE UNCHANGED <<rows, current>>
    BY <1>1, <2>1 DEF GoalsInv, TotalsKept, Total, RowsOf
  <2>2. CASE rows' = rows \cup {c0} /\ current' = [current EXCEPT ![p.group] = @ + p.amount]
             /\ \E m \in members : m.id = p.member
    <3>1. creator[p.group] # Nobody
      BY <1>3, <2>2 DEF HoldsRow, GoalsInv, SavingsSchemaOK, MembersOK
    <3>2. IsFiniteSet(RowsOf(p.group)) /\ RowsOf(p.group)' = RowsOf(p.group) \cup {c0}
      BY <1>4, <2>2, FS_Subset DEF RowsOf, GoalsInv, ContributionsOnce
    <3>3. Total(p.group)' = Total(p.group) + p.amount /\ Total(p.group) \in Nat
      <4> DEFINE R == RowsOf(p.group)
      <4>1. (\A c \in R : c.amount \in Nat) /\ c0 \notin R
        BY <1>5 DEF RowsOf, GoalsInv, ContributionsOnce
      <4>2. SumOf(R \cup {c0}) = SumOf(R) + c0.amount /\ SumOf(R) \in Nat
        BY <1>3, <1>4, <3>2, <4>1, SumAdds, SumFacts
      <4>3. QED
        BY <1>4, <3>2, <4>2 DEF Total
    <3>4. \A g \in Groups : g # p.group => Total(g)' = Total(g) /\ current'[g] = current[g]
      <4>1. \A g \in Groups : g # p.group => RowsOf(g)' = RowsOf(g)
        BY <1>4, <2>2 DEF RowsOf
      <4>2. QED
        BY <2>2, <4>1 DEF Total, GoalsInv, SavingsSchemaOK
    <3>5. current'[p.group] = current[p.group] + p.amount /\ current[p.group] \in Nat
      BY <1>3, <2>2 DEF GoalsInv, SavingsSchemaOK
    <3>6. QED
      BY <1>1, <1>3, <3>1, <3>3, <3>4, <3>5 DEF GoalsInv, TotalsKept, GroupTypes
  <2>3. QED
    BY <1>1, <2>1, <2>2
<1>11. QED
  BY <1>2, <1>6, <1>7, <1>8, <1>9, <1>10 DEF GoalsInv

(* A member that goes takes along contributions to that goal only.         *)
LEMMA CommitRemoveInv ==
  ASSUME GoalsInv, NEW p \in flight, CommitRemove(p)
  PROVE  GoalsInv'
<1> DEFINE gone == {m \in MembersOf(p.group) : m.user = p.user}
           lost == {c \in rows : \E m \in gone : c.member = m.id}
<1>1. /\ p.op = "remove" /\ End(p) /\ UNCHANGED <<creator, live, current, linked>>
      /\ members' = members \ gone /\ rows' = rows \ lost
      /\ shrunk' = IF lost = {} THEN shrunk ELSE shrunk \cup {p.group}
  BY DEF CommitRemove
<1>2. /\ flight' = flight \ {p} /\ UNCHANGED <<premium, fresh, overlapped>>
      /\ \A q \in flight' : q \in flight /\ q.id # p.id
      /\ OneAtATime'
  BY <1>1, EndedRequests
<1>3. p.group \in Groups /\ p.user # creator[p.group]
  BY <1>1 DEF GoalsInv, GoalRequest
<1>4. \A c \in lost : c.group = p.group
  BY DEF GoalsInv, SavingsSchemaOK, MembersOK, MembersOf
<1>5. IdsOnce'
  BY <1>1, <1>2 DEF GoalsInv, IdsOnce
<1>6. GroupTypes'
  BY <1>1, <1>2, FS_Subset DEF GoalsInv, GroupTypes
<1>7. ASSUME NEW q \in flight' PROVE GoalRequest(q)'
  BY <1>1, <1>2 DEF GoalsInv, GoalRequest, HoldsRow
<1>8. SavingsSchemaOK'
  <2>1. MembersOK'
    BY <1>1 DEF GoalsInv, SavingsSchemaOK, MembersOK
  <2>2. \A c \in rows' : \E m \in members' :
          c.member = m.id /\ c.group = m.group /\ c.user = m.user
    BY <1>1 DEF GoalsInv, SavingsSchemaOK
  <2>3. \A h \in live' : \E m \in MembersOf(h)' : m.user = creator'[h] /\ m.role = "OWNER"
    BY <1>1, <1>3 DEF GoalsInv, SavingsSchemaOK, MembersOf
  <2>4. QED
    BY <1>1, <2>1, <2>2, <2>3 DEF GoalsInv, SavingsSchemaOK
<1>9. ContributionsOnce'
  BY <1>1, <1>2, FS_Subset DEF GoalsInv, ContributionsOnce
<1>10. TotalsKept'
  <2>1. ASSUME NEW g \in live'
        PROVE  Total(g)' <= current'[g] /\ (g \notin shrunk' => Total(g)' = current'[g])
    <3>1. IsFiniteSet(RowsOf(g)) /\ \A c \in RowsOf(g) : c.amount \in Nat
      BY FS_Subset DEF RowsOf, GoalsInv, ContributionsOnce
    <3>2. RowsOf(g)' \in SUBSET RowsOf(g)
      BY <1>1 DEF RowsOf
    <3>3. Total(g) \in Nat /\ Total(g)' \in Nat /\ Total(g)' <= Total(g)
      BY <3>1, <3>2, SumFacts DEF Total
    <3>4. Total(g) <= current[g] /\ (g \notin shrunk => Total(g) = current[g]) /\ current[g] \in Nat
      BY <1>1 DEF GoalsInv, TotalsKept, SavingsSchemaOK, GroupTypes
    <3>5. g \notin shrunk' => g \notin shrunk /\ RowsOf(g)' = RowsOf(g)
      BY <1>1, <1>4 DEF RowsOf
    <3>6. QED
      BY <1>1, <3>3, <3>4, <3>5 DEF Total
  <2>2. QED
    BY <1>1, <2>1 DEF GoalsInv, TotalsKept
<1>11. QED
  BY <1>2, <1>5, <1>6, <1>7, <1>8, <1>9, <1>10 DEF GoalsInv

LEMMA CommitDeleteInv ==
  ASSUME GoalsInv, NEW p \in flight, CommitDelete(p)
  PROVE  GoalsInv'
<1>1. /\ p.op = "delete" /\ End(p) /\ UNCHANGED <<creator, current, shrunk>>
      /\ live' = live \ {p.group} /\ members' = members \ MembersOf(p.group)
      /\ rows' = rows \ RowsOf(p.group) /\ linked' = linked \ {p.group}
  BY DEF CommitDelete
<1>2. /\ flight' = flight \ {p} /\ UNCHANGED <<premium, fresh, overlapped>>
      /\ \A q \in flight' : q \in flight /\ q.id # p.id
      /\ OneAtATime'
  BY <1>1, EndedRequests
<1>3. IdsOnce'
  BY <1>1, <1>2 DEF GoalsInv, IdsOnce
<1>4. GroupTypes'
  BY <1>1, <1>2, FS_Subset DEF GoalsInv, GroupTypes
<1>5. ASSUME NEW q \in flight' PROVE GoalRequest(q)'
  BY <1>1, <1>2 DEF GoalsInv, GoalRequest, HoldsRow
<1>6. SavingsSchemaOK'
  <2>1. MembersOK'
    BY <1>1 DEF GoalsInv, SavingsSchemaOK, MembersOK, MembersOf
  <2>2. \A c \in rows' : \E m \in members' :
          c.member = m.id /\ c.group = m.group /\ c.user = m.user
    BY <1>1 DEF GoalsInv, SavingsSchemaOK, MembersOf, RowsOf
  <2>3. \A h \in live' : \E m \in MembersOf(h)' : m.user = creator'[h] /\ m.role = "OWNER"
    BY <1>1 DEF GoalsInv, SavingsSchemaOK, MembersOf
  <2>4. QED
    BY <1>1, <2>1, <2>2, <2>3 DEF GoalsInv, SavingsSchemaOK
<1>7. ContributionsOnce'
  BY <1>1, <1>2, FS_Subset DEF GoalsInv, ContributionsOnce
<1>8. TotalsKept'
  <2>1. \A g \in live' : g \in live /\ RowsOf(g)' = RowsOf(g)
    BY <1>1 DEF RowsOf
  <2>2. QED
    BY <1>1, <2>1 DEF GoalsInv, TotalsKept, Total
<1>9. QED
  BY <1>2, <1>3, <1>4, <1>5, <1>6, <1>7, <1>8 DEF GoalsInv

LEMMA CommitLinkInv ==
  ASSUME GoalsInv, NEW p \in flight, CommitLink(p)
  PROVE  GoalsInv'
<1>1. /\ p.op = "link" /\ End(p) /\ UNCHANGED <<groupRows, current, rows, shrunk>>
      /\ linked' = linked \cup ({p.group} \cap live)
  BY DEF CommitLink
<1>2. /\ flight' = flight \ {p} /\ UNCHANGED <<premium, fresh, overlapped>>
      /\ \A q \in flight' : q \in flight /\ q.id # p.id
      /\ OneAtATime'
  BY <1>1, EndedRequests
<1> USE DEF groupRows
<1>3. IdsOnce' /\ GroupTypes'
  BY <1>1, <1>2 DEF GoalsInv, IdsOnce, GroupTypes
<1>4. ASSUME NEW q \in flight' PROVE GoalRequest(q)'
  BY <1>1, <1>2 DEF GoalsInv, GoalRequest, HoldsRow
<1>5. SavingsSchemaOK'
  BY <1>1 DEF GoalsInv, SavingsSchemaOK, MembersOK, MembersOf
<1>6. ContributionsOnce' /\ TotalsKept'
  BY <1>1, <1>2 DEF GoalsInv, ContributionsOnce, TotalsKept, Total, RowsOf
<1>7. QED
  BY <1>2, <1>3, <1>4, <1>5, <1>6 DEF GoalsInv

(* A plan that changes while a request is under way overlaps with it.      *)
LEMMA GoalsIdleInv ==
  ASSUME GoalsInv, UNCHANGED goalVars \/ \E u \in Users : GoalsLapse(u)
  PROVE  GoalsInv'
<1>1. UNCHANGED <<groupRows, fresh, flight, goalOwn>>
  BY DEF goalVars, shared, groupRows, goalOwn, GoalsLapse, ChangePlan
<1>2. \/ UNCHANGED <<premium, overlapped>>
      \/ overlapped' = (overlapped \/ flight # {})
  BY DEF goalVars, shared, GoalsLapse, ChangePlan
<1> USE DEF groupRows, goalOwn
<1>3. OneAtATime'
  BY <1>1, <1>2 DEF GoalsInv, OneAtATime, ChecksStand, MayCreate, CountCreated, HasRoom, MembersOf
<1>4. IdsOnce' /\ GroupTypes'
  BY <1>1, <1>2 DEF GoalsInv, IdsOnce, GroupTypes
<1>5. ASSUME NEW q \in flight' PROVE GoalRequest(q)'
  BY <1>1 DEF GoalsInv, GoalRequest, HoldsRow
<1>6. SavingsSchemaOK' /\ ContributionsOnce' /\ TotalsKept'
  BY <1>1 DEF GoalsInv, SavingsSchemaOK, MembersOK, MembersOf, ContributionsOnce, TotalsKept, Total, RowsOf
<1>7. QED
  BY <1>3, <1>4, <1>5, <1>6 DEF GoalsInv

LEMMA GoalsStep == GoalsInv /\ [GoalsNext]_goalVars => GoalsInv'
<1> SUFFICES ASSUME GoalsInv, [GoalsNext]_goalVars PROVE GoalsInv'
  OBVIOUS
<1>1. ASSUME NEW r \in Reqs, NEW u \in Users,
             NEW amount \in Amounts, NEW at \in Times, BeginGiveInChat(r, u, amount, at)
      PROVE  GoalsInv'
  <2>1. PICK g \in linked : BeginGive(r, u, g, amount, at)
    BY <1>1 DEF BeginGiveInChat
  <2>2. g \in Groups
    BY DEF GoalsInv, SavingsSchemaOK, GroupTypes
  <2>3. QED
    BY <2>1, <2>2, BeginGiveInv
<1>2. ASSUME NEW r \in Reqs, NEW u \in Users, BeginCreate(r, u)
      PROVE  GoalsInv'
  <2> DEFINE p == [op |-> "create", id |-> r, user |-> u]
  <2>1. GoalRequest(p) /\ ChecksStand(p)
    BY <1>2 DEF BeginCreate, GoalRequest, ChecksStand
  <2>2. QED
    BY <1>2, <2>1, ReceiveGoal DEF BeginCreate
<1>3. ASSUME NEW r \in Reqs, NEW u \in Users, NEW g \in Groups,
             \/ BeginJoin(r, u, g)
             \/ \E v \in Users, role \in Roles : BeginAdd(r, u, v, g, role)
             \/ \E amount \in Amounts, at \in Times : BeginGive(r, u, g, amount, at)
             \/ \E v \in Users : BeginRemove(r, u, v, g)
             \/ BeginDelete(r, u, g)
             \/ BeginLink(r, u, g)
      PROVE  GoalsInv'
  BY <1>3, BeginGoalRequest, BeginGiveInv
<1>4. ASSUME NEW p \in flight,
             \/ \E g \in Groups : CommitCreate(p, g)
             \/ CommitAdd(p) \/ CommitGive(p) \/ CommitRemove(p) \/ CommitDelete(p) \/ CommitLink(p)
      PROVE  GoalsInv'
  BY <1>4, CommitCreateInv, CommitAddInv, CommitGiveInv, CommitRemoveInv, CommitDeleteInv, CommitLinkInv
<1>5. CASE UNCHANGED goalVars \/ \E u \in Users : GoalsLapse(u)
  BY <1>5, GoalsIdleInv
<1>6. QED
  BY <1>1, <1>2, <1>3, <1>4, <1>5 DEF GoalsNext

LEMMA GoalsInvHolds == GoalsSpec => []GoalsInv
BY GoalsInitInv, GoalsStep, PTL DEF GoalsSpec

(* The rows of a goal always fit the schema, and its creator is always one *)
(* of its members and its OWNER.                                           *)
THEOREM GoalSchema == GoalsSpec => []SavingsSchemaOK
<1>1. GoalsInv => SavingsSchemaOK
  BY DEF GoalsInv
<1>2. QED
  BY GoalsInvHolds, <1>1, PTL

(* The column and the rows of a goal tell the same total until a member    *)
(* that gave something is removed, and what a reader is shown is never     *)
(* more than was given.                                                    *)
THEOREM GoalTotals == GoalsSpec => []TotalsAgree
<1>1. ASSUME GoalsInv PROVE TotalsAgree
  <2>1. ASSUME NEW g \in live, NEW total \in Shown(g)
        PROVE  total <= SumOf(RowsOf(g))
    <3>1. PICK T \in Newest(RowsOf(g)) : total = SumOf(T)
      BY <2>1 DEF Shown
    <3>2. T \in SUBSET RowsOf(g)
      BY DEF Newest, kSubset
    <3>3. IsFiniteSet(RowsOf(g)) /\ \A c \in RowsOf(g) : c.amount \in Nat
      BY <1>1, FS_Subset DEF RowsOf, GoalsInv, ContributionsOnce
    <3>4. QED
      BY <3>1, <3>2, <3>3, SumFacts
  <2>2. QED
    BY <1>1, <2>1 DEF TotalsAgree, GoalsInv, TotalsKept, Total
<1>2. QED
  BY GoalsInvHolds, <1>1, PTL

(* A step that adds no member and creates no group keeps the limits.       *)
LEMMA FewerMembers ==
  ASSUME members' \subseteq members, live' \subseteq live
  PROVE  LimitsKeptStep
BY DEF LimitsKeptStep

(* A row more for a group whose creator may have it.                       *)
LEMMA OneMember ==
  ASSUME IsFiniteSet(members), NEW m, m \notin members,
         members' = members \cup {m}, UNCHANGED <<creator, live>>, HasRoom(m.group)
  PROVE  LimitsKeptStep
<1>1. ASSUME NEW g \in live, NEW n \in members' \ members, n.group = g
      PROVE  creator[g] \in premium \/ Cardinality(MembersOf(g)') <= MemberLimit
  <2>1. n = m /\ MembersOf(g)' = MembersOf(g) \cup {m}
    BY <1>1 DEF MembersOf
  <2>2. IsFiniteSet(MembersOf(g)) /\ m \notin MembersOf(g)
    BY FS_Subset DEF MembersOf
  <2>3. /\ Cardinality(MembersOf(g) \cup {m}) = Cardinality(MembersOf(g)) + 1
        /\ Cardinality(MembersOf(g)) \in Nat
    BY <2>2, FS_AddElement, FS_CardinalityType
  <2>4. creator[g] \in premium \/ Cardinality(MembersOf(g)) < MemberLimit
    BY <1>1, <2>1 DEF HasRoom
  <2>5. QED
    BY <2>1, <2>3, <2>4, MembershipAssumption
<1>2. QED
  BY <1>1 DEF LimitsKeptStep

(* A group more for somebody who may create it.                            *)
LEMMA OneGroup ==
  ASSUME GroupTypes, MembersOK, NEW p, NEW g \in Groups, InsertGroup(p, g), MayCreate(p.user),
         p.user \in Users
  PROVE  LimitsKeptStep
<1>1. /\ creator[g] = Nobody /\ creator' = [creator EXCEPT ![g] = p.user]
      /\ live' = live \cup {g} /\ g \notin live
      /\ \A n \in members' \ members : n.group = g
  BY DEF InsertGroup, Member, MembersOK
<1>2. ASSUME NEW h \in live' \ live, NEW u \in Users, creator'[h] = u
      PROVE  u \in premium \/ CountCreated(u)' <= GroupLimit
  <2> DEFINE mine == {k \in live : creator[k] = u}
  <2>1. h = g /\ u = p.user
    BY <1>1, <1>2 DEF GroupTypes
  <2>2. {k \in live' : creator'[k] = u} = mine \cup {g} /\ g \notin mine
    BY <1>1, <2>1 DEF GroupTypes
  <2>3. IsFiniteSet(mine)
    BY FS_Subset DEF GroupTypes
  <2>4. Cardinality(mine \cup {g}) = Cardinality(mine) + 1 /\ Cardinality(mine) \in Nat
    BY <2>2, <2>3, FS_AddElement, FS_CardinalityType
  <2>5. u \in premium \/ Cardinality(mine) < GroupLimit
    <3>1. MayCreate(u)
      BY <2>1
    <3>2. QED
      BY <3>1 DEF MayCreate, CountCreated
  <2>6. CountCreated(u)' = Cardinality(mine) + 1
    BY <2>2, <2>4 DEF CountCreated
  <2>7. QED
    BY <2>4, <2>5, <2>6, MembershipAssumption
<1>3. QED
  BY <1>1, <1>2 DEF LimitsKeptStep

(* The limits of the free plan are only exceeded by requests that overlap. *)
THEOREM GoalLimits == GoalsSpec => SavingsLimitsKept
<1>1. ASSUME GoalsInv, [GoalsNext]_goalVars
      PROVE  [overlapped \/ LimitsKeptStep]_goalVars
  <2> SUFFICES ASSUME GoalsNext, ~overlapped PROVE LimitsKeptStep
    BY <1>1
  <2>1. ASSUME NEW p \in flight, NEW g \in Groups, CommitCreate(p, g)
        PROVE  LimitsKeptStep
    <3>1. p.op = "create" /\ InsertGroup(p, g)
      BY <2>1 DEF CommitCreate
    <3>2. MayCreate(p.user) /\ p.user \in Users
      BY <1>1, <3>1 DEF GoalsInv, OneAtATime, ChecksStand, GoalRequest
    <3>3. QED
      BY <1>1, <3>1, <3>2, OneGroup DEF GoalsInv, SavingsSchemaOK
  <2>2. ASSUME NEW p \in flight, CommitAdd(p)
        PROVE  LimitsKeptStep
    <3> DEFINE m == Member(p.id, p.group, p.user, p.role)
    <3>1. p.op = "add" /\ UNCHANGED <<creator, live>>
      BY <2>2 DEF CommitAdd
    <3>2. CASE members' = members
      BY <3>1, <3>2, FewerMembers
    <3>3. CASE members' = members \cup {m} /\ p.group \in live
      <4>1. m \notin members /\ m.group = p.group
        BY <1>1, <3>1 DEF Member, GoalsInv, IdsOnce
      <4>2. HasRoom(p.group)
        BY <1>1, <3>1, <3>3 DEF GoalsInv, OneAtATime, ChecksStand
      <4>3. QED
        BY <1>1, <3>1, <3>3, <4>1, <4>2, OneMember DEF GoalsInv, GroupTypes
    <3>4. QED
      BY <2>2, <3>2, <3>3 DEF CommitAdd
  <2>3. ASSUME NEW r \in Reqs, NEW u \in Users,
               \/ BeginCreate(r, u)
               \/ \E amount \in Amounts, at \in Times : BeginGiveInChat(r, u, amount, at)
               \/ \E g \in Groups :
                    \/ BeginJoin(r, u, g)
                    \/ \E v \in Users, role \in Roles : BeginAdd(r, u, v, g, role)
                    \/ \E amount \in Amounts, at \in Times : BeginGive(r, u, g, amount, at)
                    \/ \E v \in Users : BeginRemove(r, u, v, g)
                    \/ BeginDelete(r, u, g)
                    \/ BeginLink(r, u, g)
        PROVE  LimitsKeptStep
    <3>1. ASSUME NEW g \in Groups, NEW amount \in Amounts, NEW at \in Times,
                 BeginGive(r, u, g, amount, at)
          PROVE  members' = members /\ live' = live
      BY <1>1, <3>1, BeginGiveInv DEF BeginGive
    <3>2. linked \subseteq Groups
      BY <1>1 DEF GoalsInv, SavingsSchemaOK, GroupTypes
    <3>3. members' = members /\ live' = live
      BY <2>3, <3>1, <3>2 DEF BeginCreate, BeginGiveInChat, BeginJoin, BeginAdd, BeginRemove,
         BeginDelete, BeginLink, groupRows
    <3>4. QED
      BY <3>3, FewerMembers
  <2>4. ASSUME NEW p \in flight,
               CommitGive(p) \/ CommitRemove(p) \/ CommitDelete(p) \/ CommitLink(p)
        PROVE  LimitsKeptStep
    BY <2>4, FewerMembers DEF CommitGive, CommitRemove, CommitDelete, CommitLink, groupRows
  <2>5. ASSUME NEW u \in Users, GoalsLapse(u)
        PROVE  LimitsKeptStep
    BY <2>5, FewerMembers DEF GoalsLapse, ChangePlan
  <2>6. QED
    BY <2>1, <2>2, <2>3, <2>4, <2>5 DEF GoalsNext
<1>2. QED
  BY GoalsInvHolds, <1>1, PTL DEF GoalsSpec, SavingsLimitsKept
-----------------------------------------------------------------------------
(* Group budgets.  A chat message is in flight from when it is heard until *)
(* it is stored or offered; an answer is under way only for what is stored.*)
SpendRequests(op) ==
  [op : {op}, id : Reqs, group : Groups, user : Users, member : Reqs, chat : BOOLEAN]
FromChat(p) == p.op \in {"heard", "answer"} \/ (p.op = "spend" /\ p.chat)

BudgetRequest(p) ==
  /\ p.op \in {"create", "update", "delete", "add", "remove", "link", "heard", "spend", "answer"}
  /\ p.op \notin {"create", "heard"} => p.group \in Groups
  /\ p.op \in {"create", "add", "heard"} => p.user \in Users
  /\ p.op = "add" => p.role \in Roles
  /\ p.op = "spend" => p \in SpendRequests("spend") /\ HoldsRow(p)
  /\ p.op = "remove" => creator[p.group] # Nobody /\ p.user # creator[p.group]

MessageSoFar(p) ==
  /\ ~FromChat(p) => "heard" \notin fate[p.id]
  /\ FromChat(p) => "offered" \notin fate[p.id] /\ ("stored" \in fate[p.id] <=> p.op = "answer")

Fates ==
  /\ fate \in [Reqs -> SUBSET {"heard", "stored", "offered", "failed"}]
  /\ \A r \in fresh : fate[r] = {}
  /\ \A p \in flight : MessageSoFar(p)

SpendingStands ==
  ~overlapped => \A p \in flight : p.op = "spend" => MaySpend(p.user, p.group)

(* updated_at orders the budgets there are.                                *)
RecencyOrder ==
  /\ older \in [Groups -> SUBSET live]
  /\ \A g \in Groups : g \notin older[g]
  /\ \A g \in Groups : \A h \in older[g] : older[h] \subseteq older[g]
  /\ \A g, h \in live : g = h \/ g \in older[h] \/ h \in older[g]

BudgetRows ==
  /\ MembersOK /\ chatBudgets \subseteq live /\ IsFiniteSet(expenses)
  /\ \A e \in expenses : \E m \in members :
       e.member = m.id /\ e.group = m.group /\ e.user = m.user
  /\ \A g \in live : IsMember(creator[g], g)

BudgetsInv ==
  /\ IdsOnce /\ GroupTypes /\ OneAtATime
  /\ \A p \in flight : BudgetRequest(p)
  /\ BudgetRows /\ RecencyOrder /\ Fates /\ SpendingStands /\ ChatExpenseLandsOnce

LEMMA BudgetsInitInv == BudgetsInit => BudgetsInv
<1> SUFFICES ASSUME BudgetsInit PROVE BudgetsInv
  OBVIOUS
<1> USE DEF BudgetsInit, MembershipInit
<1>1. IsFiniteSet({})
  BY FS_EmptySet
<1>2. IdsOnce /\ GroupTypes /\ OneAtATime /\ \A p \in flight : BudgetRequest(p)
  BY <1>1 DEF IdsOnce, GroupTypes, OneAtATime
<1>3. BudgetRows /\ RecencyOrder
  BY <1>1 DEF BudgetRows, MembersOK, RecencyOrder
<1>4. Fates /\ SpendingStands /\ ChatExpenseLandsOnce
  BY DEF Fates, SpendingStands, ChatExpenseLandsOnce
<1>5. QED
  BY <1>2, <1>3, <1>4 DEF BudgetsInv

(* A request that is received leaves the rows alone.                       *)
LEMMA ReceiveBudget ==
  ASSUME BudgetsInv, NEW r \in Reqs, NEW p, Receive(r, p),
         UNCHANGED <<premium, groupRows, older, chatBudgets, expenses>>,
         p.id = r, BudgetRequest(p), p.op \in {"create", "add"} => ChecksStand(p),
         p.op # "answer", p.op = "spend" => ~p.chat /\ MaySpend(p.user, p.group),
         fate' = IF p.op = "heard" THEN [fate EXCEPT ![r] = {"heard"}] ELSE fate
  PROVE  BudgetsInv'
<1> USE DEF groupRows
<1>1. /\ r \in fresh /\ fresh' = fresh \ {r} /\ flight' = flight \cup {p}
      /\ overlapped' = (overlapped \/ flight # {})
  BY DEF Receive
<1>2. IdsOnce'
  BY <1>1 DEF BudgetsInv, IdsOnce
<1>3. GroupTypes'
  BY <1>1 DEF BudgetsInv, GroupTypes
<1>4. OneAtATime'
  BY <1>1 DEF BudgetsInv, OneAtATime, ChecksStand, MayCreate, CountCreated, HasRoom, MembersOf
<1>5. ASSUME NEW q \in flight' PROVE BudgetRequest(q)'
  <2>1. BudgetRequest(q)
    BY <1>1 DEF BudgetsInv
  <2>2. q.op = "spend" => HoldsRow(q)'
    <3>1. SUFFICES ASSUME q.op = "spend" PROVE HoldsRow(q)'
      OBVIOUS
    <3>2. HoldsRow(q)
      BY <2>1, <3>1 DEF BudgetRequest
    <3>3. p.op \in {"create", "add"} => p.id # q.member
      BY <1>1, <3>2 DEF HoldsRow
    <3>4. QED
      BY <1>1, <3>2, <3>3 DEF HoldsRow
  <2>3. QED
    BY <2>1, <2>2 DEF BudgetRequest, SpendRequests
<1>6. BudgetRows' /\ RecencyOrder'
  BY DEF BudgetsInv, BudgetRows, MembersOK, IsMember, MembersOf, RecencyOrder
<1>7. SpendingStands'
  BY <1>1 DEF BudgetsInv, SpendingStands, MaySpend, HasRole, MembersOf
<1>8. fate[r] = {} /\ (FromChat(p) <=> p.op = "heard")
  BY <1>1 DEF BudgetsInv, Fates, FromChat
<1>9. \A q \in flight : q.id # r /\ q.id \in Reqs
  BY <1>1 DEF BudgetsInv, IdsOnce
<1>10. \A x \in Reqs : x # r => fate'[x] = fate[x]
  BY DEF BudgetsInv, Fates
<1>11. Fates'
  <2>1. fate' \in [Reqs -> SUBSET {"heard", "stored", "offered", "failed"}]
    BY DEF BudgetsInv, Fates
  <2>2. \A x \in fresh' : fate'[x] = {}
    BY <1>1, <1>10 DEF BudgetsInv, Fates, IdsOnce
  <2>3. MessageSoFar(p)'
    <3>1. fate'[r] = IF p.op = "heard" THEN {"heard"} ELSE {}
      BY <1>8 DEF BudgetsInv, Fates
    <3>2. QED
      BY <1>8, <3>1 DEF MessageSoFar, FromChat
  <2>4. \A q \in flight : MessageSoFar(q)'
    BY <1>9, <1>10 DEF BudgetsInv, Fates, MessageSoFar, FromChat
  <2>5. QED
    BY <1>1, <2>1, <2>2, <2>3, <2>4 DEF Fates
<1>12. ChatExpenseLandsOnce'
  BY <1>1, <1>10 DEF BudgetsInv, ChatExpenseLandsOnce
<1>13. QED
  BY <1>2, <1>3, <1>4, <1>5, <1>6, <1>7, <1>11, <1>12 DEF BudgetsInv

(* A member's row, as a request that spends holds on to it.                *)
LEMMA RowRead ==
  ASSUME BudgetsInv, NEW u \in Users, NEW g, MaySpend(u, g), NEW r \in Reqs, NEW chat \in BOOLEAN
  PROVE  Spend(r, u, g, chat) \in SpendRequests("spend") /\ HoldsRow(Spend(r, u, g, chat))
<1> DEFINE mine == RowOf(u, g)
<1>1. IsMember(u, g) /\ g \in Groups
  BY DEF MaySpend, HasRole, IsMember, BudgetsInv, GroupTypes
<1>2. mine \in members /\ mine.group = g /\ mine.user = u
  BY <1>1 DEF IsMember, RowOf, MembersOf
<1>3. mine.id \in Reqs \ fresh
  BY <1>2 DEF BudgetsInv, IdsOnce, BudgetRows, MembersOK, MemberRows
<1>4. \A m \in members : m.id = mine.id => m.group = g /\ m.user = u
  BY <1>2 DEF BudgetsInv, BudgetRows, MembersOK
<1>5. \A q \in flight : q.op \in {"create", "add"} => q.id # mine.id
  BY <1>2 DEF BudgetsInv, IdsOnce
<1>6. QED
  BY <1>1, <1>3, <1>4, <1>5 DEF Spend, SpendRequests, HoldsRow

LEMMA BeginBudgetRequest ==
  ASSUME BudgetsInv, NEW r \in Reqs, NEW u \in Users,
         \/ BeginCreateBudget(r, u)
         \/ HearExpense(r, u)
         \/ \E g \in Groups :
              \/ BeginUpdateBudget(r, u, g)
              \/ BeginDeleteBudget(r, u, g)
              \/ BeginJoinBudget(r, u, g)
              \/ \E v \in Users, role \in Roles : BeginAddSpender(r, u, v, g, role)
              \/ \E v \in Users : BeginRemoveSpender(r, u, v, g)
              \/ BeginLinkBudget(r, u, g)
              \/ BeginSpend(r, u, g)
  PROVE  BudgetsInv'
<1> USE DEF budgetOwn
<1>1. CASE BeginCreateBudget(r, u)
  <2> DEFINE p == [op |-> "create", id |-> r, user |-> u]
  <2>1. BudgetRequest(p) /\ ChecksStand(p)
    BY <1>1 DEF BeginCreateBudget, BudgetRequest, ChecksStand
  <2>2. QED
    BY <1>1, <2>1, ReceiveBudget DEF BeginCreateBudget
<1>2. CASE HearExpense(r, u)
  <2> DEFINE p == [op |-> "heard", id |-> r, group |-> ChatBudget, user |-> u]
  <2>1. BudgetRequest(p)
    BY DEF BudgetRequest
  <2>2. QED
    BY <1>2, <2>1, ReceiveBudget DEF HearExpense
<1>3. ASSUME NEW g \in Groups, BeginUpdateBudget(r, u, g) PROVE BudgetsInv'
  <2> DEFINE p == [op |-> "update", id |-> r, group |-> g]
  <2>1. BudgetRequest(p)
    BY DEF BudgetRequest
  <2>2. QED
    BY <1>3, <2>1, ReceiveBudget DEF BeginUpdateBudget
<1>4. ASSUME NEW g \in Groups, BeginDeleteBudget(r, u, g) PROVE BudgetsInv'
  <2> DEFINE p == [op |-> "delete", id |-> r, group |-> g]
  <2>1. BudgetRequest(p)
    BY DEF BudgetRequest
  <2>2. QED
    BY <1>4, <2>1, ReceiveBudget DEF BeginDeleteBudget
<1>5. ASSUME NEW g \in Groups, BeginJoinBudget(r, u, g) PROVE BudgetsInv'
  <2> DEFINE p == [op |-> "add", id |-> r, group |-> g, user |-> u, role |-> "MEMBER"]
  <2>1. BudgetRequest(p) /\ ChecksStand(p)
    BY <1>5 DEF BeginJoinBudget, BudgetRequest, ChecksStand, Roles
  <2>2. QED
    BY <1>5, <2>1, ReceiveBudget DEF BeginJoinBudget
<1>6. ASSUME NEW g \in Groups, NEW v \in Users, NEW role \in Roles, BeginAddSpender(r, u, v, g, role)
      PROVE  BudgetsInv'
  <2> DEFINE p == [op |-> "add", id |-> r, group |-> g, user |-> v, role |-> role]
  <2>1. BudgetRequest(p) /\ ChecksStand(p)
    BY <1>6 DEF BeginAddSpender, BudgetRequest, ChecksStand
  <2>2. QED
    BY <1>6, <2>1, ReceiveBudget DEF BeginAddSpender
<1>7. ASSUME NEW g \in Groups, NEW v \in Users, BeginRemoveSpender(r, u, v, g)
      PROVE  BudgetsInv'
  <2> DEFINE p == [op |-> "remove", id |-> r, group |-> g, user |-> v]
  <2>1. creator[g] # Nobody
    BY <1>7 DEF BeginRemoveSpender, BudgetsInv, BudgetRows, MembersOK
  <2>2. BudgetRequest(p)
    BY <1>7, <2>1 DEF BeginRemoveSpender, BudgetRequest
  <2>3. QED
    BY <1>7, <2>2, ReceiveBudget DEF BeginRemoveSpender
<1>8. ASSUME NEW g \in Groups, BeginLinkBudget(r, u, g) PROVE BudgetsInv'
  <2> DEFINE p == [op |-> "link", id |-> r, group |-> g]
  <2>1. BudgetRequest(p)
    BY DEF BudgetRequest
  <2>2. QED
    BY <1>8, <2>1, ReceiveBudget DEF BeginLinkBudget
<1>9. ASSUME NEW g \in Groups, BeginSpend(r, u, g) PROVE BudgetsInv'
  <2> DEFINE p == Spend(r, u, g, FALSE)
  <2>1. /\ MaySpend(u, g) /\ Receive(r, p)
        /\ UNCHANGED <<premium, groupRows, older, chatBudgets, expenses, fate>>
    BY <1>9 DEF BeginSpend
  <2>2. p \in SpendRequests("spend") /\ HoldsRow(p)
    BY <2>1, RowRead
  <2>3. p.op = "spend" /\ p.id = r /\ p.user = u /\ p.group = g /\ p.chat = FALSE
    BY DEF Spend
  <2>4. BudgetRequest(p)
    BY <2>2, <2>3 DEF BudgetRequest
  <2>5. QED
    BY <2>1, <2>3, <2>4, ReceiveBudget
<1>10. QED
  BY <1>1, <1>2, <1>3, <1>4, <1>5, <1>6, <1>7, <1>8, <1>9

(* A request that has ended: what is said of the others stays.             *)
LEMMA EndedBudgetRequests ==
  ASSUME BudgetsInv, NEW p \in flight, End(p)
  PROVE  /\ flight' = flight \ {p} /\ UNCHANGED <<premium, fresh, overlapped>>
         /\ \A q \in flight' : q \in flight /\ q.id # p.id
         /\ OneAtATime' /\ SpendingStands'
<1>1. flight' = flight \ {p} /\ UNCHANGED <<premium, fresh, overlapped>>
  BY DEF End
<1>2. \A q \in flight' : q \in flight /\ q.id # p.id
  BY <1>1 DEF BudgetsInv, IdsOnce
<1>3. ~overlapped => flight' = {}
  BY <1>1 DEF BudgetsInv, OneAtATime
<1>4. QED
  BY <1>1, <1>2, <1>3 DEF OneAtATime, SpendingStands

(* The message of a chat is stored or has been offered when its request is *)
(* over; other requests have no message.                                   *)
LEMMA EndedMessages ==
  ASSUME BudgetsInv, NEW p \in flight, End(p),
         \/ fate' = fate /\ (~FromChat(p) \/ p.op = "answer")
         \/ FallThrough(p, {}) /\ FromChat(p) /\ p.op # "answer"
         \/ FallThrough(p, {"failed"}) /\ p.op = "answer"
  PROVE  Fates' /\ ChatExpenseLandsOnce'
<1>1. /\ flight' = flight \ {p} /\ UNCHANGED <<premium, fresh, overlapped>>
      /\ \A q \in flight' : q \in flight /\ q.id # p.id
  BY EndedBudgetRequests
<1>2. p.id \in Reqs \ fresh /\ \A q \in flight : q.id \in Reqs /\ (q.id = p.id => q = p)
  BY DEF BudgetsInv, IdsOnce
<1>3. fate \in [Reqs -> SUBSET {"heard", "stored", "offered", "failed"}]
  BY DEF BudgetsInv, Fates
<1>4. /\ fate' \in [Reqs -> SUBSET {"heard", "stored", "offered", "failed"}]
      /\ \A x \in Reqs : x # p.id => fate'[x] = fate[x]
  BY <1>3 DEF FallThrough
<1>5. /\ "stored" \in fate'[p.id] <=> "stored" \in fate[p.id]
      /\ "heard" \in fate'[p.id] <=> "heard" \in fate[p.id]
      /\ \/ fate' = fate
         \/ "offered" \in fate'[p.id] /\ (p.op = "answer" => "failed" \in fate'[p.id])
  BY <1>2, <1>3 DEF FallThrough
<1>6. MessageSoFar(p)
  BY DEF BudgetsInv, Fates
<1>7. "heard" \in fate'[p.id] => \/ ("stored" \in fate'[p.id]) # ("offered" \in fate'[p.id])
                                \/ "failed" \in fate'[p.id]
  <2>1. CASE fate' = fate /\ ~FromChat(p)
    BY <1>6, <2>1 DEF MessageSoFar
  <2>2. CASE fate' = fate /\ p.op = "answer"
    BY <1>6, <2>2 DEF MessageSoFar, FromChat
  <2>3. CASE "offered" \in fate'[p.id] /\ FromChat(p) /\ p.op # "answer"
    BY <1>5, <1>6, <2>3 DEF MessageSoFar
  <2>4. CASE "failed" \in fate'[p.id]
    BY <2>4
  <2>5. QED
    BY <1>2, <1>3, <2>1, <2>2, <2>3, <2>4 DEF FallThrough
<1>8. Fates'
  <2>1. \A x \in fresh' : fate'[x] = {}
    BY <1>1, <1>2, <1>4 DEF BudgetsInv, Fates, IdsOnce
  <2>2. \A q \in flight' : MessageSoFar(q)'
    BY <1>1, <1>2, <1>4 DEF BudgetsInv, Fates, MessageSoFar, FromChat
  <2>3. QED
    BY <1>4, <2>1, <2>2 DEF Fates
<1>9. ChatExpenseLandsOnce'
  <2>1. ASSUME NEW r \in Reqs, r # p.id, "heard" \in fate'[r], \A q \in flight' : q.id # r
        PROVE  \/ ("stored" \in fate'[r]) # ("offered" \in fate'[r])
               \/ "failed" \in fate'[r]
    BY <1>1, <1>4, <2>1 DEF BudgetsInv, ChatExpenseLandsOnce
  <2>2. QED
    BY <1>7, <2>1 DEF ChatExpenseLandsOnce
<1>10. QED
  BY <1>8, <1>9

(* A budget whose updated_at is set to now comes after all others.         *)
LEMMA TouchedOrder ==
  ASSUME RecencyOrder, live \subseteq Groups,
         NEW g \in Groups, older' = Touched(g), live' = live \cup {g}
  PROVE  RecencyOrder'
<1> older \in [Groups -> SUBSET live]
  BY DEF RecencyOrder
<1>1. \A h \in Groups : older'[h] = IF h = g THEN live \ {g} ELSE older[h] \ {g}
  BY DEF Touched
<1>2. older' \in [Groups -> SUBSET live']
  BY DEF Touched, RecencyOrder
<1>3. ASSUME NEW h \in Groups PROVE h \notin older'[h]
  <2>1. h \notin older[h]
    BY DEF RecencyOrder
  <2>2. QED
    BY <1>1, <2>1
<1>4. ASSUME NEW h \in Groups, NEW k \in older'[h] PROVE older'[k] \subseteq older'[h]
  <2>1. k \in live /\ k # g /\ (h # g => k \in older[h])
    BY <1>1, <1>4
  <2>2. older'[k] = older[k] \ {g} /\ older[k] \subseteq live
    BY <1>1, <2>1
  <2>3. CASE h = g
    BY <1>1, <2>2, <2>3
  <2>4. CASE h # g
    <3>1. older[k] \subseteq older[h]
      BY <2>1, <2>4 DEF RecencyOrder
    <3>2. QED
      BY <1>1, <2>2, <2>4, <3>1
  <2>5. QED
    BY <2>3, <2>4
<1>5. ASSUME NEW h \in live', NEW k \in live', h # k
      PROVE  h \in older'[k] \/ k \in older'[h]
  <2>1. CASE h # g /\ k # g
    BY <1>1, <1>5, <2>1, ZenonT(60) DEF RecencyOrder
  <2>2. CASE h = g \/ k = g
    BY <1>1, <1>5, <2>2
  <2>3. QED
    BY <2>1, <2>2
<1>6. QED
  BY <1>2, <1>3, <1>4, <1>5 DEF RecencyOrder

LEMMA CommitCreateBudgetInv ==
  ASSUME BudgetsInv, NEW p \in flight, NEW g \in Groups, CommitCreateBudget(p, g)
  PROVE  BudgetsInv'
<1> DEFINE m0 == Member(p.id, g, p.user, "OWNER")
<1>1. /\ p.op = "create" /\ creator[g] = Nobody /\ creator' = [creator EXCEPT ![g] = p.user]
      /\ live' = live \cup {g} /\ members' = members \cup {m0} /\ End(p)
      /\ older' = Touched(g) /\ UNCHANGED <<chatBudgets, expenses, fate>>
  BY DEF CommitCreateBudget, InsertGroup
<1>2. /\ flight' = flight \ {p} /\ UNCHANGED <<premium, fresh, overlapped>>
      /\ \A q \in flight' : q \in flight /\ q.id # p.id
      /\ OneAtATime' /\ SpendingStands'
  BY <1>1, EndedBudgetRequests
<1>3. /\ m0.id = p.id /\ m0.group = g /\ m0.user = p.user
      /\ p.id \in Reqs \ fresh /\ p.user \in Users /\ m0 \in MemberRows
  BY <1>1 DEF Member, MemberRows, Roles, BudgetsInv, IdsOnce, BudgetRequest
<1>4. g \notin live /\ \A m \in members : m.group # g /\ m.id # p.id
  BY <1>1 DEF BudgetsInv, BudgetRows, MembersOK, MemberRows, IdsOnce
<1>5. IdsOnce'
  BY <1>1, <1>2, <1>3, <1>4 DEF BudgetsInv, IdsOnce
<1>6. GroupTypes'
  BY <1>1, <1>2, <1>3, FS_AddElement DEF BudgetsInv, GroupTypes
<1>7. ASSUME NEW q \in flight' PROVE BudgetRequest(q)'
  <2>1. BudgetRequest(q) /\ q.id # p.id /\ q \in flight
    BY <1>2 DEF BudgetsInv
  <2>2. q.op = "spend" => HoldsRow(q)'
    BY <1>1, <1>2, <1>3, <2>1 DEF BudgetRequest, HoldsRow
  <2>3. q.op = "remove" => q.group # g
    BY <1>1, <2>1 DEF BudgetRequest
  <2>4. QED
    BY <1>1, <2>1, <2>2, <2>3 DEF BudgetRequest, SpendRequests, BudgetsInv, GroupTypes
<1>8. BudgetRows'
  <2>1. MembersOK'
    BY <1>1, <1>3, <1>4, MembershipAssumption DEF BudgetsInv, BudgetRows, MembersOK, GroupTypes
  <2>2. \A h \in live' : IsMember(creator[h], h)'
    BY <1>1, <1>3, <1>4 DEF BudgetsInv, BudgetRows, IsMember, MembersOf, GroupTypes
  <2>3. QED
    BY <1>1, <2>1, <2>2 DEF BudgetsInv, BudgetRows
<1>9. RecencyOrder'
  BY <1>1, TouchedOrder DEF BudgetsInv, GroupTypes
<1>10. Fates' /\ ChatExpenseLandsOnce'
  BY <1>1, EndedMessages DEF FromChat
<1>11. QED
  BY <1>2, <1>5, <1>6, <1>7, <1>8, <1>9, <1>10 DEF BudgetsInv

LEMMA CommitUpdateOrLinkInv ==
  ASSUME BudgetsInv, NEW p \in flight, CommitUpdateBudget(p) \/ CommitLinkBudget(p)
  PROVE  BudgetsInv'
<1>1. /\ p.op \in {"update", "link"} /\ End(p) /\ UNCHANGED <<groupRows, expenses, fate>>
      /\ \/ UNCHANGED <<chatBudgets, older>>
         \/ /\ p.group \in live /\ older' = Touched(p.group)
            /\ chatBudgets' \subseteq chatBudgets \cup {p.group}
  BY DEF CommitUpdateBudget, CommitLinkBudget
<1>2. /\ flight' = flight \ {p} /\ UNCHANGED <<premium, fresh, overlapped>>
      /\ \A q \in flight' : q \in flight /\ q.id # p.id
      /\ OneAtATime' /\ SpendingStands'
  BY <1>1, EndedBudgetRequests
<1> USE DEF groupRows
<1>3. IdsOnce' /\ GroupTypes'
  BY <1>1, <1>2 DEF BudgetsInv, IdsOnce, GroupTypes
<1>4. ASSUME NEW q \in flight' PROVE BudgetRequest(q)'
  BY <1>1, <1>2 DEF BudgetsInv, BudgetRequest, SpendRequests, HoldsRow
<1>5. BudgetRows'
  <2>1. chatBudgets' \subseteq live'
    BY <1>1 DEF BudgetsInv, BudgetRows
  <2>2. QED
    BY <1>1, <2>1 DEF BudgetsInv, BudgetRows, MembersOK, IsMember, MembersOf
<1>6. RecencyOrder'
  <2>1. CASE UNCHANGED older
    BY <1>1, <2>1 DEF BudgetsInv, RecencyOrder
  <2>2. CASE p.group \in live /\ older' = Touched(p.group)
    <3>1. p.group \in Groups /\ live' = live \cup {p.group}
      BY <1>1, <2>2 DEF BudgetsInv, GroupTypes
    <3>2. QED
      BY <2>2, <3>1, TouchedOrder DEF BudgetsInv, GroupTypes
  <2>3. QED
    BY <1>1, <2>1, <2>2
<1>7. Fates' /\ ChatExpenseLandsOnce'
  BY <1>1, EndedMessages DEF FromChat
<1>8. QED
  BY <1>2, <1>3, <1>4, <1>5, <1>6, <1>7 DEF BudgetsInv

LEMMA CommitDeleteBudgetInv ==
  ASSUME BudgetsInv, NEW p \in flight, CommitDeleteBudget(p)
  PROVE  BudgetsInv'
<1>1. /\ p.op = "delete" /\ End(p) /\ UNCHANGED <<creator, fate>>
      /\ live' = live \ {p.group} /\ members' = members \ MembersOf(p.group)
      /\ older' = [g \in Groups |-> IF g = p.group THEN {} ELSE older[g] \ {p.group}]
      /\ expenses' = {e \in expenses : e.group # p.group}
      /\ chatBudgets' = chatBudgets \ {p.group}
  BY DEF CommitDeleteBudget
<1>2. /\ flight' = flight \ {p} /\ UNCHANGED <<premium, fresh, overlapped>>
      /\ \A q \in flight' : q \in flight /\ q.id # p.id
      /\ OneAtATime' /\ SpendingStands'
  BY <1>1, EndedBudgetRequests
<1>3. IdsOnce'
  BY <1>1, <1>2 DEF BudgetsInv, IdsOnce
<1>4. GroupTypes'
  BY <1>1, <1>2, FS_Subset DEF BudgetsInv, GroupTypes
<1>5. ASSUME NEW q \in flight' PROVE BudgetRequest(q)'
  BY <1>1, <1>2 DEF BudgetsInv, BudgetRequest, SpendRequests, HoldsRow
<1>6. BudgetRows'
  <2>1. MembersOK'
    BY <1>1 DEF BudgetsInv, BudgetRows, MembersOK, MembersOf
  <2>2. \A e \in expenses' : \E m \in members' :
          e.member = m.id /\ e.group = m.group /\ e.user = m.user
    BY <1>1 DEF BudgetsInv, BudgetRows, MembersOf
  <2>3. \A h \in live' : IsMember(creator[h], h)'
    BY <1>1 DEF BudgetsInv, BudgetRows, IsMember, MembersOf
  <2>4. IsFiniteSet(expenses')
    BY <1>1, FS_Subset DEF BudgetsInv, BudgetRows
  <2>5. chatBudgets' \subseteq live'
    BY <1>1 DEF BudgetsInv, BudgetRows
  <2>6. QED
    BY <2>1, <2>2, <2>3, <2>4, <2>5 DEF BudgetRows
<1>7. RecencyOrder'
  <2> older \in [Groups -> SUBSET live] /\ live \subseteq Groups
    BY DEF BudgetsInv, RecencyOrder, GroupTypes
  <2>1. older' \in [Groups -> SUBSET live'] /\ \A g \in Groups : g \notin older'[g]
    BY <1>1 DEF BudgetsInv, RecencyOrder
  <2>2. ASSUME NEW g \in Groups, NEW h \in older'[g] PROVE older'[h] \subseteq older'[g]
    <3>1. g # p.group /\ h \in older[g] /\ h # p.group /\ h \in Groups
      BY <1>1
    <3>2. older[h] \subseteq older[g]
      BY <3>1 DEF BudgetsInv, RecencyOrder
    <3>3. QED
      BY <1>1, <3>1, <3>2
  <2>3. \A g, h \in live' : g = h \/ g \in older'[h] \/ h \in older'[g]
    BY <1>1 DEF BudgetsInv, RecencyOrder, GroupTypes
  <2>4. QED
    BY <2>1, <2>2, <2>3 DEF RecencyOrder
<1>8. Fates' /\ ChatExpenseLandsOnce'
  BY <1>1, EndedMessages DEF FromChat
<1>9. QED
  BY <1>2, <1>3, <1>4, <1>5, <1>6, <1>7, <1>8 DEF BudgetsInv

(* The upsert adds a row or changes a role: every row keeps its id, group  *)
(* and user.                                                               *)
LEMMA CommitAddSpenderInv ==
  ASSUME BudgetsInv, NEW p \in flight, CommitAddSpender(p)
  PROVE  BudgetsInv'
<1> DEFINE there == {m \in MembersOf(p.group) : m.user = p.user}
           id == IF there = {} THEN p.id ELSE RowOf(p.user, p.group).id
           m0 == Member(id, p.group, p.user, p.role)
<1>1. /\ p.op = "add" /\ End(p)
      /\ UNCHANGED <<creator, live, older, chatBudgets, expenses, fate>>
      /\ \/ p.group \in live /\ members' = (members \ there) \cup {m0}
         \/ members' = members
  BY DEF CommitAddSpender, budgetOwn
<1>2. /\ flight' = flight \ {p} /\ UNCHANGED <<premium, fresh, overlapped>>
      /\ \A q \in flight' : q \in flight /\ q.id # p.id
      /\ OneAtATime' /\ SpendingStands'
  BY <1>1, EndedBudgetRequests
<1>3. /\ p.id \in Reqs \ fresh /\ p.user \in Users /\ p.group \in Groups /\ p.role \in Roles
      /\ \A m \in members : m.id # p.id
  BY <1>1 DEF BudgetsInv, IdsOnce, BudgetRequest
<1>4. /\ members \subseteq MemberRows
      /\ \A m, n \in members : m.id = n.id \/ (m.group = n.group /\ m.user = n.user) => m = n
  BY DEF BudgetsInv, BudgetRows, MembersOK
<1>5. /\ m0.id = id /\ m0.group = p.group /\ m0.user = p.user /\ m0.role = p.role
      /\ \/ there = {} /\ id = p.id
         \/ \E m1 \in members : there = {m1} /\ id = m1.id /\ m1.group = p.group /\ m1.user = p.user
  <2>1. m0.id = id /\ m0.group = p.group /\ m0.user = p.user /\ m0.role = p.role
    BY DEF Member
  <2>2. CASE there # {}
    <3>1. RowOf(p.user, p.group) \in there
      BY <2>2 DEF RowOf
    <3>2. there = {RowOf(p.user, p.group)}
      BY <1>4, <3>1 DEF MembersOf
    <3>3. QED
      BY <2>1, <2>2, <3>1, <3>2 DEF MembersOf
  <2>3. QED
    BY <2>1, <2>2
<1> HIDE DEF m0, id
<1>6. id \in Reqs \ fresh /\ m0 \in MemberRows
  <2>1. id \in Reqs \ fresh
    BY <1>3, <1>4, <1>5 DEF BudgetsInv, IdsOnce, MemberRows
  <2>2. QED
    BY <1>3, <2>1 DEF m0, Member, MemberRows
<1>7. /\ \A n \in members' : n \in members \/ (n = m0 /\ members' = (members \ there) \cup {m0})
      /\ \A m \in members : \E n \in members' : n.id = m.id /\ n.group = m.group /\ n.user = m.user
  BY <1>1, <1>5
<1>8. \A q \in flight' : q.op \in {"create", "add"} => q.id # id
  BY <1>2, <1>5 DEF BudgetsInv, IdsOnce
<1>9. IdsOnce'
  <2>1. \A n \in members' : n.id \notin fresh'
    BY <1>2, <1>5, <1>6, <1>7 DEF BudgetsInv, IdsOnce
  <2>2. \A q \in flight', n \in members' : q.op \in {"create", "add"} => n.id # q.id
    BY <1>2, <1>5, <1>7, <1>8 DEF BudgetsInv, IdsOnce
  <2>3. QED
    BY <1>2, <2>1, <2>2 DEF BudgetsInv, IdsOnce
<1>10. GroupTypes'
  <2>1. IsFiniteSet(members \ there) /\ IsFiniteSet(members)
    BY FS_Subset DEF BudgetsInv, GroupTypes
  <2>2. IsFiniteSet(members')
    BY <1>1, <2>1, FS_AddElement, SMTT(20)
  <2>3. QED
    BY <1>1, <1>2, <2>2 DEF BudgetsInv, GroupTypes
<1>11. ASSUME NEW q \in flight' PROVE BudgetRequest(q)'
  <2>1. BudgetRequest(q) /\ q.id # p.id /\ q \in flight
    BY <1>2 DEF BudgetsInv
  <2>2. ASSUME q.op = "spend" PROVE HoldsRow(q)'
    <3>1. HoldsRow(q)
      BY <2>1, <2>2 DEF BudgetRequest
    <3>2. p.id # q.member
      BY <1>1, <3>1 DEF HoldsRow
    <3>3. m0.id = q.member => m0.group = q.group /\ m0.user = q.user
      BY <1>5, <3>1, <3>2 DEF HoldsRow
    <3>4. \A n \in members' : n.id = q.member => n.group = q.group /\ n.user = q.user
      BY <1>7, <3>1, <3>3 DEF HoldsRow
    <3>5. QED
      BY <1>2, <3>1, <3>4 DEF HoldsRow
  <2>3. QED
    BY <1>1, <2>1, <2>2 DEF BudgetRequest, SpendRequests
<1>12. BudgetRows'
  <2>1. MembersOK'
    <3>1. members' \subseteq MemberRows
      BY <1>4, <1>6, <1>7
    <3>2. \A n \in members' : n.group \in live'
      BY <1>1, <1>5, <1>7 DEF BudgetsInv, BudgetRows, MembersOK
    <3>3. \A m, n \in members' : m.id = n.id \/ (m.group = n.group /\ m.user = n.user) => m = n
      <4>1. CASE members' = members
        BY <1>4, <4>1
      <4>2. CASE members' = (members \ there) \cup {m0}
        <5>1. ASSUME NEW n \in members \ there
              PROVE  n.id # m0.id /\ ~(n.group = m0.group /\ n.user = m0.user)
          BY <1>3, <1>4, <1>5, <5>1 DEF MembersOf
        <5>2. QED
          BY <1>4, <4>2, <5>1
      <4>3. QED
        BY <1>1, <4>1, <4>2
    <3>4. QED
      BY <1>1, <3>1, <3>2, <3>3 DEF BudgetsInv, BudgetRows, MembersOK
  <2>2. ASSUME NEW e \in expenses'
        PROVE  \E n \in members' : e.member = n.id /\ e.group = n.group /\ e.user = n.user
    <3>1. PICK m \in members : e.member = m.id /\ e.group = m.group /\ e.user = m.user
      BY <1>1 DEF BudgetsInv, BudgetRows
    <3>2. QED
      BY <1>7, <3>1
  <2>3. ASSUME NEW h \in live' PROVE IsMember(creator[h], h)'
    <3>1. PICK m \in members : m.group = h /\ m.user = creator[h]
      BY <1>1 DEF BudgetsInv, BudgetRows, IsMember, MembersOf
    <3>2. PICK n \in members' : n.group = h /\ n.user = creator[h]
      BY <1>7, <3>1
    <3>3. QED
      BY <1>1, <3>2 DEF IsMember, MembersOf
  <2>4. QED
    BY <1>1, <2>1, <2>2, <2>3 DEF BudgetsInv, BudgetRows
<1>13. RecencyOrder'
  BY <1>1 DEF BudgetsInv, RecencyOrder
<1>14. Fates' /\ ChatExpenseLandsOnce'
  BY <1>1, EndedMessages DEF FromChat
<1>15. QED
  BY <1>2, <1>9, <1>10, <1>11, <1>12, <1>13, <1>14 DEF BudgetsInv

LEMMA CommitRemoveSpenderInv ==
  ASSUME BudgetsInv, NEW p \in flight, CommitRemoveSpender(p)
  PROVE  BudgetsInv'
<1> DEFINE gone == {m \in MembersOf(p.group) : m.user = p.user}
<1>1. /\ p.op = "remove" /\ End(p) /\ UNCHANGED <<creator, live, older, chatBudgets, fate>>
      /\ members' = members \ gone
      /\ expenses' = {e \in expenses : \A m \in gone : e.member # m.id}
  BY DEF CommitRemoveSpender
<1>2. /\ flight' = flight \ {p} /\ UNCHANGED <<premium, fresh, overlapped>>
      /\ \A q \in flight' : q \in flight /\ q.id # p.id
      /\ OneAtATime' /\ SpendingStands'
  BY <1>1, EndedBudgetRequests
<1>3. p.user # creator[p.group]
  BY <1>1 DEF BudgetsInv, BudgetRequest
<1>4. IdsOnce'
  BY <1>1, <1>2 DEF BudgetsInv, IdsOnce
<1>5. GroupTypes'
  BY <1>1, <1>2, FS_Subset DEF BudgetsInv, GroupTypes
<1>6. ASSUME NEW q \in flight' PROVE BudgetRequest(q)'
  BY <1>1, <1>2 DEF BudgetsInv, BudgetRequest, SpendRequests, HoldsRow
<1>7. BudgetRows'
  <2>1. MembersOK'
    BY <1>1 DEF BudgetsInv, BudgetRows, MembersOK
  <2>2. \A e \in expenses' : \E m \in members' :
          e.member = m.id /\ e.group = m.group /\ e.user = m.user
    BY <1>1 DEF BudgetsInv, BudgetRows
  <2>3. \A h \in live' : IsMember(creator[h], h)'
    BY <1>1, <1>3 DEF BudgetsInv, BudgetRows, IsMember, MembersOf
  <2>4. IsFiniteSet(expenses')
    BY <1>1, FS_Subset DEF BudgetsInv, BudgetRows
  <2>5. QED
    BY <1>1, <2>1, <2>2, <2>3, <2>4 DEF BudgetsInv, BudgetRows
<1>8. RecencyOrder'
  BY <1>1 DEF BudgetsInv, RecencyOrder
<1>9. Fates' /\ ChatExpenseLandsOnce'
  BY <1>1, EndedMessages DEF FromChat
<1>10. QED
  BY <1>2, <1>4, <1>5, <1>6, <1>7, <1>8, <1>9 DEF BudgetsInv

(* A message that is over without a further row.                           *)
LEMMA MessageOver ==
  ASSUME BudgetsInv, NEW p \in flight, End(p),
         UNCHANGED <<groupRows, older, chatBudgets, expenses>>,
         \/ fate' = fate /\ (~FromChat(p) \/ p.op = "answer")
         \/ FallThrough(p, {}) /\ FromChat(p) /\ p.op # "answer"
         \/ FallThrough(p, {"failed"}) /\ p.op = "answer"
  PROVE  BudgetsInv'
<1> USE DEF groupRows
<1>1. /\ flight' = flight \ {p} /\ UNCHANGED <<premium, fresh, overlapped>>
      /\ \A q \in flight' : q \in flight /\ q.id # p.id
      /\ OneAtATime' /\ SpendingStands'
  BY EndedBudgetRequests
<1>2. IdsOnce' /\ GroupTypes'
  BY <1>1 DEF BudgetsInv, IdsOnce, GroupTypes
<1>3. ASSUME NEW q \in flight' PROVE BudgetRequest(q)'
  BY <1>1 DEF BudgetsInv, BudgetRequest, SpendRequests, HoldsRow
<1>4. BudgetRows' /\ RecencyOrder'
  BY DEF BudgetsInv, BudgetRows, MembersOK, IsMember, MembersOf, RecencyOrder
<1>5. Fates' /\ ChatExpenseLandsOnce'
  BY EndedMessages
<1>6. QED
  BY <1>1, <1>2, <1>3, <1>4, <1>5 DEF BudgetsInv

(* A request that goes on under the same id, as s.                         *)
LEMMA MessageGoesOn ==
  ASSUME BudgetsInv, NEW p \in flight, NEW s, s.id = p.id, flight' = (flight \ {p}) \cup {s},
         UNCHANGED <<premium, fresh, overlapped, groupRows, older, chatBudgets>>,
         s.op \in {"spend", "answer"}, s \in SpendRequests(s.op), s.chat, FromChat(p),
         p.op # "answer",
         s.op = "spend" => HoldsRow(s) /\ MaySpend(s.user, s.group) /\ fate' = fate,
         s.op = "answer" => fate' = [fate EXCEPT ![p.id] = @ \cup {"stored"}],
         BudgetRows'
  PROVE  BudgetsInv'
<1> USE DEF groupRows
<1>1. /\ p.id \in Reqs \ fresh
      /\ \A q \in flight' : q = s \/ (q \in flight /\ q.id # p.id)
      /\ \A q \in flight : q.id \in Reqs
  BY DEF BudgetsInv, IdsOnce
<1>2. IdsOnce' /\ GroupTypes'
  BY <1>1 DEF BudgetsInv, IdsOnce, GroupTypes
<1>3. OneAtATime' /\ SpendingStands'
  <2>1. ~overlapped => flight' = {s}
    BY DEF BudgetsInv, OneAtATime
  <2>2. ChecksStand(s)'
    BY DEF ChecksStand
  <2>3. s.op = "spend" => MaySpend(s.user, s.group)'
    BY DEF MaySpend, HasRole, MembersOf
  <2>4. QED
    BY <2>1, <2>2, <2>3 DEF OneAtATime, SpendingStands
<1>4. ASSUME NEW q \in flight' PROVE BudgetRequest(q)'
  <2>1. ASSUME q.op = "spend" PROVE HoldsRow(q)'
    <3>1. HoldsRow(q)
      BY <1>1, <2>1 DEF BudgetsInv, BudgetRequest
    <3>2. QED
      BY <3>1 DEF HoldsRow
  <2>2. CASE q = s
    BY <2>1, <2>2 DEF BudgetRequest, SpendRequests
  <2>3. CASE q \in flight
    BY <2>1, <2>3 DEF BudgetsInv, BudgetRequest, SpendRequests
  <2>4. QED
    BY <1>1, <2>2, <2>3
<1>5. RecencyOrder'
  BY DEF BudgetsInv, RecencyOrder
<1>6. fate \in [Reqs -> SUBSET {"heard", "stored", "offered", "failed"}]
  BY DEF BudgetsInv, Fates
<1>7. /\ fate' \in [Reqs -> SUBSET {"heard", "stored", "offered", "failed"}]
      /\ \A x \in Reqs : x # p.id => fate'[x] = fate[x]
      /\ \A how \in {"heard", "offered"} : how \in fate'[p.id] <=> how \in fate[p.id]
      /\ "stored" \in fate'[p.id] <=> s.op = "answer"
  <2>1. "stored" \notin fate[p.id]
    BY DEF BudgetsInv, Fates, MessageSoFar
  <2>2. QED
    BY <1>1, <1>6, <2>1
<1>8. Fates'
  <2>1. MessageSoFar(s)'
    BY <1>7 DEF BudgetsInv, Fates, MessageSoFar, FromChat
  <2>2. \A q \in flight' : q # s => MessageSoFar(q)'
    BY <1>1, <1>7 DEF BudgetsInv, Fates, MessageSoFar, FromChat
  <2>3. \A x \in fresh' : fate'[x] = {}
    BY <1>1, <1>7 DEF BudgetsInv, Fates, IdsOnce
  <2>4. QED
    BY <1>7, <2>1, <2>2, <2>3 DEF Fates
<1>9. ChatExpenseLandsOnce'
  <2>1. ASSUME NEW r \in Reqs, "heard" \in fate'[r], \A q \in flight' : q.id # r
        PROVE  r # p.id /\ fate'[r] = fate[r] /\ \A q \in flight : q.id # r
    BY <1>1, <1>7, <2>1
  <2>2. QED
    BY <2>1 DEF BudgetsInv, ChatExpenseLandsOnce
<1>10. QED
  BY <1>2, <1>3, <1>4, <1>5, <1>8, <1>9 DEF BudgetsInv

LEMMA SpendingInv ==
  ASSUME BudgetsInv, NEW p \in flight,
         StartChatSpend(p) \/ RefuseChatSpend(p) \/ AnswerSpend(p) \/ FailAnswer(p)
  PROVE  BudgetsInv'
<1>1. CASE StartChatSpend(p)
  <2> DEFINE s == Spend(p.id, p.user, p.group, TRUE)
  <2>1. /\ p.op = "heard" /\ p.user \in Users /\ p.id \in Reqs /\ MaySpend(p.user, p.group)
        /\ flight' = (flight \ {p}) \cup {s}
        /\ UNCHANGED <<premium, fresh, overlapped, groupRows, older, chatBudgets, expenses, fate>>
    BY <1>1 DEF StartChatSpend, BudgetsInv, IdsOnce, BudgetRequest, budgetOwn
  <2>2. s \in SpendRequests("spend") /\ HoldsRow(s)
    BY <2>1, RowRead
  <2>3. s.op = "spend" /\ s.id = p.id /\ s.user = p.user /\ s.group = p.group /\ s.chat
    BY DEF Spend
  <2>4. BudgetRows'
    BY <2>1 DEF BudgetsInv, BudgetRows, MembersOK, IsMember, MembersOf, groupRows
  <2>5. QED
    BY <2>1, <2>2, <2>3, <2>4, MessageGoesOn DEF FromChat
<1>2. CASE RefuseChatSpend(p)
  BY <1>2, MessageOver DEF RefuseChatSpend, FallThrough, FromChat
<1>3. CASE AnswerSpend(p)
  BY <1>3, MessageOver DEF AnswerSpend, budgetOwn
<1>4. CASE FailAnswer(p)
  BY <1>4, MessageOver DEF FailAnswer, FallThrough
<1>5. QED
  BY <1>1, <1>2, <1>3, <1>4

LEMMA CommitSpendInv ==
  ASSUME BudgetsInv, NEW p \in flight, CommitSpend(p)
  PROVE  BudgetsInv'
<1> DEFINE e0 == ExpenseRow(p)
<1>1. /\ p.op = "spend" /\ UNCHANGED <<groupRows, older, chatBudgets>>
      /\ p \in SpendRequests("spend") /\ HoldsRow(p)
  BY DEF CommitSpend, BudgetsInv, BudgetRequest
<1>2. e0.group = p.group /\ e0.user = p.user /\ e0.member = p.member
  BY DEF ExpenseRow
<1>3. CASE ~\E m \in members : m.id = p.member
  BY <1>1, <1>3, MessageOver DEF CommitSpend, FromChat, FallThrough
<1>4. CASE \E m \in members : m.id = p.member
  <2>1. /\ expenses' = expenses \cup {e0} /\ UNCHANGED <<premium, fresh, overlapped>>
        /\ fate' = IF p.chat THEN [fate EXCEPT ![p.id] = @ \cup {"stored"}] ELSE fate
        /\ flight' = (flight \ {p}) \cup IF p.chat THEN {[p EXCEPT !.op = "answer"]} ELSE {}
    BY <1>4 DEF CommitSpend
  <2>2. BudgetRows'
    <3>1. \E m \in members : e0.member = m.id /\ e0.group = m.group /\ e0.user = m.user
      BY <1>1, <1>2, <1>4 DEF HoldsRow
    <3>2. IsFiniteSet(expenses')
      BY <2>1, FS_AddElement DEF BudgetsInv, BudgetRows
    <3>3. QED
      BY <1>1, <2>1, <3>1, <3>2
      DEF BudgetsInv, BudgetRows, MembersOK, IsMember, MembersOf, groupRows
  <2>3. CASE p.chat
    <3> DEFINE s == [p EXCEPT !.op = "answer"]
    <3>1. s \in SpendRequests("answer") /\ s.op = "answer" /\ s.id = p.id /\ s.chat
      BY <1>1, <2>3 DEF SpendRequests
    <3>2. QED
      BY <1>1, <2>1, <2>2, <2>3, <3>1, MessageGoesOn DEF FromChat
  <2>4. CASE ~p.chat
    <3> USE DEF groupRows
    <3>1. /\ flight' = flight \ {p} /\ fate' = fate /\ End(p) /\ ~FromChat(p)
      BY <1>1, <2>1, <2>4 DEF End, FromChat
    <3>2. /\ \A q \in flight' : q \in flight /\ q.id # p.id
          /\ OneAtATime' /\ SpendingStands'
      BY <3>1, EndedBudgetRequests
    <3>3. IdsOnce' /\ GroupTypes'
      BY <1>1, <2>1, <3>1, <3>2 DEF BudgetsInv, IdsOnce, GroupTypes
    <3>4. ASSUME NEW q \in flight' PROVE BudgetRequest(q)'
      BY <1>1, <2>1, <3>1, <3>2 DEF BudgetsInv, BudgetRequest, SpendRequests, HoldsRow
    <3>5. RecencyOrder'
      BY <1>1 DEF BudgetsInv, RecencyOrder
    <3>6. Fates' /\ ChatExpenseLandsOnce'
      BY <3>1, EndedMessages
    <3>7. QED
      BY <2>2, <3>2, <3>3, <3>4, <3>5, <3>6 DEF BudgetsInv
  <2>5. QED
    BY <2>3, <2>4
<1>5. QED
  BY <1>3, <1>4

(* A plan that changes while a request is under way overlaps with it.      *)
LEMMA BudgetsIdleInv ==
  ASSUME BudgetsInv, UNCHANGED budgetVars \/ \E u \in Users : BudgetsLapse(u)
  PROVE  BudgetsInv'
<1>1. UNCHANGED <<groupRows, fresh, flight, budgetOwn>>
  BY DEF budgetVars, shared, groupRows, budgetOwn, BudgetsLapse, ChangePlan
<1>2. \/ UNCHANGED <<premium, overlapped>>
      \/ overlapped' = (overlapped \/ flight # {})
  BY DEF budgetVars, shared, BudgetsLapse, ChangePlan
<1> USE DEF groupRows, budgetOwn
<1>3. OneAtATime' /\ SpendingStands'
  BY <1>1, <1>2 DEF BudgetsInv, OneAtATime, ChecksStand, MayCreate, CountCreated, HasRoom,
     MembersOf, SpendingStands, MaySpend, HasRole
<1>4. IdsOnce' /\ GroupTypes'
  BY <1>1, <1>2 DEF BudgetsInv, IdsOnce, GroupTypes
<1>5. ASSUME NEW q \in flight' PROVE BudgetRequest(q)'
  BY <1>1 DEF BudgetsInv, BudgetRequest, SpendRequests, HoldsRow
<1>6. BudgetRows' /\ RecencyOrder'
  BY <1>1 DEF BudgetsInv, BudgetRows, MembersOK, IsMember, MembersOf, RecencyOrder
<1>7. Fates' /\ ChatExpenseLandsOnce'
  BY <1>1 DEF BudgetsInv, Fates, MessageSoFar, FromChat, ChatExpenseLandsOnce
<1>8. QED
  BY <1>3, <1>4, <1>5, <1>6, <1>7 DEF BudgetsInv

LEMMA BudgetsStep == BudgetsInv /\ [BudgetsNext]_budgetVars => BudgetsInv'
<1> SUFFICES ASSUME BudgetsInv, [BudgetsNext]_budgetVars PROVE BudgetsInv'
  OBVIOUS
<1>1. ASSUME NEW r \in Reqs, NEW u \in Users,
             \/ BeginCreateBudget(r, u)
             \/ HearExpense(r, u)
             \/ \E g \in Groups :
                  \/ BeginUpdateBudget(r, u, g)
                  \/ BeginDeleteBudget(r, u, g)
                  \/ BeginJoinBudget(r, u, g)
                  \/ \E v \in Users, role \in Roles : BeginAddSpender(r, u, v, g, role)
                  \/ \E v \in Users : BeginRemoveSpender(r, u, v, g)
                  \/ BeginLinkBudget(r, u, g)
                  \/ BeginSpend(r, u, g)
      PROVE  BudgetsInv'
  BY <1>1, BeginBudgetRequest
<1>2. ASSUME NEW p \in flight,
             \/ \E g \in Groups : CommitCreateBudget(p, g)
             \/ CommitUpdateBudget(p) \/ CommitDeleteBudget(p) \/ CommitAddSpender(p)
             \/ CommitRemoveSpender(p) \/ CommitLinkBudget(p)
      PROVE  BudgetsInv'
  BY <1>2, CommitCreateBudgetInv, CommitUpdateOrLinkInv, CommitDeleteBudgetInv,
     CommitAddSpenderInv, CommitRemoveSpenderInv
<1>3. ASSUME NEW p \in flight,
             \/ StartChatSpend(p) \/ RefuseChatSpend(p) \/ CommitSpend(p)
             \/ AnswerSpend(p) \/ FailAnswer(p)
      PROVE  BudgetsInv'
  BY <1>3, SpendingInv, CommitSpendInv
<1>4. CASE UNCHANGED budgetVars \/ \E u \in Users : BudgetsLapse(u)
  BY <1>4, BudgetsIdleInv
<1>5. QED
  BY <1>1, <1>2, <1>3, <1>4 DEF BudgetsNext

LEMMA BudgetsInvHolds == BudgetsSpec => []BudgetsInv
BY BudgetsInitInv, BudgetsStep, PTL DEF BudgetsSpec
-----------------------------------------------------------------------------
(* Among budgets that exist one was updated last: the one that has the     *)
(* most others before it.                                                  *)
LEMMA OneUpdatedLast ==
  ASSUME RecencyOrder, GroupTypes, NEW S \in SUBSET live, S # {}
  PROVE  \E g \in S : S \ {g} \subseteq older[g]
<1> DEFINE Later == {live \ older[g] : g \in S}
<1>1. IsWellFoundedOn(StrictSubsetOrdering(live), SUBSET live)
  BY FS_StrictSubsetOrderingWellFounded, FS_FiniteSubsetsOfFinite DEF GroupTypes
<1>2. Later # {} /\ Later \subseteq SUBSET live
  OBVIOUS
<1>3. PICK s \in Later : \A t \in Later : <<t, s>> \notin StrictSubsetOrdering(live)
  BY <1>1, <1>2, WFMin
<1>4. PICK g \in S : s = live \ older[g]
  BY <1>3
<1>5. ASSUME NEW h \in S, h # g PROVE h \in older[g]
  <2>1. SUFFICES ASSUME g \in older[h] PROVE FALSE
    BY <1>5 DEF RecencyOrder
  <2>2. h \in Groups /\ older[g] \subseteq older[h] /\ g \notin older[g]
    BY <2>1 DEF RecencyOrder, GroupTypes
  <2>3. live \ older[h] \subseteq s /\ live \ older[h] # s
    BY <1>4, <2>1, <2>2
  <2>4. <<live \ older[h], s>> \in StrictSubsetOrdering(live)
    BY <1>4, <2>3 DEF StrictSubsetOrdering
  <2>5. QED
    BY <1>3, <2>4
<1>6. QED
  BY <1>5

(* What the members are shown to have spent adds up to what was read: each *)
(* expense has one member row.                                             *)
LEMMA MembersShareExpenses ==
  ASSUME BudgetRows, GroupTypes, NEW g, NEW read \in SUBSET {e \in expenses : e.group = g}
  PROVE  MembersSpent(g, read) = Cardinality(read)
<1> DEFINE S == MembersOf(g)
           Of(s) == {e \in read : \E m \in s : e.member = m.id}
           w == [m \in S |-> SpentBy(m, read)]
           h == [s \in SUBSET S |-> Cardinality(Of(s))]
           Sum(f) == f = [s \in SUBSET S |-> IF s = {} THEN 0
                           ELSE SpentBy(CHOOSE x \in s : TRUE, read) + f[s \ {CHOOSE x \in s : TRUE}]]
<1>1. IsFiniteSet(S)
  BY FS_Subset DEF GroupTypes, MembersOf
<1>2. IsFiniteSet(read)
  <2>1. read \in SUBSET expenses
    OBVIOUS
  <2>2. QED
    BY <2>1, FS_Subset DEF BudgetRows
<1>3. \A m, n \in S : m.id = n.id => m = n
  BY DEF BudgetRows, MembersOK, MembersOf
<1>4. ASSUME NEW s \in SUBSET S, NEW x \in s
      PROVE  Cardinality(Of(s)) = SpentBy(x, read) + Cardinality(Of(s \ {x}))
  <2> DEFINE A == {e \in read : e.member = x.id}
             B == Of(s \ {x})
  <2>1. Of(s) = A \cup B
    OBVIOUS
  <2>2. A \cap B = {}
    BY <1>3
  <2>3. IsFiniteSet(A) /\ IsFiniteSet(B)
    BY <1>2, FS_Subset
  <2>4. Cardinality(A \cup B) = Cardinality(A) + Cardinality(B) - Cardinality(A \cap B)
    BY <2>3, FS_Union
  <2>5. Cardinality(A \cap B) = 0 /\ Cardinality(A) \in Nat /\ Cardinality(B) \in Nat
    BY <2>2, <2>3, FS_EmptySet, FS_CardinalityType
  <2>6. SpentBy(x, read) = Cardinality(A)
    BY DEF SpentBy
  <2>7. Cardinality(Of(s)) = Cardinality(A \cup B)
    BY <2>1
  <2> HIDE DEF A, Of
  <2>8. QED
    BY <2>4, <2>5, <2>6, <2>7
<1>5. AddsUp(h, w, S)
  <2>1. ASSUME NEW s \in SUBSET S
        PROVE  h[s] = IF s = {} THEN 0
                      ELSE w[CHOOSE x \in s : TRUE] + h[s \ {CHOOSE x \in s : TRUE}]
    <3>1. CASE s = {}
      <4>1. Of(s) = {}
        BY <3>1
      <4>2. QED
        BY <3>1, <4>1, FS_EmptySet
    <3>2. CASE s # {}
      <4> DEFINE x == CHOOSE y \in s : TRUE
      <4>1. x \in s /\ x \in S /\ s \ {x} \in SUBSET S
        BY <3>2
      <4>2. Cardinality(Of(s)) = SpentBy(x, read) + Cardinality(Of(s \ {x}))
        BY <1>4, <4>1
      <4>3. w[x] = SpentBy(x, read) /\ h[s \ {x}] = Cardinality(Of(s \ {x}))
        BY <4>1
      <4> HIDE DEF x
      <4>4. h[s] = w[x] + h[s \ {x}]
        BY <4>2, <4>3
      <4>5. QED
        BY <3>2, <4>4 DEF x
    <3>3. QED
      BY <3>1, <3>2
  <2>2. QED
    BY <2>1 DEF AddsUp
<1>6. \A f : Sum(f) <=> AddsUp(f, w, S)
  <2>1. \A s \in SUBSET S : s # {} =>
          w[CHOOSE x \in s : TRUE] = SpentBy(CHOOSE x \in s : TRUE, read)
    OBVIOUS
  <2>2. QED
    BY <2>1 DEF AddsUp
<1>7. Sum(h)
  BY <1>5, <1>6
<1>8. h = CHOOSE f : Sum(f)
  <2>1. Sum(CHOOSE f : Sum(f))
    BY <1>7
  <2>2. QED
    BY <1>1, <1>5, <1>6, <2>1, AddsUpOnce
<1>9. MembersSpent(g, read) = h[S]
  BY <1>8 DEF MembersSpent, MapThenSumSet, MapThenFoldSet
<1>10. Of(S) = read
  BY DEF BudgetRows, MembersOf
<1>11. QED
  BY <1>9, <1>10

LEMMA BudgetsFit == BudgetsInv => BudgetSchemaOK
<1> SUFFICES ASSUME BudgetsInv PROVE BudgetSchemaOK
  OBVIOUS
<1>1. chatBudgets # {} => \E g \in chatBudgets : chatBudgets \ {g} \subseteq older[g]
  BY OneUpdatedLast DEF BudgetsInv, BudgetRows
<1>2. ASSUME NEW g \in live, NEW read \in ReadDetails(g) \cup ReadOverview(g)
      PROVE  MembersSpent(g, read) = Cardinality(read)
  <2>1. read \in SUBSET {e \in expenses : e.group = g}
    BY <1>2 DEF ReadDetails, ReadOverview, Latest, kSubset
  <2>2. QED
    BY <2>1, MembersShareExpenses DEF BudgetsInv
<1>3. QED
  BY <1>1, <1>2 DEF BudgetSchemaOK, BudgetsInv, BudgetRows

(* The rows of a budget always fit the schema, its creator is one of its   *)
(* members, its chat knows which budget was updated last, and the members' *)
(* shares add up to the total shown.                                       *)
THEOREM BudgetSchema == BudgetsSpec => []BudgetSchemaOK
BY BudgetsInvHolds, BudgetsFit, PTL

(* A chat expense that has been handled went to the budget or to the       *)
(* personal confirmation, and to both only after a failed answer.          *)
THEOREM ChatExpenses == BudgetsSpec => []ChatExpenseLandsOnce
<1>1. BudgetsInv => ChatExpenseLandsOnce
  BY DEF BudgetsInv
<1>2. QED
  BY BudgetsInvHolds, <1>1, PTL

(* The limits of the free plan are only exceeded, and an expense is only   *)
(* stored for somebody who may not spend, by requests that overlap.        *)
THEOREM BudgetChecks == BudgetsSpec => BudgetChecksHold
<1>1. ASSUME BudgetsInv, [BudgetsNext]_budgetVars
      PROVE  [overlapped \/ /\ LimitsKeptStep
                            /\ \A e \in expenses' \ expenses : MaySpend(e.user, e.group)]_budgetVars
  <2> SUFFICES ASSUME BudgetsNext, ~overlapped
               PROVE  LimitsKeptStep /\ \A e \in expenses' \ expenses : MaySpend(e.user, e.group)
    BY <1>1
  <2>1. ASSUME NEW p \in flight, NEW g \in Groups, CommitCreateBudget(p, g)
        PROVE  LimitsKeptStep /\ expenses' = expenses
    <3>1. p.op = "create" /\ InsertGroup(p, g) /\ expenses' = expenses
      BY <2>1 DEF CommitCreateBudget
    <3>2. MayCreate(p.user) /\ p.user \in Users
      BY <1>1, <3>1 DEF BudgetsInv, OneAtATime, ChecksStand, BudgetRequest
    <3>3. QED
      BY <1>1, <3>1, <3>2, OneGroup DEF BudgetsInv, BudgetRows
  <2>2. ASSUME NEW p \in flight, CommitAddSpender(p)
        PROVE  LimitsKeptStep /\ expenses' = expenses
    <3> DEFINE there == {m \in MembersOf(p.group) : m.user = p.user}
               m == Member(p.id, p.group, p.user, p.role)
    <3>1. p.op = "add" /\ UNCHANGED <<creator, live, expenses>>
      BY <2>2 DEF CommitAddSpender, budgetOwn
    <3>2. CASE p.group \notin live
      <4>1. members' = members
        BY <2>2, <3>2 DEF CommitAddSpender
      <4>2. QED
        BY <3>1, <4>1, FewerMembers
    <3>3. CASE there # {}
      <4>1. \A n \in members' \ members : n.group = p.group /\ n.user = p.user
        BY <2>2 DEF CommitAddSpender, Member
      <4>2. IsMember(p.user, p.group)
        BY <3>3 DEF IsMember
      <4>3. QED
        BY <3>1, <4>1, <4>2 DEF LimitsKeptStep
    <3>4. CASE there = {} /\ p.group \in live
      <4>1. members' = members \cup {m}
        BY <2>2, <3>4 DEF CommitAddSpender
      <4>2. m \notin members /\ m.group = p.group
        BY <1>1, <3>1 DEF Member, BudgetsInv, IdsOnce
      <4>3. HasRoom(p.group)
        BY <1>1, <3>1, <3>4 DEF BudgetsInv, OneAtATime, ChecksStand
      <4>4. QED
        BY <1>1, <3>1, <4>1, <4>2, <4>3, OneMember DEF BudgetsInv, GroupTypes
    <3>5. QED
      BY <3>2, <3>3, <3>4
  <2>3. ASSUME NEW p \in flight, CommitSpend(p)
        PROVE  LimitsKeptStep /\ \A e \in expenses' \ expenses : MaySpend(e.user, e.group)
    <3>1. p.op = "spend" /\ UNCHANGED groupRows /\ expenses' \subseteq expenses \cup {ExpenseRow(p)}
      BY <2>3 DEF CommitSpend
    <3>2. MaySpend(p.user, p.group)
      BY <1>1, <3>1 DEF BudgetsInv, SpendingStands
    <3>3. QED
      BY <3>1, <3>2, FewerMembers DEF groupRows, ExpenseRow
  <2>4. ASSUME NEW p \in flight,
               \/ CommitUpdateBudget(p) \/ CommitDeleteBudget(p) \/ CommitRemoveSpender(p)
               \/ CommitLinkBudget(p) \/ StartChatSpend(p) \/ RefuseChatSpend(p)
               \/ AnswerSpend(p) \/ FailAnswer(p)
        PROVE  LimitsKeptStep /\ expenses' \subseteq expenses
    <3>1. members' \subseteq members /\ live' \subseteq live /\ expenses' \subseteq expenses
      BY <2>4 DEF CommitUpdateBudget, CommitDeleteBudget, CommitRemoveSpender, CommitLinkBudget,
         StartChatSpend, RefuseChatSpend, AnswerSpend, FailAnswer, groupRows, budgetOwn
    <3>2. QED
      BY <3>1, FewerMembers
  <2>5. ASSUME NEW r \in Reqs, NEW u \in Users,
               \/ BeginCreateBudget(r, u)
               \/ HearExpense(r, u)
               \/ \E g \in Groups :
                    \/ BeginUpdateBudget(r, u, g)
                    \/ BeginDeleteBudget(r, u, g)
                    \/ BeginJoinBudget(r, u, g)
                    \/ \E v \in Users, role \in Roles : BeginAddSpender(r, u, v, g, role)
                    \/ \E v \in Users : BeginRemoveSpender(r, u, v, g)
                    \/ BeginLinkBudget(r, u, g)
                    \/ BeginSpend(r, u, g)
        PROVE  LimitsKeptStep /\ expenses' = expenses
    <3>1. UNCHANGED groupRows /\ expenses' = expenses
      BY <2>5 DEF BeginCreateBudget, HearExpense, BeginUpdateBudget, BeginDeleteBudget,
         BeginJoinBudget, BeginAddSpender, BeginRemoveSpender, BeginLinkBudget, BeginSpend, budgetOwn
    <3>2. QED
      BY <3>1, FewerMembers DEF groupRows
  <2>6. ASSUME NEW u \in Users, BudgetsLapse(u)
        PROVE  LimitsKeptStep /\ expenses' = expenses
    BY <2>6, FewerMembers DEF BudgetsLapse, ChangePlan, budgetOwn
  <2>7. QED
    BY <2>1, <2>2, <2>3, <2>4, <2>5, <2>6 DEF BudgetsNext
<1>2. QED
  BY BudgetsInvHolds, <1>1, PTL DEF BudgetsSpec, BudgetChecksHold

(* The instance puts goals and budgets side by side: a behaviour of either *)
(* keeps its own invariant.                                                *)
PartsInv ==
  /\ part \in {"goals", "budgets"}
  /\ part = "goals" => GoalsInv
  /\ part = "budgets" => BudgetsInv

(* However requests overlap, the rows that TLC looks at fit the schema in  *)
(* every behaviour of the instance: in those of goals the creator stays    *)
(* the OWNER, in those of budgets the members' shares add up.              *)
THEOREM RowsAlwaysFit == Spec => []RowsFit
<1>1. Init => PartsInv
  BY GoalsInitInv, BudgetsInitInv DEF Init, PartsInv
<1>2. PartsInv /\ [Next]_<<part, shared, goalOwn, budgetOwn>> => PartsInv'
  <2> SUFFICES ASSUME PartsInv, [Next]_<<part, shared, goalOwn, budgetOwn>>
               PROVE  PartsInv'
    OBVIOUS
  <2>1. CASE Next /\ part = "goals"
    <3>1. GoalsNext /\ part' = part
      BY <2>1 DEF Next
    <3>2. QED
      BY <2>1, <3>1, GoalsStep DEF PartsInv
  <2>2. CASE Next /\ part = "budgets"
    <3>1. BudgetsNext /\ part' = part
      BY <2>2 DEF Next
    <3>2. QED
      BY <2>2, <3>1, BudgetsStep DEF PartsInv
  <2>3. CASE UNCHANGED <<part, shared, goalOwn, budgetOwn>>
    <3>1. part' = part /\ UNCHANGED goalVars /\ UNCHANGED budgetVars
      BY <2>3 DEF goalVars, budgetVars, shared, goalOwn
    <3>2. QED
      BY <3>1, GoalsStep, BudgetsStep DEF PartsInv
  <2>4. QED
    BY <2>1, <2>2, <2>3 DEF PartsInv
<1>3. PartsInv => RowsFit
  BY BudgetsFit DEF PartsInv, RowsFit, GoalsInv
<1>4. QED
  BY <1>1, <1>2, <1>3, PTL DEF Spec
=============================================================================
