----------------------------- MODULE Membership -----------------------------
(***************************************************************************)
(* What group savings goals and group budgets have in common: who created  *)
(* a group, who is a member and in which role, which plan the creator is   *)
(* on, and the requests that have read a group and not yet written.        *)
(*                                                                         *)
(* A request reads the group (and, a moment later, the plan of its         *)
(* creator: one step here), decides, and writes in a later step.  What it  *)
(* decided on may be gone by then: nothing is locked.                      *)
(***************************************************************************)
EXTENDS Naturals, FiniteSets

CONSTANTS
  Users,        \* people
  Groups,       \* ids of goals or budgets
  Reqs,         \* requests; the id of a row is that of the request that wrote it
  Nobody,       \* the creator of a group that was never created
  GroupLimit,   \* groups a free user may create
  MemberLimit,  \* members a group of a free creator may have
  MaxFlight     \* bound: requests between their read and their write

ASSUME MembershipAssumption ==
  /\ Nobody \notin Users
  /\ GroupLimit \in Nat /\ MemberLimit \in Nat /\ MaxFlight \in Nat

VARIABLES
  premium,      \* users whose plan lifts the limits
  creator,      \* creator[g], kept after a delete so that an id is used once
  live,         \* groups with a row
  members,      \* rows of the member table
  fresh,        \* requests not yet received
  flight,       \* requests between their read and their write
  overlapped    \* history: a request or a plan change came between a read and its write

groupRows == <<creator, live, members>>
shared == <<premium, creator, live, members, fresh, flight, overlapped>>

Roles == {"OWNER", "ADMIN", "MEMBER", "VIEWER"}
Member(r, g, u, role) == [id |-> r, group |-> g, user |-> u, role |-> role]
MemberRows == [id : Reqs, group : Groups, user : Users, role : Roles]

MembersOf(g) == {m \in members : m.group = g}
IsMember(u, g) == \E m \in MembersOf(g) : m.user = u
RowOf(u, g) == CHOOSE m \in MembersOf(g) : m.user = u
HasRole(u, g, roles) == \E m \in MembersOf(g) : m.user = u /\ m.role \in roles
MayManage(u, g) == creator[g] = u \/ HasRole(u, g, {"OWNER", "ADMIN"})

(* The limits of the free plan, as create, join and add check them.        *)
CountCreated(u) == Cardinality({g \in live : creator[g] = u})
MayCreate(u) == u \in premium \/ CountCreated(u) < GroupLimit
(* Mutant: one member too many. *)
HasRoomOneMore(g) ==
  creator[g] \in premium \/ Cardinality(MembersOf(g)) <= MemberLimit
HasRoom(g) == creator[g] \in premium \/ Cardinality(MembersOf(g)) < MemberLimit

MembershipInit ==
  /\ premium \in SUBSET Users
  /\ creator = [g \in Groups |-> Nobody]
  /\ live = {}
  /\ members = {}
  /\ fresh = Reqs
  /\ flight = {}
  /\ overlapped = FALSE

(* A request arrives and, if its checks pass, waits to write p.            *)
Receive(r, p) ==
  /\ r \in fresh
  /\ Cardinality(flight) < MaxFlight
  /\ fresh' = fresh \ {r}
  /\ flight' = flight \cup {p}
  /\ overlapped' = (overlapped \/ flight # {})

(* The request p has written, or its write was refused.                    *)
End(p) == /\ flight' = flight \ {p}
          /\ UNCHANGED <<premium, fresh, overlapped>>

(* A subscription starts or lapses.                                        *)
ChangePlan(u) ==
  /\ premium' = IF u \in premium THEN premium \ {u} ELSE premium \cup {u}
  /\ overlapped' = (overlapped \/ flight # {})
  /\ UNCHANGED <<creator, live, members, fresh, flight>>

(* The transaction that inserts the group and its creator's OWNER row.     *)
InsertGroup(p, g) ==
  /\ creator[g] = Nobody
  /\ creator' = [creator EXCEPT ![g] = p.user]
  /\ live' = live \cup {g}
  /\ members' = members \cup {Member(p.id, g, p.user, "OWNER")}

(* The rows of the schema: one per (group, user), and only for live groups. *)
MembersOK ==
  /\ members \subseteq MemberRows
  /\ \A m \in members : m.group \in live
  /\ \A m, n \in members : m.id = n.id \/ (m.group = n.group /\ m.user = n.user) => m = n
  /\ \A g \in Groups : g \in live => creator[g] # Nobody

(* A step keeps the limits: who joins a group makes it no larger than the  *)
(* plan of its creator allows, and who creates one has no more than the    *)
(* own plan allows.                                                        *)
LimitsKeptStep ==
  /\ \A g \in live : (\E m \in members' \ members : m.group = g /\ ~IsMember(m.user, g)) =>
       creator[g] \in premium \/ Cardinality(MembersOf(g)') <= MemberLimit
  /\ \A g \in live' \ live, u \in Users :
       creator'[g] = u => u \in premium \/ CountCreated(u)' <= GroupLimit
=============================================================================
