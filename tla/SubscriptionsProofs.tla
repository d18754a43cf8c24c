-------------------------- MODULE SubscriptionsProofs --------------------------
(***************************************************************************)
(* Proofs about Subscriptions.  A request in flight carries the row it     *)
(* will write past any number of other writes, so the invariants speak of  *)
(* those rows as well as of the table; what needs the database's counts    *)
(* rests on each request writing at most once; and what holds only without *)
(* overlap rests on the one request in flight having read what is still    *)
(* there.                                                                  *)
(***************************************************************************)
EXTENDS Subscriptions, FiniteSetTheorems, TLAPS

(* What is known of each request in flight from its type. *)
LEMMA FlightTypes ==
  ASSUME TypeOK, NEW f \in flight
  PROVE  /\ f.req \in Reqs /\ f.user \in Users /\ f.row \in PaidRow /\ f.row \in Row
         /\ f.op \in {"redeem-read", "redeem"} => f \in Redeeming /\ f.about \in Promos
         /\ f.op \in {"ask", "trial", "approve", "reject", "grant"} => f \in Deciding /\ f.about \in Reqs
BY DEF TypeOK, Redeeming, Deciding, PaidRow, Row

LEMMA RowType ==
  ASSUME NEW row \in Row
  PROVE  row.plan \in PaidPlan \cup {"FREE"} /\ row.source \in Source /\ row.end \in Nat
BY DEF Row

(* The later of today and the end of the period is a day. *)
LEMMA StartType == ASSUME TypeOK, NEW u \in Users PROVE StartOf(u) \in Nat /\ StartOf(u) >= now /\ StartOf(u) >= sub[u].end
<1>1. now \in Nat /\ sub[u].end \in Nat
  BY LengthAssumption, RowType DEF TypeOK
<1>2. QED BY <1>1 DEF StartOf

(* A request that enters with a well-typed record leaves all types as they are. *)
LEMMA EnterTypes ==
  ASSUME TypeOK, NEW r \in Reqs, NEW op, NEW u, NEW about, NEW row, Enter(r, op, u, about, row),
         [req |-> r, op |-> op, user |-> u, about |-> about, row |-> row] \in Redeeming \cup Deciding
  PROVE  TypeOK'
<1>1. overlapped' \in BOOLEAN
  BY DEF Enter, Receive
<1>2. flight' \subseteq Redeeming \cup Deciding
  BY DEF Enter, TypeOK
<1>3. fresh' \subseteq Reqs
  BY DEF Enter, Receive, TypeOK
<1>4. QED BY <1>1, <1>2, <1>3 DEF Enter, TypeOK

(* Types survive every step of the service. *)
LEMMA TypeStep == TypeOK /\ [Next]_vars => TypeOK'
<1> SUFFICES ASSUME TypeOK, [Next]_vars PROVE TypeOK'
  OBVIOUS
<1> USE LengthAssumption
<1>0. now \in Nat
  BY DEF TypeOK
<1>1. CASE Tick
  BY <1>0, <1>1 DEF Tick, TypeOK
<1>2. ASSUME NEW p \in Promos, NEW plan \in PaidPlan, NEW e \in Expiries, CreatePromo(p, plan, e)
      PROVE  TypeOK'
  <2>1. [created |-> TRUE, plan |-> plan, expires |-> e, used |-> 0] \in Promo
    BY DEF Promo
  <2>2. QED BY <1>2, <2>1 DEF CreatePromo, TypeOK
<1>3. ASSUME NEW r \in Reqs, NEW u \in Users, NEW p \in Promos, BeginRedeem(r, u, p) PROVE TypeOK'
  <2>1. promo[p].plan \in PaidPlan
    BY DEF TypeOK, Promo
  <2>2. [plan |-> promo[p].plan, source |-> "PROMO", end |-> 0] \in PaidRow
    BY <2>1 DEF PaidRow, Source
  <2>3. [req |-> r, op |-> "redeem-read", user |-> u, about |-> p,
         row |-> [plan |-> promo[p].plan, source |-> "PROMO", end |-> 0]] \in Redeeming
    BY <2>2 DEF Redeeming
  <2>4. QED BY <1>3, <2>3, EnterTypes DEF BeginRedeem
<1>4. ASSUME NEW r \in Reqs, NEW u \in Users, BeginTrial(r, u) PROVE TypeOK'
  <2>1. [plan |-> "PREMIUM_MONTHLY", source |-> "SIGNUP_TRIAL", end |-> now + TrialLength] \in PaidRow
    BY <1>0 DEF PaidRow, Source, PaidPlan
  <2>2. [req |-> r, op |-> "trial", user |-> u, about |-> r,
         row |-> [plan |-> "PREMIUM_MONTHLY", source |-> "SIGNUP_TRIAL", end |-> now + TrialLength]] \in Deciding
    BY <2>1 DEF Deciding
  <2>3. QED BY <1>4, <2>2, EnterTypes DEF BeginTrial
<1>5. ASSUME NEW r \in Reqs, NEW u \in Users, NEW plan \in PaidPlan, BeginAsk(r, u, plan) PROVE TypeOK'
  <2>1. [FreeRow EXCEPT !.plan = plan] \in PaidRow
    BY DEF PaidRow, FreeRow, Source
  <2>2. [req |-> r, op |-> "ask", user |-> u, about |-> r, row |-> [FreeRow EXCEPT !.plan = plan]] \in Deciding
    BY <2>1 DEF Deciding
  <2>3. QED BY <1>5, <2>2, EnterTypes DEF BeginAsk
<1>6. ASSUME NEW r \in Reqs, NEW u \in Users, NEW plan \in PaidPlan, NEW length \in AdminLengths,
             BeginGrant(r, u, plan, length)
      PROVE  TypeOK'
  <2>1. [plan |-> plan, source |-> "ADMIN", end |-> now + length] \in PaidRow
    BY <1>0 DEF PaidRow, Source
  <2>2. [req |-> r, op |-> "grant", user |-> u, about |-> r,
         row |-> [plan |-> plan, source |-> "ADMIN", end |-> now + length]] \in Deciding
    BY <2>1 DEF Deciding
  <2>3. QED BY <1>6, <2>2, EnterTypes DEF BeginGrant
<1>7. ASSUME NEW r \in Reqs, NEW u \in Users, Revoke(r, u) PROVE TypeOK'
  <2>1. overlapped' \in BOOLEAN /\ fresh' \subseteq Reqs
    BY <1>7 DEF Revoke, Receive, TypeOK
  <2>2. sub' \in [Users -> Row]
    <3>1. RevokedRow(u) \in Row
      BY DEF RevokedRow, Row, Source
    <3>2. QED BY <1>7, <3>1 DEF Revoke, TypeOK
  <2>3. trials' \in [Users -> Nat]
    BY <1>7 DEF Revoke, TypeOK
  <2>4. audit' \subseteq Audit
    BY <1>7 DEF Revoke, AuditedOrStopped, Audited, Audit, TypeOK
  <2>5. QED BY <1>7, <2>1, <2>2, <2>3, <2>4 DEF Revoke, TypeOK
<1>8. ASSUME NEW r \in Reqs, NEW q \in upgrade, NEW op \in {"approve", "reject"}, BeginReview(r, q, op)
      PROVE  TypeOK'
  <2>1. q.plan \in PaidPlan /\ q.user \in Users /\ q.id \in Reqs
    BY DEF TypeOK, Upgrade
  <2>2. [FreeRow EXCEPT !.plan = q.plan] \in PaidRow
    BY <2>1 DEF PaidRow, FreeRow, Source
  <2>3. [req |-> r, op |-> op, user |-> q.user, about |-> q.id, row |-> [FreeRow EXCEPT !.plan = q.plan]] \in Deciding
    BY <2>1, <2>2 DEF Deciding
  <2>4. QED BY <1>8, <2>3, EnterTypes DEF BeginReview
<1>9. ASSUME NEW f \in flight, ReadForRedeem(f) PROVE TypeOK'
  <2>1. f \in Redeeming /\ StartOf(f.user) \in Nat
    BY <1>9, FlightTypes, StartType DEF ReadForRedeem
  <2>2. StartOf(f.user) + PromoLength \in Nat
    BY <2>1
  <2>3. ASSUME NEW n \in Nat PROVE [f EXCEPT !.op = "redeem", !.row.end = n] \in Redeeming
    BY <2>1 DEF Redeeming, PaidRow
  <2>4. flight' \subseteq Redeeming \cup Deciding
    BY <1>9, <2>2, <2>3 DEF ReadForRedeem, TypeOK
  <2>5. QED BY <1>9, <2>4 DEF ReadForRedeem, TypeOK
<1>10. ASSUME NEW f \in flight, CommitRedeem(f) PROVE TypeOK'
  <2>1. f.about \in Promos /\ f.user \in Users /\ f.row \in Row /\ f.req \in Reqs
    BY <1>10, FlightTypes DEF CommitRedeem
  <2>2. promo' \in [Promos -> Promo]
    BY <1>10, <2>1 DEF CommitRedeem, TypeOK, Promo
  <2>3. audit' \subseteq Audit
    BY <1>10, <2>1 DEF CommitRedeem, Audited, Audit, TypeOK
  <2>4. QED BY <1>10, <2>1, <2>2, <2>3 DEF CommitRedeem, Leave, TypeOK
<1>11. ASSUME NEW f \in flight, CommitTrial(f) PROVE TypeOK'
  <2>1. f.user \in Users /\ f.row \in Row /\ f.req \in Reqs
    BY FlightTypes
  <2>2. audit' \subseteq Audit
    BY <1>11, <2>1 DEF CommitTrial, AuditedOrStopped, Audited, Audit, TypeOK
  <2>3. trials' \in [Users -> Nat]
    BY <1>11, <2>1 DEF CommitTrial, TypeOK
  <2>4. QED BY <1>11, <2>1, <2>2, <2>3 DEF CommitTrial, Leave, TypeOK
<1>12. ASSUME NEW f \in flight, CommitAsk(f) PROVE TypeOK'
  <2>1. f.user \in Users /\ f.row.plan \in PaidPlan /\ f.req \in Reqs
    BY FlightTypes DEF PaidRow
  <2>2. audit' \subseteq Audit
    BY <1>12, <2>1 DEF CommitAsk, AuditedOrStopped, Audited, Audit, TypeOK
  <2>3. upgrade' \subseteq Upgrade
    BY <1>12, <2>1 DEF CommitAsk, TypeOK, Upgrade
  <2>4. QED BY <1>12, <2>2, <2>3 DEF CommitAsk, Leave, TypeOK
<1>13. ASSUME NEW f \in flight, CommitReject(f) PROVE TypeOK'
  <2>1. f.req \in Reqs /\ f.about \in Reqs
    BY <1>13, FlightTypes DEF CommitReject
  <2>2. audit' \subseteq Audit
    BY <1>13, <2>1 DEF CommitReject, AuditedOrStopped, Audited, Audit, TypeOK
  <2>3. \A q \in upgrade : [q EXCEPT !.status = "REJECTED"] \in Upgrade /\ q \in Upgrade
    BY DEF TypeOK, Upgrade
  <2>4. upgrade' \subseteq Upgrade
    BY <1>13, <2>3 DEF CommitReject
  <2>5. QED BY <1>13, <2>2, <2>4 DEF CommitReject, Leave, TypeOK
<1>14. ASSUME NEW f \in flight, ApproveByGrant(f) PROVE TypeOK'
  <2>1. f \in Deciding /\ f.row.plan \in PaidPlan
    BY <1>14, FlightTypes DEF ApproveByGrant, PaidRow
  <2>2. now + DefaultLength(f.row.plan) \in Nat
    BY <1>0 DEF DefaultLength
  <2>3. ASSUME NEW n \in Nat
        PROVE  [f EXCEPT !.op = "grant", !.row.source = "TELEBIRR", !.row.end = n] \in Deciding
    BY <2>1 DEF Deciding, PaidRow, Source
  <2>4. flight' \subseteq Redeeming \cup Deciding
    BY <1>14, <2>2, <2>3 DEF ApproveByGrant, TypeOK
  <2>5. QED BY <1>14, <2>4 DEF ApproveByGrant, TypeOK
<1>15. ASSUME NEW f \in flight, CommitGrant(f) PROVE TypeOK'
  <2>1. f.user \in Users /\ f.row \in Row /\ f.req \in Reqs
    BY FlightTypes
  <2>2. audit' \subseteq Audit
    BY <1>15, <2>1 DEF CommitGrant, Audited, Audit, TypeOK
  <2>3. \A q \in upgrade : [q EXCEPT !.status = "APPROVED"] \in Upgrade /\ q \in Upgrade
    BY DEF TypeOK, Upgrade
  <2>4. upgrade' \subseteq Upgrade
    BY <1>15, <2>3 DEF CommitGrant, ApprovedPending
  <2>5. QED BY <1>15, <2>1, <2>2, <2>4 DEF CommitGrant, Leave, TypeOK
<1>16. ASSUME NEW f \in flight, LoseRequest(f) PROVE TypeOK'
  BY <1>16 DEF LoseRequest, Leave, TypeOK
<1>17. CASE UNCHANGED vars
  BY <1>17 DEF vars, TypeOK
<1>18. QED
  BY <1>1, <1>2, <1>3, <1>4, <1>5, <1>6, <1>7, <1>8, <1>9, <1>10, <1>11, <1>12, <1>13, <1>14,
     <1>15, <1>16, <1>17 DEF Next

(* The service starts with nobody subscribed and nothing asked for. *)
LEMMA TypeInit == Init => TypeOK
<1> SUFFICES ASSUME Init PROVE TypeOK
  OBVIOUS
<1>1. FreeRow \in Row
  BY DEF FreeRow, Row, Source
<1>2. sub \in [Users -> Row] /\ promo \in [Promos -> Promo]
  BY <1>1 DEF Init, Promo, PaidPlan
<1>3. overlapped \in BOOLEAN
  BY DEF Init
<1>4. QED BY <1>2, <1>3, LengthAssumption DEF Init, TypeOK

(* Every table and every request of subscription.service.ts keeps its type. *)
THEOREM TypeCorrect == Spec => []TypeOK
<1>1. QED BY TypeInit, TypeStep, PTL DEF Spec

-----------------------------------------------------------------------------
(* The plan and the end of a row agree, in the table and in every row that *)
(* a request is about to write.                                            *)
PlanHasEnd   == \A u \in Users : sub[u].plan = "FREE" <=> sub[u].end = 0
EndsInFlight == \A f \in flight : f.op \in {"redeem", "trial", "grant"} => f.row.end > 0

EntitlementInv == TypeOK /\ PlanHasEnd /\ EndsInFlight

(* Writing the row of a request that is ready to commit keeps them agreeing. *)
LEMMA WrittenRow ==
  ASSUME EntitlementInv, NEW f \in flight, f.op \in {"redeem", "trial", "grant"},
         sub' = [sub EXCEPT ![f.user] = f.row]
  PROVE  PlanHasEnd'
<1>1. f.user \in Users /\ f.row \in PaidRow /\ f.row.end > 0
  BY FlightTypes DEF EntitlementInv, EndsInFlight
<1>2. f.row.plan # "FREE" /\ f.row.end # 0
  BY <1>1 DEF PaidRow, PaidPlan
<1>3. sub \in [Users -> Row]
  BY DEF EntitlementInv, TypeOK
<1>4. sub'[f.user] = f.row /\ \A u \in Users : u # f.user => sub'[u] = sub[u]
  BY <1>1, <1>3
<1>5. QED BY <1>2, <1>4 DEF EntitlementInv, PlanHasEnd

LEMMA EntitlementStep == EntitlementInv /\ [Next]_vars => PlanHasEnd' /\ EndsInFlight'
<1> SUFFICES ASSUME EntitlementInv, [Next]_vars PROVE PlanHasEnd' /\ EndsInFlight'
  OBVIOUS
<1> USE LengthAssumption
<1>0. TypeOK /\ PlanHasEnd /\ EndsInFlight /\ now \in Nat
  BY DEF EntitlementInv, TypeOK
<1>1. ASSUME Tick \/ (UNCHANGED vars) \/ \E p \in Promos, plan \in PaidPlan, e \in Expiries : CreatePromo(p, plan, e)
      PROVE  PlanHasEnd' /\ EndsInFlight'
  BY <1>0, <1>1 DEF Tick, vars, CreatePromo, PlanHasEnd, EndsInFlight
<1>2. ASSUME NEW r \in Reqs, NEW op, NEW u, NEW about, NEW row, Enter(r, op, u, about, row),
             op \in {"redeem", "trial", "grant"} => row.end > 0
      PROVE  PlanHasEnd' /\ EndsInFlight'
  <2>1. UNCHANGED sub /\ flight' = flight \cup
          {[req |-> r, op |-> op, user |-> u, about |-> about, row |-> row]}
    BY <1>2 DEF Enter
  <2>2. PlanHasEnd'
    BY <1>0, <2>1 DEF PlanHasEnd
  <2>3. EndsInFlight'
    BY <1>0, <1>2, <2>1 DEF EndsInFlight
  <2>4. QED BY <2>2, <2>3
<1>3. ASSUME NEW r \in Reqs, NEW u \in Users, NEW p \in Promos, BeginRedeem(r, u, p)
      PROVE  PlanHasEnd' /\ EndsInFlight'
  BY <1>2, <1>3 DEF BeginRedeem
<1>4. ASSUME NEW r \in Reqs, NEW u \in Users, BeginTrial(r, u) PROVE PlanHasEnd' /\ EndsInFlight'
  <2>1. now + TrialLength > 0
    BY <1>0
  <2>2. QED BY <1>2, <1>4, <2>1 DEF BeginTrial
<1>5. ASSUME NEW r \in Reqs, NEW u \in Users, NEW plan \in PaidPlan, BeginAsk(r, u, plan)
      PROVE  PlanHasEnd' /\ EndsInFlight'
  BY <1>2, <1>5 DEF BeginAsk
<1>6. ASSUME NEW r \in Reqs, NEW u \in Users, NEW plan \in PaidPlan, NEW length \in AdminLengths,
             BeginGrant(r, u, plan, length)
      PROVE  PlanHasEnd' /\ EndsInFlight'
  <2>1. now + length > 0
    BY <1>0
  <2>2. QED BY <1>2, <1>6, <2>1 DEF BeginGrant
<1>7. ASSUME NEW r \in Reqs, NEW u \in Users, Revoke(r, u) PROVE PlanHasEnd' /\ EndsInFlight'
  <2>1. sub' = [sub EXCEPT ![u] = RevokedRow(u)] /\ flight' = flight /\ sub \in [Users -> Row]
    BY <1>0, <1>7 DEF Revoke, TypeOK
  <2>2. sub'[u].plan = "FREE" /\ sub'[u].end = 0 /\ \A v \in Users : v # u => sub'[v] = sub[v]
    BY <2>1 DEF RevokedRow
  <2>3. QED BY <1>0, <2>1, <2>2 DEF PlanHasEnd, EndsInFlight
<1>8. ASSUME NEW r \in Reqs, NEW q \in upgrade, NEW op \in {"approve", "reject"}, BeginReview(r, q, op)
      PROVE  PlanHasEnd' /\ EndsInFlight'
  BY <1>2, <1>8 DEF BeginReview
<1>9. ASSUME NEW f \in flight, ReadForRedeem(f) PROVE PlanHasEnd' /\ EndsInFlight'
  <2>1. StartOf(f.user) + PromoLength > 0 /\ f \in Redeeming
    BY <1>0, <1>9, FlightTypes, StartType DEF ReadForRedeem
  <2>2. ASSUME NEW n PROVE [f EXCEPT !.op = "redeem", !.row.end = n].row.end = n
    BY <2>1 DEF Redeeming, PaidRow
  <2>3. PICK e : /\ e = [f EXCEPT !.op = "redeem", !.row.end = StartOf(f.user) + PromoLength]
                 /\ flight' = (flight \ {f}) \cup {e} /\ UNCHANGED sub
    BY <1>9 DEF ReadForRedeem
  <2>4. e.row.end = StartOf(f.user) + PromoLength
    BY <2>2, <2>3
  <2>5. QED BY <1>0, <2>1, <2>3, <2>4 DEF PlanHasEnd, EndsInFlight
<1>10. ASSUME NEW f \in flight, ApproveByGrant(f) PROVE PlanHasEnd' /\ EndsInFlight'
  <2>1. now + DefaultLength(f.row.plan) > 0 /\ f \in Deciding
    BY <1>0, <1>10, FlightTypes DEF ApproveByGrant, DefaultLength
  <2>2. ASSUME NEW n PROVE [f EXCEPT !.op = "grant", !.row.source = "TELEBIRR", !.row.end = n].row.end = n
    BY <2>1 DEF Deciding, PaidRow
  <2>3. PICK e : /\ e = [f EXCEPT !.op = "grant", !.row.source = "TELEBIRR",
                                   !.row.end = now + DefaultLength(f.row.plan)]
                 /\ flight' = (flight \ {f}) \cup {e} /\ UNCHANGED sub
    BY <1>10 DEF ApproveByGrant
  <2>4. e.row.end = now + DefaultLength(f.row.plan)
    BY <2>2, <2>3
  <2>5. QED BY <1>0, <2>1, <2>3, <2>4 DEF PlanHasEnd, EndsInFlight
<1>11. ASSUME NEW f \in flight, CommitRedeem(f) \/ CommitTrial(f) \/ CommitGrant(f)
       PROVE  PlanHasEnd' /\ EndsInFlight'
  <2>1. PlanHasEnd'
    BY <1>11, WrittenRow DEF CommitRedeem, CommitTrial, CommitGrant
  <2>2. flight' \subseteq flight
    BY <1>11 DEF CommitRedeem, CommitTrial, CommitGrant, Leave
  <2>3. QED BY <1>0, <2>1, <2>2 DEF EndsInFlight
<1>12. ASSUME NEW f \in flight, CommitAsk(f) \/ CommitReject(f) \/ LoseRequest(f)
       PROVE  PlanHasEnd' /\ EndsInFlight'
  BY <1>0, <1>12 DEF CommitAsk, CommitReject, LoseRequest, Leave, PlanHasEnd, EndsInFlight
<1>13. QED
  BY <1>1, <1>3, <1>4, <1>5, <1>6, <1>7, <1>8, <1>9, <1>10, <1>11, <1>12 DEF Next

LEMMA EntitlementInvariant == Spec => []EntitlementInv
<1>1. Init => EntitlementInv
  BY TypeInit DEF Init, EntitlementInv, PlanHasEnd, EndsInFlight, FreeRow
<1>2. EntitlementInv /\ [Next]_vars => EntitlementInv'
  BY TypeStep, EntitlementStep DEF EntitlementInv
<1>3. QED BY <1>1, <1>2, PTL DEF Spec

(* Premium always ends, and nothing is left of it after a revocation.      *)
THEOREM PremiumEnds == Spec => []EntitlementEnds
<1>1. EntitlementInv => EntitlementEnds
  <2> SUFFICES ASSUME EntitlementInv, NEW u \in Users
               PROVE  /\ EffectivePlan(u) # "FREE" => sub[u].end > now
                      /\ sub[u].plan = "FREE" => sub[u].end = 0
    BY DEF EntitlementEnds
  <2>1. sub[u].plan = "FREE" <=> sub[u].end = 0
    BY DEF EntitlementInv, PlanHasEnd
  <2>2. QED BY <2>1 DEF EffectivePlan
<1>2. QED BY <1>1, EntitlementInvariant, PTL

-----------------------------------------------------------------------------
(* A request is fresh, or in flight, or has written: one of them, once.    *)
OnceServed ==
  /\ \A f \in flight : f.req \notin fresh
  /\ \A f, g \in flight : f.req = g.req => f = g
  /\ \A a \in audit : a.req \notin fresh /\ \A f \in flight : a.req # f.req
  /\ \A q \in upgrade : q.id \notin fresh /\ \A f \in flight : q.id # f.req
  /\ \A q1, q2 \in upgrade : q1.id = q2.id => q1 = q2

OnceInv == TypeOK /\ OnceServed

(* A request that leaves has named at most itself in what it wrote. *)
LEMMA LeaveOnce ==
  ASSUME OnceServed, NEW f \in flight, Leave(f),
         \A a \in audit' : a \in audit \/ a.req = f.req,
         \A q \in upgrade' : q.id = f.req \/ \E q0 \in upgrade : q.id = q0.id,
         \A q1, q2 \in upgrade' : q1.id = q2.id => q1 = q2
  PROVE  OnceServed'
BY DEF OnceServed, Leave

(* A request that reads on keeps its name. *)
LEMMA ReadOnOnce ==
  ASSUME OnceServed, NEW f \in flight, NEW e, e.req = f.req,
         flight' = (flight \ {f}) \cup {e}, UNCHANGED <<fresh, audit, upgrade>>
  PROVE  OnceServed'
BY DEF OnceServed

LEMMA EnterOnce ==
  ASSUME OnceServed, NEW r \in Reqs, NEW op, NEW u, NEW about, NEW row, Enter(r, op, u, about, row)
  PROVE  OnceServed'
<1>1. PICK e : e.req = r /\ flight' = flight \cup {e}
  BY DEF Enter
<1>2. r \in fresh /\ fresh' = fresh \ {r} /\ audit' = audit /\ upgrade' = upgrade
  BY DEF Enter, Receive
<1>3. QED BY <1>1, <1>2 DEF OnceServed

(* An approval that goes on to grant, and what it keeps of its record. *)
Granting(f, n) == [f EXCEPT !.op = "grant", !.row.source = "TELEBIRR", !.row.end = n]
LEMMA ApproveReadOn ==
  ASSUME TypeOK, NEW f \in flight, f.op = "approve", NEW n
  PROVE  /\ Granting(f, n).req = f.req /\ Granting(f, n).op = "grant"
         /\ Granting(f, n).user = f.user /\ Granting(f, n).about = f.about
BY FlightTypes DEF Deciding, PaidRow, Granting

(* Changing the status of a request keeps everything else of it. *)
LEMMA StatusOnly ==
  ASSUME TypeOK, NEW q \in upgrade, NEW st
  PROVE  /\ [q EXCEPT !.status = st].id = q.id /\ [q EXCEPT !.status = st].user = q.user
         /\ [q EXCEPT !.status = st].plan = q.plan /\ [q EXCEPT !.status = st].status = st
BY DEF TypeOK, Upgrade

LEMMA OnceStep == OnceInv /\ [Next]_vars => OnceServed'
<1> SUFFICES ASSUME OnceInv, [Next]_vars PROVE OnceServed'
  OBVIOUS
<1>0. TypeOK /\ OnceServed
  BY DEF OnceInv
<1>1. ASSUME Tick \/ (UNCHANGED vars) \/ \E p \in Promos, plan \in PaidPlan, e \in Expiries : CreatePromo(p, plan, e)
      PROVE  OnceServed'
  BY <1>0, <1>1 DEF Tick, vars, CreatePromo, OnceServed
<1>2. ASSUME NEW r \in Reqs, NEW u \in Users,
             \/ \E p \in Promos : BeginRedeem(r, u, p)
             \/ BeginTrial(r, u)
             \/ \E plan \in PaidPlan : BeginAsk(r, u, plan)
             \/ \E plan \in PaidPlan, length \in AdminLengths : BeginGrant(r, u, plan, length)
      PROVE  OnceServed'
  BY <1>0, <1>2, EnterOnce DEF BeginRedeem, BeginTrial, BeginAsk, BeginGrant
<1>3. ASSUME NEW r \in Reqs, NEW q \in upgrade, NEW op \in {"approve", "reject"}, BeginReview(r, q, op)
      PROVE  OnceServed'
  BY <1>0, <1>3, EnterOnce DEF BeginReview
<1>4. ASSUME NEW r \in Reqs, NEW u \in Users, Revoke(r, u) PROVE OnceServed'
  <2>1. r \in fresh /\ fresh' = fresh \ {r} /\ flight' = flight /\ upgrade' = upgrade
    BY <1>4 DEF Revoke, Receive
  <2>2. \A a \in audit' : a \in audit \/ a.req = r
    BY <1>4 DEF Revoke, AuditedOrStopped, Audited
  <2>3. QED BY <1>0, <2>1, <2>2 DEF OnceServed
<1>5. ASSUME NEW f \in flight, ReadForRedeem(f) PROVE OnceServed'
  <2>1. PICK n, e : /\ e = [f EXCEPT !.op = "redeem", !.row.end = n]
                    /\ flight' = (flight \ {f}) \cup {e} /\ f.op = "redeem-read"
    BY <1>5 DEF ReadForRedeem
  <2>2. f \in Redeeming
    BY <1>0, <2>1, FlightTypes
  <2>3. e.req = f.req
    BY <2>1, <2>2 DEF Redeeming
  <2>4. QED BY <1>0, <1>5, <2>1, <2>3, ReadOnOnce DEF ReadForRedeem
<1>6. ASSUME NEW f \in flight, ApproveByGrant(f) PROVE OnceServed'
  <2>1. PICK n, e : /\ e = Granting(f, n)
                    /\ flight' = (flight \ {f}) \cup {e} /\ f.op = "approve"
    BY <1>6 DEF ApproveByGrant, Granting
  <2>2. e.req = f.req
    BY <1>0, <2>1, ApproveReadOn
  <2>3. QED BY <1>0, <1>6, <2>1, <2>2, ReadOnOnce DEF ApproveByGrant
<1>7. ASSUME NEW f \in flight, CommitRedeem(f) \/ CommitTrial(f) \/ LoseRequest(f) PROVE OnceServed'
  <2>1. \A a \in audit' : a \in audit \/ a.req = f.req
    BY <1>7 DEF CommitRedeem, CommitTrial, LoseRequest, AuditedOrStopped, Audited
  <2>2. Leave(f) /\ upgrade' = upgrade
    BY <1>7 DEF CommitRedeem, CommitTrial, LoseRequest
  <2>3. \A q1, q2 \in upgrade : q1.id = q2.id => q1 = q2
    BY <1>0 DEF OnceServed
  <2>4. QED BY <1>0, <2>1, <2>2, <2>3, LeaveOnce
<1>8. ASSUME NEW f \in flight, CommitAsk(f) PROVE OnceServed'
  <2>1. Leave(f) /\ \A a \in audit' : a \in audit \/ a.req = f.req
    BY <1>8 DEF CommitAsk, AuditedOrStopped, Audited
  <2>2. PICK n : n.id = f.req /\ upgrade' = upgrade \cup {n}
    BY <1>8 DEF CommitAsk
  <2>3. \A q1, q2 \in upgrade' : q1.id = q2.id => q1 = q2
    BY <1>0, <2>2 DEF OnceServed
  <2>4. QED BY <1>0, <2>1, <2>2, <2>3, LeaveOnce
<1>9. ASSUME NEW f \in flight, CommitReject(f) \/ CommitGrant(f) PROVE OnceServed'
  <2>1. Leave(f) /\ \A a \in audit' : a \in audit \/ a.req = f.req
    BY <1>9 DEF CommitReject, CommitGrant, AuditedOrStopped, Audited
  <2>2. \A q \in upgrade : [q EXCEPT !.status = "REJECTED"].id = q.id /\ [q EXCEPT !.status = "APPROVED"].id = q.id
    BY <1>0, StatusOnly
  <2>3. CASE CommitReject(f)
    <3>1. \A x \in upgrade' : \E q \in upgrade :
            x = IF q.id = f.about THEN [q EXCEPT !.status = "REJECTED"] ELSE q
      BY <2>3 DEF CommitReject
    <3>2. ASSUME NEW x \in upgrade' PROVE \E q \in upgrade : x.id = q.id
      <4>1. PICK q \in upgrade : x = IF q.id = f.about THEN [q EXCEPT !.status = "REJECTED"] ELSE q
        BY <3>1
      <4>2. x.id = q.id
        BY <2>2, <4>1
      <4>3. QED BY <4>2
    <3>3. ASSUME NEW x1 \in upgrade', NEW x2 \in upgrade', x1.id = x2.id PROVE x1 = x2
      <4>1. PICK q1 \in upgrade : x1 = IF q1.id = f.about THEN [q1 EXCEPT !.status = "REJECTED"] ELSE q1
        BY <3>1
      <4>2. PICK q2 \in upgrade : x2 = IF q2.id = f.about THEN [q2 EXCEPT !.status = "REJECTED"] ELSE q2
        BY <3>1
      <4>3. q1.id = x1.id /\ q2.id = x2.id
        BY <2>2, <4>1, <4>2
      <4>4. q1 = q2
        BY <1>0, <3>3, <4>3 DEF OnceServed
      <4>5. QED BY <4>1, <4>2, <4>4
    <3>4. QED BY <1>0, <2>1, <3>2, <3>3, LeaveOnce
  <2>4. CASE CommitGrant(f)
    <3>1. \A x \in upgrade' : \E q \in upgrade :
            x = IF Pending(q, f.user) THEN [q EXCEPT !.status = "APPROVED"] ELSE q
      BY <2>4 DEF CommitGrant, ApprovedPending
    <3>2. ASSUME NEW x \in upgrade' PROVE \E q \in upgrade : x.id = q.id
      <4>1. PICK q \in upgrade : x = IF Pending(q, f.user) THEN [q EXCEPT !.status = "APPROVED"] ELSE q
        BY <3>1
      <4>2. x.id = q.id
        BY <2>2, <4>1
      <4>3. QED BY <4>2
    <3>3. ASSUME NEW x1 \in upgrade', NEW x2 \in upgrade', x1.id = x2.id PROVE x1 = x2
      <4>1. PICK q1 \in upgrade : x1 = IF Pending(q1, f.user) THEN [q1 EXCEPT !.status = "APPROVED"] ELSE q1
        BY <3>1
      <4>2. PICK q2 \in upgrade : x2 = IF Pending(q2, f.user) THEN [q2 EXCEPT !.status = "APPROVED"] ELSE q2
        BY <3>1
      <4>3. q1.id = x1.id /\ q2.id = x2.id
        BY <2>2, <4>1, <4>2
      <4>4. q1 = q2
        BY <1>0, <3>3, <4>3 DEF OnceServed
      <4>5. QED BY <4>1, <4>2, <4>4
    <3>4. QED BY <1>0, <2>1, <3>2, <3>3, LeaveOnce
  <2>5. QED BY <1>9, <2>3, <2>4
<1>10. QED
  BY <1>1, <1>2, <1>3, <1>4, <1>5, <1>6, <1>7, <1>8, <1>9 DEF Next

LEMMA OnceInit == Init => OnceInv
BY TypeInit DEF Init, OnceInv, OnceServed

-----------------------------------------------------------------------------
(* Only an existing code is counted, and only with its audit entry. *)
Counted ==
  /\ IsFiniteSet(audit)
  /\ PromoCountIsBacked
  /\ \A p \in Promos : ~promo[p].created => promo[p].used = 0
  /\ \A f \in flight : f.op \in {"redeem-read", "redeem"} => promo[f.about].created

(* Nothing else that is recorded is counted as a redemption. *)
LEMMA OtherAudit ==
  ASSUME Counted, NEW a, NEW r, NEW about, a # "PROMO_REDEEMED",
         AuditedOrStopped(a, r, about)
  PROVE  IsFiniteSet(audit') /\ \A p \in Promos : Redemptions(p)' = Redemptions(p)
<1>1. IsFiniteSet(audit')
  BY FS_AddElement DEF Counted, AuditedOrStopped, Audited
<1>2. ASSUME NEW p \in Promos PROVE Redemptions(p)' = Redemptions(p)
  BY DEF AuditedOrStopped, Audited, Redemptions
<1>3. QED BY <1>1, <1>2

LEMMA SameCount ==
  ASSUME Counted, UNCHANGED promo, IsFiniteSet(audit'),
         \A p \in Promos : Redemptions(p)' = Redemptions(p),
         \A f \in flight' : f.op \in {"redeem-read", "redeem"} => promo[f.about].created
  PROVE  Counted'
BY DEF Counted, PromoCountIsBacked

LEMMA CountStep == OnceInv /\ Counted /\ [Next]_vars => Counted'
<1> SUFFICES ASSUME OnceInv, Counted, [Next]_vars PROVE Counted'
  OBVIOUS
<1>0. TypeOK /\ OnceServed /\ IsFiniteSet(audit) /\
      \A f \in flight : f.op \in {"redeem-read", "redeem"} => promo[f.about].created
  BY DEF OnceInv, Counted
<1>1. ASSUME UNCHANGED <<promo, audit>>,
             \A f \in flight' : f.op \in {"redeem-read", "redeem"} => promo[f.about].created
      PROVE  Counted'
  BY <1>0, <1>1, SameCount DEF Redemptions
<1>2. ASSUME Tick \/ UNCHANGED vars PROVE Counted'
  BY <1>0, <1>1, <1>2 DEF Tick, vars
<1>3. ASSUME NEW p \in Promos, NEW plan \in PaidPlan, NEW e \in Expiries, CreatePromo(p, plan, e)
      PROVE  Counted'
  <2>1. /\ promo'[p].created /\ promo'[p].used = 0 /\ promo[p].used = 0
        /\ \A q \in Promos : q # p => promo'[q] = promo[q]
    BY <1>0, <1>3 DEF CreatePromo, TypeOK, Counted
  <2>2. audit' = audit /\ flight' = flight
    BY <1>3 DEF CreatePromo
  <2>3. \A q \in Promos : Redemptions(q)' = Redemptions(q)
    BY <2>2 DEF Redemptions
  <2>4. \A q \in Promos : promo'[q].used = promo[q].used /\ (promo[q].created => promo'[q].created)
    BY <2>1
  <2>5. \A f \in flight : f.op \in {"redeem-read", "redeem"} => promo'[f.about].created
    BY <1>0, <2>4, FlightTypes
  <2>6. \A q \in Promos : ~promo'[q].created => promo'[q].used = 0
    BY <2>1, <2>4 DEF Counted
  <2>7. QED BY <2>2, <2>3, <2>4, <2>5, <2>6 DEF Counted, PromoCountIsBacked
<1>4. ASSUME NEW r \in Reqs, NEW u \in Users, NEW p \in Promos, BeginRedeem(r, u, p) PROVE Counted'
  <2>1. PICK e : e.about = p /\ flight' = flight \cup {e}
    BY <1>4 DEF BeginRedeem, Enter
  <2>2. promo[p].created
    BY <1>4 DEF BeginRedeem
  <2>3. UNCHANGED <<promo, audit>>
    BY <1>4 DEF BeginRedeem, Enter
  <2>4. QED BY <1>0, <1>1, <2>1, <2>2, <2>3
<1>5. ASSUME NEW r \in Reqs, NEW op \in {"trial", "ask", "grant", "approve", "reject"},
             NEW u, NEW about, NEW row, Enter(r, op, u, about, row)
      PROVE  Counted'
  <2>1. PICK e : e.op = op /\ flight' = flight \cup {e}
    BY <1>5 DEF Enter
  <2>2. e.op \notin {"redeem-read", "redeem"}
    BY <2>1
  <2>3. UNCHANGED <<promo, audit>>
    BY <1>5 DEF Enter
  <2>4. QED BY <1>0, <1>1, <2>1, <2>2, <2>3
<1>6. ASSUME NEW r \in Reqs, NEW u \in Users,
             \/ BeginTrial(r, u)
             \/ \E plan \in PaidPlan : BeginAsk(r, u, plan)
             \/ \E plan \in PaidPlan, length \in AdminLengths : BeginGrant(r, u, plan, length)
      PROVE  Counted'
  BY <1>5, <1>6 DEF BeginTrial, BeginAsk, BeginGrant
<1>7. ASSUME NEW r \in Reqs, NEW q \in upgrade, NEW op \in {"approve", "reject"}, BeginReview(r, q, op)
      PROVE  Counted'
  BY <1>5, <1>7 DEF BeginReview
<1>8. ASSUME NEW f \in flight, ReadForRedeem(f) PROVE Counted'
  <2>1. PICK n, e : /\ e = [f EXCEPT !.op = "redeem", !.row.end = n]
                    /\ flight' = (flight \ {f}) \cup {e} /\ f.op = "redeem-read"
    BY <1>8 DEF ReadForRedeem
  <2>2. f \in Redeeming
    BY <1>0, <2>1, FlightTypes
  <2>3. e.about = f.about
    BY <2>1, <2>2 DEF Redeeming
  <2>4. UNCHANGED <<promo, audit>>
    BY <1>8 DEF ReadForRedeem
  <2>5. QED BY <1>0, <1>1, <2>1, <2>3, <2>4
<1>9. ASSUME NEW f \in flight, ApproveByGrant(f) PROVE Counted'
  <2>1. PICK n, e : /\ e = Granting(f, n)
                    /\ flight' = (flight \ {f}) \cup {e} /\ f.op = "approve"
    BY <1>9 DEF ApproveByGrant, Granting
  <2>2. e.op = "grant"
    BY <1>0, <2>1, ApproveReadOn
  <2>3. UNCHANGED <<promo, audit>>
    BY <1>9 DEF ApproveByGrant
  <2>4. QED BY <1>0, <1>1, <2>1, <2>2, <2>3
<1>10. ASSUME NEW f \in flight, CommitRedeem(f) PROVE Counted'
  <2> DEFINE p == f.about
             a == [action |-> "PROMO_REDEEMED", req |-> f.req, about |-> p]
  <2>1. p \in Promos /\ promo[p].created
    BY <1>0, <1>10, FlightTypes DEF CommitRedeem
  <2>2. audit' = audit \cup {a} /\ a \notin audit
    BY <1>0, <1>10 DEF CommitRedeem, Audited, OnceServed
  <2>3. /\ promo'[p].used = promo[p].used + 1
        /\ \A q \in Promos : promo'[q].created = promo[q].created /\ (q # p => promo'[q] = promo[q])
    BY <1>0, <1>10, <2>1 DEF CommitRedeem, TypeOK, Promo
  <2>4. IsFiniteSet(audit') /\ IsFiniteSet(Redemptions(p))
    BY <1>0, <2>2, FS_AddElement, FS_Subset DEF Redemptions
  <2>5. Redemptions(p)' = Redemptions(p) \cup {a} /\ a \notin Redemptions(p)
    BY <2>2 DEF Redemptions
  <2>6. Cardinality(Redemptions(p)') = Cardinality(Redemptions(p)) + 1
    <3>1. Cardinality(Redemptions(p) \cup {a}) = Cardinality(Redemptions(p)) + 1
      <4> HIDE DEF a
      <4>1. QED BY <2>4, <2>5, FS_AddElement
    <3>2. QED BY <2>5, <3>1
  <2>7. \A q \in Promos : q # p => Redemptions(q)' = Redemptions(q)
    BY <2>2 DEF Redemptions
  <2>8. PromoCountIsBacked'
    BY <2>3, <2>6, <2>7 DEF Counted, PromoCountIsBacked
  <2>9. flight' \subseteq flight
    BY <1>10 DEF CommitRedeem, Leave
  <2>10. \A x \in flight' : x.op \in {"redeem-read", "redeem"} => promo'[x.about].created
    BY <1>0, <2>3, <2>9, FlightTypes
  <2>11. \A q \in Promos : ~promo'[q].created => promo'[q].used = 0
    BY <2>1, <2>3 DEF Counted
  <2>12. QED BY <2>4, <2>8, <2>10, <2>11 DEF Counted
<1>11. ASSUME NEW f \in flight, CommitTrial(f) \/ CommitAsk(f) \/ CommitReject(f) \/ CommitGrant(f)
       PROVE  Counted'
  <2>1. PICK a, r, about : a # "PROMO_REDEEMED" /\ AuditedOrStopped(a, r, about)
    BY <1>11 DEF CommitTrial, CommitAsk, CommitReject, CommitGrant, AuditedOrStopped
  <2>2. promo' = promo /\ flight' \subseteq flight
    BY <1>11 DEF CommitTrial, CommitAsk, CommitReject, CommitGrant, Leave
  <2>3. QED BY <1>0, <2>1, <2>2, OtherAudit, SameCount
<1>12. ASSUME NEW f \in flight, LoseRequest(f) PROVE Counted'
  BY <1>0, <1>1, <1>12 DEF LoseRequest, Leave
<1>13. ASSUME NEW r \in Reqs, NEW u \in Users, Revoke(r, u) PROVE Counted'
  <2>1. AuditedOrStopped("SUBSCRIPTION_REVOKED", r, r) /\ promo' = promo /\ flight' = flight
    BY <1>13 DEF Revoke
  <2>2. IsFiniteSet(audit') /\ \A p \in Promos : Redemptions(p)' = Redemptions(p)
    BY <2>1, OtherAudit
  <2>3. QED BY <1>0, <2>1, <2>2, SameCount
<1>14. QED
  BY <1>2, <1>3, <1>4, <1>6, <1>7, <1>8, <1>9, <1>10, <1>11, <1>12, <1>13 DEF Next

LEMMA CountInit == Init => Counted
<1> SUFFICES ASSUME Init PROVE Counted
  OBVIOUS
<1>1. audit = {} /\ flight = {} /\ \A p \in Promos : promo[p].used = 0
  BY DEF Init
<1>2. IsFiniteSet(audit) /\ \A p \in Promos : Cardinality(Redemptions(p)) = 0
  BY <1>1, FS_EmptySet DEF Redemptions
<1>3. QED BY <1>1, <1>2 DEF Counted, PromoCountIsBacked

LEMMA OnceInvariant == Spec => [](OnceInv /\ Counted)
<1>1. OnceInv /\ Counted /\ [Next]_vars => (OnceInv /\ Counted)'
  BY TypeStep, OnceStep, CountStep DEF OnceInv
<1>2. QED BY <1>1, OnceInit, CountInit, PTL DEF Spec

(* used_count of every promo code is the number of its redemptions, however *)
(* many requests overlap or stop.                                           *)
THEOREM PromoCounted == Spec => []PromoCountIsBacked
<1>1. OnceInv /\ Counted => PromoCountIsBacked
  BY DEF Counted
<1>2. QED BY <1>1, OnceInvariant, PTL

-----------------------------------------------------------------------------
(* A trial that was had and not revoked leaves a paid plan behind, for     *)
(* good: an end that has passed does not put the plan back to FREE.        *)
TrialsArePremium == \A u \in Users : trials[u] >= 1 => sub[u].plan # "FREE"

LEMMA TrialsStep == TypeOK /\ TrialsArePremium /\ [Next]_vars => TrialsArePremium'
<1> SUFFICES ASSUME TypeOK, TrialsArePremium, [Next]_vars PROVE TrialsArePremium'
  OBVIOUS
<1>1. CASE UNCHANGED <<sub, trials>>
  BY <1>1 DEF TrialsArePremium
<1>2. ASSUME NEW f \in flight, CommitRedeem(f) \/ CommitTrial(f) \/ CommitGrant(f) PROVE TrialsArePremium'
  <2>1. f.user \in Users /\ f.row.plan # "FREE"
    BY FlightTypes DEF PaidRow, PaidPlan
  <2>2. sub'[f.user].plan # "FREE" /\ \A u \in Users : u # f.user => sub'[u] = sub[u]
    BY <1>2, <2>1 DEF CommitRedeem, CommitTrial, CommitGrant, TypeOK
  <2>3. \A u \in Users : u # f.user => trials'[u] = trials[u]
    BY <1>2, <2>1 DEF CommitRedeem, CommitTrial, CommitGrant, TypeOK
  <2>4. QED BY <2>2, <2>3 DEF TrialsArePremium
<1>3. ASSUME NEW r \in Reqs, NEW u \in Users, Revoke(r, u) PROVE TrialsArePremium'
  <2>1. trials'[u] = 0 /\ \A v \in Users : v # u => trials'[v] = trials[v] /\ sub'[v] = sub[v]
    BY <1>3 DEF Revoke, TypeOK
  <2>2. QED BY <2>1 DEF TrialsArePremium
<1>4. QED
  BY <1>1, <1>2, <1>3 DEF Next, vars, Tick, CreatePromo, BeginRedeem, BeginTrial, BeginAsk, BeginGrant,
     BeginReview, Enter, ReadForRedeem, ApproveByGrant, CommitAsk, CommitReject, LoseRequest

(* What a request has read, while nobody else is in flight, is still so. *)
ReadStillHolds(f) ==
  /\ f.op \in {"redeem-read", "redeem"} => promo[f.about].used < MaxUses
  /\ f.op = "redeem" => f.row.end >= sub[f.user].end + PromoLength
  /\ f.op = "trial" => sub[f.user].plan = "FREE"
  /\ f.op = "ask" => \A q \in upgrade : Pending(q, f.user) => q.plan # f.row.plan
  /\ f.op \in {"approve", "reject"} => \E q \in upgrade : q.id = f.about /\ Pending(q, f.user)
  /\ f.row.source = "TELEBIRR" => f.op = "grant" /\ \E q \in upgrade : Pending(q, f.user)

Alone ==
  ~overlapped => /\ \A f, g \in flight : f = g
                 /\ \A f \in flight : ReadStillHolds(f)

SerialInv == OnceInv /\ TrialsArePremium /\ Alone /\ ChecksHold

(* A request that enters alone, having read what holds. *)
LEMMA EnterSerial ==
  ASSUME SerialInv, NEW r \in Reqs, NEW op, NEW u, NEW about, NEW row, Enter(r, op, u, about, row),
         ReadStillHolds([req |-> r, op |-> op, user |-> u, about |-> about, row |-> row])
  PROVE  Alone' /\ ChecksHold'
<1> DEFINE e == [req |-> r, op |-> op, user |-> u, about |-> about, row |-> row]
<1>1. UNCHANGED <<sub, promo, upgrade, trials>> /\ flight' = flight \cup {e}
      /\ overlapped' = (overlapped \/ flight # {})
  BY DEF Enter, Receive
<1>2. ReadStillHolds(e)'
  BY <1>1 DEF ReadStillHolds, Pending
<1>3. Alone'
  <2> HIDE DEF e
  <2>1. QED BY <1>1, <1>2 DEF Alone
<1>4. ChecksHold'
  BY <1>1, ZenonT(60) DEF SerialInv, ChecksHold, WithinPromoLimit, OneTrial, PaidWasApproved, OnePendingPerPlan, Pending
<1>5. QED BY <1>3, <1>4

(* A request that reads on. *)
LEMMA ReadOnSerial ==
  ASSUME SerialInv, NEW f \in flight, NEW e, flight' = (flight \ {f}) \cup {e},
         UNCHANGED <<sub, promo, upgrade, trials, overlapped>>, ~overlapped => ReadStillHolds(e)
  PROVE  Alone' /\ ChecksHold'
<1>1. ~overlapped => flight' = {e} /\ ReadStillHolds(e)'
  BY DEF SerialInv, Alone, ReadStillHolds, Pending
<1>2. ChecksHold'
  BY DEF SerialInv, ChecksHold, WithinPromoLimit, OneTrial, PaidWasApproved, OnePendingPerPlan, Pending
<1>3. QED BY <1>1, <1>2 DEF Alone

(* A request that leaves was alone. *)
LEMMA LeaveSerial ==
  ASSUME SerialInv, NEW f \in flight, Leave(f), ~overlapped => ChecksHold'
  PROVE  Alone' /\ ChecksHold'
<1>1. overlapped' = overlapped /\ (~overlapped => flight' = {})
  BY DEF SerialInv, Alone, Leave
<1>2. ChecksHold'
  BY <1>1 DEF ChecksHold, WithinPromoLimit, OneTrial, PaidWasApproved, OnePendingPerPlan
<1>3. QED BY <1>1, <1>2 DEF Alone

LEMMA SerialStep == SerialInv /\ [Next]_vars => Alone' /\ ChecksHold'
<1> SUFFICES ASSUME SerialInv, [Next]_vars PROVE Alone' /\ ChecksHold'
  OBVIOUS
<1> USE LengthAssumption
<1>0. TypeOK /\ OnceServed /\ TrialsArePremium /\ Alone /\ ChecksHold
  BY DEF SerialInv, OnceInv
<1>1. ASSUME Tick \/ UNCHANGED vars PROVE Alone' /\ ChecksHold'
  BY <1>0, <1>1 DEF Tick, vars, Alone, ReadStillHolds, ChecksHold, WithinPromoLimit, OneTrial,
                    PaidWasApproved, OnePendingPerPlan, Pending
<1>2. ASSUME NEW p \in Promos, NEW plan \in PaidPlan, NEW e \in Expiries, CreatePromo(p, plan, e)
      PROVE  Alone' /\ ChecksHold'
  <2>1. promo'[p].used = 0 /\ \A q \in Promos : q # p => promo'[q] = promo[q]
    BY <1>0, <1>2 DEF CreatePromo, TypeOK
  <2>2. UNCHANGED <<sub, upgrade, flight, overlapped, trials>>
    BY <1>2 DEF CreatePromo
  <2>3. \A f \in flight : f.op \in {"redeem-read", "redeem"} => f.about \in Promos
    BY <1>0, FlightTypes
  <2>4. Alone'
    BY <1>0, <2>1, <2>2, <2>3 DEF Alone, ReadStillHolds, Pending
  <2>5. ChecksHold'
    BY <1>0, <2>1, <2>2 DEF ChecksHold, WithinPromoLimit, OneTrial, PaidWasApproved, OnePendingPerPlan, Pending
  <2>6. QED BY <2>4, <2>5
<1>3. ASSUME NEW r \in Reqs, NEW u \in Users, NEW p \in Promos, BeginRedeem(r, u, p)
      PROVE  Alone' /\ ChecksHold'
  <2>1. ReadStillHolds([req |-> r, op |-> "redeem-read", user |-> u, about |-> p,
                        row |-> [plan |-> promo[p].plan, source |-> "PROMO", end |-> 0]])
    BY <1>3 DEF BeginRedeem, LeftToUse, ReadStillHolds
  <2>2. QED BY <1>3, <2>1, EnterSerial DEF BeginRedeem
<1>4. ASSUME NEW r \in Reqs, NEW u \in Users, BeginTrial(r, u) PROVE Alone' /\ ChecksHold'
  <2>1. ReadStillHolds([req |-> r, op |-> "trial", user |-> u, about |-> r,
          row |-> [plan |-> "PREMIUM_MONTHLY", source |-> "SIGNUP_TRIAL", end |-> now + TrialLength]])
    BY <1>4 DEF BeginTrial, Eligible, ReadStillHolds
  <2>2. QED BY <1>4, <2>1, EnterSerial DEF BeginTrial
<1>5. ASSUME NEW r \in Reqs, NEW u \in Users, NEW plan \in PaidPlan, BeginAsk(r, u, plan)
      PROVE  Alone' /\ ChecksHold'
  <2>1. [FreeRow EXCEPT !.plan = plan].plan = plan /\ [FreeRow EXCEPT !.plan = plan].source = "NONE"
    BY DEF FreeRow
  <2>2. ReadStillHolds([req |-> r, op |-> "ask", user |-> u, about |-> r, row |-> [FreeRow EXCEPT !.plan = plan]])
    BY <1>5, <2>1 DEF BeginAsk, ReadStillHolds
  <2>3. QED BY <1>5, <2>2, EnterSerial DEF BeginAsk
<1>6. ASSUME NEW r \in Reqs, NEW u \in Users, NEW plan \in PaidPlan, NEW length \in AdminLengths,
             BeginGrant(r, u, plan, length)
      PROVE  Alone' /\ ChecksHold'
  <2>1. ReadStillHolds([req |-> r, op |-> "grant", user |-> u, about |-> r,
          row |-> [plan |-> plan, source |-> "ADMIN", end |-> now + length]])
    BY DEF ReadStillHolds
  <2>2. QED BY <1>6, <2>1, EnterSerial DEF BeginGrant
<1>7. ASSUME NEW r \in Reqs, NEW q \in upgrade, NEW op \in {"approve", "reject"}, BeginReview(r, q, op)
      PROVE  Alone' /\ ChecksHold'
  <2>1. [FreeRow EXCEPT !.plan = q.plan].source = "NONE" /\ Pending(q, q.user)
    BY <1>7 DEF FreeRow, BeginReview, Pending
  <2>2. ReadStillHolds([req |-> r, op |-> op, user |-> q.user, about |-> q.id, row |-> [FreeRow EXCEPT !.plan = q.plan]])
    BY <2>1 DEF ReadStillHolds
  <2>3. QED BY <1>7, <2>2, EnterSerial DEF BeginReview
<1>8. ASSUME NEW r \in Reqs, NEW u \in Users, Revoke(r, u) PROVE Alone' /\ ChecksHold'
  <2>1. /\ overlapped' = (overlapped \/ flight # {}) /\ flight' = flight
        /\ promo' = promo /\ upgrade' = upgrade
    BY <1>8 DEF Revoke, Receive
  <2>2. sub'[u].source = "ADMIN" /\ \A v \in Users : v # u => sub'[v] = sub[v]
    BY <1>0, <1>8 DEF Revoke, RevokedRow, TypeOK
  <2>3. trials'[u] = 0 /\ \A v \in Users : v # u => trials'[v] = trials[v]
    BY <1>0, <1>8 DEF Revoke, TypeOK
  <2>4. Alone'
    BY <2>1 DEF Alone
  <2>5. ASSUME ~overlapped' PROVE WithinPromoLimit' /\ OneTrial' /\ PaidWasApproved' /\ OnePendingPerPlan'
    <3>1. WithinPromoLimit /\ OneTrial /\ PaidWasApproved /\ OnePendingPerPlan
      BY <1>0, <2>1, <2>5 DEF ChecksHold
    <3>2. WithinPromoLimit' /\ OnePendingPerPlan'
      BY <2>1, <3>1 DEF WithinPromoLimit, OnePendingPerPlan, Pending
    <3>3. ASSUME NEW v \in Users PROVE trials'[v] <= 1
      <4>1. trials[v] <= 1
        BY <3>1 DEF OneTrial
      <4>2. QED BY <2>3, <4>1
    <3>4. PaidWasApproved'
      BY <2>1, <2>2, <3>1 DEF PaidWasApproved
    <3>5. QED BY <3>2, <3>3, <3>4 DEF OneTrial
  <2>6. QED BY <2>4, <2>5 DEF ChecksHold
<1>9. ASSUME NEW f \in flight, ReadForRedeem(f) PROVE Alone' /\ ChecksHold'
  <2>1. PICK n, e : /\ n = StartOf(f.user) + PromoLength
                    /\ e = [f EXCEPT !.op = "redeem", !.row.end = n]
                    /\ flight' = (flight \ {f}) \cup {e} /\ f.op = "redeem-read"
                    /\ UNCHANGED <<sub, promo, upgrade, trials, overlapped>>
    BY <1>9 DEF ReadForRedeem
  <2>2. f.user \in Users /\ f \in Redeeming
    BY <1>0, <2>1, FlightTypes
  <2>3. /\ e.op = "redeem" /\ e.user = f.user /\ e.about = f.about
        /\ e.row.end = n /\ e.row.source = f.row.source
    BY <2>1, <2>2 DEF Redeeming, PaidRow
  <2>4. n >= sub[f.user].end + PromoLength
    <3>1. sub[f.user].end \in Nat /\ StartOf(f.user) \in Nat /\ StartOf(f.user) >= sub[f.user].end
      BY <1>0, <2>2, StartType, RowType DEF TypeOK
    <3>2. QED BY <2>1, <3>1
  <2>5. ~overlapped => ReadStillHolds(e)
    BY <1>0, <2>1, <2>3, <2>4 DEF Alone, ReadStillHolds
  <2>6. QED BY <2>1, <2>5, ReadOnSerial
<1>10. ASSUME NEW f \in flight, ApproveByGrant(f) PROVE Alone' /\ ChecksHold'
  <2>1. PICK n, e : /\ e = Granting(f, n)
                    /\ flight' = (flight \ {f}) \cup {e} /\ f.op = "approve"
                    /\ UNCHANGED <<sub, promo, upgrade, trials, overlapped>>
    BY <1>10 DEF ApproveByGrant, Granting
  <2>2. e.op = "grant" /\ e.user = f.user
    BY <1>0, <2>1, ApproveReadOn
  <2>3. ~overlapped => \E q \in upgrade : Pending(q, f.user)
    BY <1>0, <2>1 DEF Alone, ReadStillHolds
  <2>4. ~overlapped => ReadStillHolds(e)
    BY <2>2, <2>3 DEF ReadStillHolds
  <2>5. QED BY <2>1, <2>4, ReadOnSerial
<1>11. ASSUME NEW f \in flight, LoseRequest(f) PROVE Alone' /\ ChecksHold'
  <2>1. Leave(f) /\ UNCHANGED <<sub, promo, upgrade, trials>> /\ overlapped' = overlapped
    BY <1>11 DEF LoseRequest, Leave
  <2>2. ChecksHold'
    BY <1>0, <2>1 DEF ChecksHold, WithinPromoLimit, OneTrial, PaidWasApproved, OnePendingPerPlan, Pending
  <2>3. QED BY <2>1, <2>2, LeaveSerial
<1>12. ASSUME NEW f \in flight, CommitRedeem(f) PROVE Alone' /\ ChecksHold'
  <2>1. f.about \in Promos /\ f.user \in Users /\ f.row \in PaidRow
    BY <1>0, <1>12, FlightTypes DEF CommitRedeem
  <2>2. /\ promo'[f.about].used = promo[f.about].used + 1 /\ promo[f.about].used \in Nat
        /\ \A q \in Promos : q # f.about => promo'[q] = promo[q]
    BY <1>0, <1>12, <2>1 DEF CommitRedeem, TypeOK, Promo
  <2>3. sub'[f.user] = f.row /\ \A v \in Users : v # f.user => sub'[v] = sub[v]
    BY <1>0, <1>12, <2>1 DEF CommitRedeem, TypeOK
  <2>4. Leave(f) /\ overlapped' = overlapped /\ trials' = trials /\ upgrade' = upgrade
    BY <1>12 DEF CommitRedeem, Leave
  <2>5. ASSUME ~overlapped PROVE ChecksHold'
    <3>1. promo[f.about].used < MaxUses /\ f.row.source # "TELEBIRR"
      BY <1>0, <1>12, <2>5 DEF Alone, ReadStillHolds, CommitRedeem
    <3>2. WithinPromoLimit'
      BY <1>0, <2>2, <2>5, <3>1 DEF ChecksHold, WithinPromoLimit
    <3>3. PaidWasApproved'
      BY <1>0, <2>3, <2>4, <2>5, <3>1 DEF ChecksHold, PaidWasApproved
    <3>4. OneTrial' /\ OnePendingPerPlan'
      BY <1>0, <2>4, <2>5 DEF ChecksHold, OneTrial, OnePendingPerPlan, Pending
    <3>5. QED BY <3>2, <3>3, <3>4 DEF ChecksHold
  <2>6. QED BY <2>4, <2>5, LeaveSerial
<1>13. ASSUME NEW f \in flight, CommitTrial(f) PROVE Alone' /\ ChecksHold'
  <2>1. f.user \in Users
    BY <1>0, FlightTypes
  <2>2. /\ trials'[f.user] = trials[f.user] + 1 /\ trials[f.user] \in Nat
        /\ \A v \in Users : v # f.user => trials'[v] = trials[v]
    BY <1>0, <1>13, <2>1 DEF CommitTrial, TypeOK
  <2>3. sub'[f.user] = f.row /\ \A v \in Users : v # f.user => sub'[v] = sub[v]
    BY <1>0, <1>13, <2>1 DEF CommitTrial, TypeOK
  <2>4. Leave(f) /\ overlapped' = overlapped /\ promo' = promo /\ upgrade' = upgrade
    BY <1>13 DEF CommitTrial, Leave
  <2>5. ASSUME ~overlapped PROVE ChecksHold'
    <3>1. sub[f.user].plan = "FREE" /\ f.row.source # "TELEBIRR"
      BY <1>0, <1>13, <2>5 DEF Alone, ReadStillHolds, CommitTrial
    <3>2. trials[f.user] = 0
      BY <1>0, <2>1, <2>2, <3>1 DEF TrialsArePremium
    <3>3. OneTrial'
      BY <1>0, <2>2, <2>5, <3>2 DEF ChecksHold, OneTrial
    <3>4. PaidWasApproved'
      BY <1>0, <2>3, <2>4, <2>5, <3>1 DEF ChecksHold, PaidWasApproved
    <3>5. WithinPromoLimit' /\ OnePendingPerPlan'
      BY <1>0, <2>4, <2>5 DEF ChecksHold, WithinPromoLimit, OnePendingPerPlan, Pending
    <3>6. QED BY <3>3, <3>4, <3>5 DEF ChecksHold
  <2>6. QED BY <2>4, <2>5, LeaveSerial
<1>14. ASSUME NEW f \in flight, CommitAsk(f) PROVE Alone' /\ ChecksHold'
  <2>1. PICK n : /\ n = [id |-> f.req, user |-> f.user, plan |-> f.row.plan, status |-> "PENDING"]
                 /\ upgrade' = upgrade \cup {n}
    BY <1>14 DEF CommitAsk
  <2>2. n.id = f.req /\ n.user = f.user /\ n.plan = f.row.plan /\ n.status = "PENDING"
    BY <2>1
  <2>3. Leave(f) /\ overlapped' = overlapped /\ UNCHANGED <<sub, promo, trials>>
    BY <1>14 DEF CommitAsk, Leave
  <2>4. ASSUME ~overlapped PROVE ChecksHold'
    <3>1. \A q \in upgrade : Pending(q, f.user) => q.plan # f.row.plan
      BY <1>0, <1>14, <2>4 DEF Alone, ReadStillHolds, CommitAsk
    <3>2. OnePendingPerPlan'
      BY <1>0, <2>1, <2>2, <2>4, <3>1 DEF ChecksHold, OnePendingPerPlan, Pending
    <3>3. PaidWasApproved'
      BY <1>0, <2>1, <2>3, <2>4 DEF ChecksHold, PaidWasApproved
    <3>4. WithinPromoLimit' /\ OneTrial'
      BY <1>0, <2>3, <2>4 DEF ChecksHold, WithinPromoLimit, OneTrial
    <3>5. QED BY <3>2, <3>3, <3>4 DEF ChecksHold
  <2>5. QED BY <2>3, <2>4, LeaveSerial
<1>15. ASSUME NEW f \in flight, CommitReject(f) PROVE Alone' /\ ChecksHold'
  <2>1. Leave(f) /\ overlapped' = overlapped /\ UNCHANGED <<sub, promo, trials>>
    BY <1>15 DEF CommitReject, Leave
  <2>2. \A q \in upgrade : LET x == [q EXCEPT !.status = "REJECTED"]
                           IN  x.id = q.id /\ x.user = q.user /\ x.plan = q.plan /\ x.status = "REJECTED"
    BY <1>0, StatusOnly
  <2>3. \A x \in upgrade' : \E q \in upgrade :
          x.id = q.id /\ x.user = q.user /\ x.plan = q.plan /\ x.status \in {q.status, "REJECTED"}
    <3>1. SUFFICES ASSUME NEW x \in upgrade'
                   PROVE  \E q \in upgrade : x.id = q.id /\ x.user = q.user /\ x.plan = q.plan
                                             /\ x.status \in {q.status, "REJECTED"}
      OBVIOUS
    <3>2. PICK q \in upgrade : x = IF q.id = f.about THEN [q EXCEPT !.status = "REJECTED"] ELSE q
      BY <1>15 DEF CommitReject
    <3>3. QED BY <2>2, <3>2
  <2>4. ASSUME ~overlapped PROVE ChecksHold'
    <3>1. OnePendingPerPlan'
      BY <1>0, <2>3, <2>4 DEF ChecksHold, OnePendingPerPlan, Pending
    <3>2. \A q \in upgrade : q.status = "APPROVED" => q \in upgrade'
      <4>1. \A q \in upgrade : q.id = f.about => q.status = "PENDING"
        BY <1>0, <1>15, <2>4 DEF Alone, ReadStillHolds, CommitReject, OnceServed, Pending
      <4>2. QED BY <1>15, <4>1 DEF CommitReject
    <3>3. PaidWasApproved'
      BY <1>0, <2>1, <2>4, <3>2 DEF ChecksHold, PaidWasApproved
    <3>4. WithinPromoLimit' /\ OneTrial'
      BY <1>0, <2>1, <2>4 DEF ChecksHold, WithinPromoLimit, OneTrial
    <3>5. QED BY <3>1, <3>3, <3>4 DEF ChecksHold
  <2>5. QED BY <2>1, <2>4, LeaveSerial
<1>16. ASSUME NEW f \in flight, CommitGrant(f) PROVE Alone' /\ ChecksHold'
  <2>1. Leave(f) /\ overlapped' = overlapped /\ UNCHANGED <<promo, trials>>
    BY <1>16 DEF CommitGrant, Leave
  <2>2. f.user \in Users
    BY <1>0, FlightTypes
  <2>3. sub'[f.user] = f.row /\ \A v \in Users : v # f.user => sub'[v] = sub[v]
    BY <1>0, <1>16, <2>2 DEF CommitGrant, TypeOK
  <2>4. \A q \in upgrade : LET x == [q EXCEPT !.status = "APPROVED"]
                           IN  x.id = q.id /\ x.user = q.user /\ x.plan = q.plan /\ x.status = "APPROVED"
    BY <1>0, StatusOnly
  <2>5. \A x \in upgrade' : \E q \in upgrade :
          x.id = q.id /\ x.user = q.user /\ x.plan = q.plan /\ x.status \in {q.status, "APPROVED"}
    <3>1. SUFFICES ASSUME NEW x \in upgrade'
                   PROVE  \E q \in upgrade : x.id = q.id /\ x.user = q.user /\ x.plan = q.plan
                                             /\ x.status \in {q.status, "APPROVED"}
      OBVIOUS
    <3>2. PICK q \in upgrade : x = IF Pending(q, f.user) THEN [q EXCEPT !.status = "APPROVED"] ELSE q
      BY <1>16 DEF CommitGrant, ApprovedPending
    <3>3. QED BY <2>4, <3>2
  <2>6. ASSUME NEW q \in upgrade, q.status = "APPROVED" \/ Pending(q, f.user)
        PROVE  \E x \in upgrade' : x.user = q.user /\ x.status = "APPROVED"
    <3>1. CASE Pending(q, f.user)
      <4>1. [q EXCEPT !.status = "APPROVED"] \in upgrade'
        BY <1>16, <3>1 DEF CommitGrant, ApprovedPending
      <4>2. QED BY <2>4, <4>1
    <3>2. CASE ~Pending(q, f.user)
      <4>1. q \in upgrade'
        BY <1>16, <3>2 DEF CommitGrant, ApprovedPending
      <4>2. QED BY <2>6, <3>2, <4>1
    <3>3. QED BY <3>1, <3>2
  <2>7. ASSUME ~overlapped PROVE ChecksHold'
    <3>1. OnePendingPerPlan'
      BY <1>0, <2>5, <2>7 DEF ChecksHold, OnePendingPerPlan, Pending
    <3>2. ASSUME NEW u \in Users, sub'[u].source = "TELEBIRR"
          PROVE  \E x \in upgrade' : x.user = u /\ x.status = "APPROVED"
      <4>1. CASE u = f.user
        <5>1. PICK q \in upgrade : Pending(q, f.user)
          BY <1>0, <2>3, <2>7, <3>2, <4>1 DEF Alone, ReadStillHolds
        <5>2. q.user = u
          BY <4>1, <5>1 DEF Pending
        <5>3. QED BY <2>6, <5>1, <5>2
      <4>2. CASE u # f.user
        <5>1. PICK q \in upgrade : q.user = u /\ q.status = "APPROVED"
          BY <1>0, <2>3, <2>7, <3>2, <4>2 DEF ChecksHold, PaidWasApproved
        <5>2. QED BY <2>6, <5>1
      <4>3. QED BY <4>1, <4>2
    <3>3. PaidWasApproved'
      BY <3>2 DEF PaidWasApproved
    <3>4. WithinPromoLimit' /\ OneTrial'
      BY <1>0, <2>1, <2>7 DEF ChecksHold, WithinPromoLimit, OneTrial
    <3>5. QED BY <3>1, <3>3, <3>4 DEF ChecksHold
  <2>8. QED BY <2>1, <2>7, LeaveSerial
<1>17. QED
  BY <1>1, <1>2, <1>3, <1>4, <1>5, <1>6, <1>7, <1>8, <1>9, <1>10, <1>11, <1>12, <1>13, <1>14,
     <1>15, <1>16 DEF Next

LEMMA SerialInvariant == Spec => []SerialInv
<1>1. Init => SerialInv
  BY OnceInit, LengthAssumption DEF Init, SerialInv, TrialsArePremium, Alone, ChecksHold, WithinPromoLimit,
     OneTrial, PaidWasApproved, OnePendingPerPlan, FreeRow
<1>2. SerialInv /\ [Next]_vars => SerialInv'
  BY TypeStep, OnceStep, TrialsStep, SerialStep DEF SerialInv, OnceInv
<1>3. QED BY <1>1, <1>2, PTL DEF Spec

(* Requests that do not overlap: codes keep their limit, a user has one    *)
(* trial per revocation and one pending request per plan, and who is       *)
(* premium for a payment was approved.                                     *)
THEOREM ChecksCorrect == Spec => []ChecksHold
<1>1. SerialInv => ChecksHold
  BY DEF SerialInv
<1>2. QED BY <1>1, SerialInvariant, PTL

-----------------------------------------------------------------------------
(* No step changes a decision: a rejected request under any overlap, an    *)
(* approved one while no requests overlap.                                 *)
LEMMA DecisionStep ==
  ASSUME SerialInv, [Next]_vars, NEW q \in upgrade,
         q.status = "REJECTED" \/ (q.status = "APPROVED" /\ ~overlapped)
  PROVE  q \in upgrade'
<1>0. TypeOK /\ Alone /\ OnceServed
  BY DEF SerialInv, OnceInv
<1>1. CASE upgrade \subseteq upgrade'
  BY <1>1
<1>2. ASSUME NEW f \in flight, CommitReject(f) PROVE q \in upgrade'
  <2>1. CASE q.id # f.about
    BY <1>2, <2>1 DEF CommitReject
  <2>2. CASE q.id = f.about /\ q.status = "REJECTED"
    <3>1. [q EXCEPT !.status = "REJECTED"] = q
      BY <1>0, <2>2 DEF TypeOK, Upgrade
    <3>2. QED BY <1>2, <2>2, <3>1 DEF CommitReject
  <2>3. CASE q.id = f.about /\ q.status = "APPROVED" /\ ~overlapped
    <3>1. q.status = "PENDING"
      BY <1>0, <1>2, <2>3 DEF Alone, ReadStillHolds, CommitReject, OnceServed, Pending
    <3>2. QED BY <2>3, <3>1
  <2>4. QED BY <2>1, <2>2, <2>3
<1>3. ASSUME NEW f \in flight, CommitGrant(f) PROVE q \in upgrade'
  <2>1. ~Pending(q, f.user)
    BY DEF Pending
  <2>2. QED BY <1>3, <2>1 DEF CommitGrant, ApprovedPending
<1>4. QED
  BY <1>1, <1>2, <1>3 DEF Next, vars, Tick, CreatePromo, BeginRedeem, BeginTrial, BeginAsk, BeginGrant,
     BeginReview, Enter, ReadForRedeem, ApproveByGrant, CommitAsk, CommitRedeem, CommitTrial, LoseRequest, Revoke

(* A decided upgrade request stays decided as it was.                      *)
THEOREM DecisionsFinal == Spec => DecisionIsFinal
<1>1. SerialInv /\ [Next]_vars =>
        [\A q \in upgrade :
           q.status = "REJECTED" \/ (q.status = "APPROVED" /\ ~overlapped) => q \in upgrade']_vars
  BY DecisionStep
<1>2. QED BY <1>1, SerialInvariant, PTL DEF Spec, DecisionIsFinal

(* The step that counts a redemption is the commit of the one in flight.   *)
LEMMA RedemptionStep ==
  ASSUME SerialInv, [Next]_vars, NEW p \in Promos, ~overlapped, promo'[p].used > promo[p].used
  PROVE  \E u \in Users : /\ sub'[u].end >= sub[u].end + PromoLength
                          /\ \A v \in Users \ {u} : sub'[v] = sub[v]
<1>0. TypeOK /\ Alone
  BY DEF SerialInv, OnceInv
<1>1. CASE promo' = promo
  <2>1. promo[p].used \in Nat
    BY <1>0 DEF TypeOK, Promo
  <2>2. QED BY <1>1, <2>1
<1>2. ASSUME NEW c \in Promos, NEW plan \in PaidPlan, NEW e \in Expiries, CreatePromo(c, plan, e) PROVE FALSE
  <2>1. promo'[c].used = 0 /\ (p # c => promo'[p] = promo[p]) /\ promo[p].used \in Nat
    BY <1>0, <1>2 DEF CreatePromo, TypeOK, Promo
  <2>2. QED BY <2>1
<1>3. ASSUME NEW f \in flight, CommitRedeem(f)
      PROVE  \E u \in Users : /\ sub'[u].end >= sub[u].end + PromoLength
                              /\ \A v \in Users \ {u} : sub'[v] = sub[v]
  <2>1. f.user \in Users
    BY <1>0, FlightTypes
  <2>2. sub'[f.user] = f.row /\ \A v \in Users \ {f.user} : sub'[v] = sub[v]
    BY <1>0, <1>3, <2>1 DEF CommitRedeem, TypeOK
  <2>3. f.row.end >= sub[f.user].end + PromoLength
    BY <1>0, <1>3 DEF Alone, ReadStillHolds, CommitRedeem
  <2>4. QED BY <2>1, <2>2, <2>3
<1>4. QED
  BY <1>1, <1>2, <1>3 DEF Next, vars, Tick, BeginRedeem, BeginTrial, BeginAsk, BeginGrant,
     BeginReview, Enter, ReadForRedeem, ApproveByGrant, CommitAsk, CommitReject, CommitTrial, CommitGrant,
     LoseRequest, Revoke

(* Requests that do not overlap: a code adds its days to all that was left. *)
THEOREM RedemptionsAdd == Spec => RedemptionAddsDays
<1>1. SerialInv /\ [Next]_vars =>
        [\A p \in Promos : ~overlapped /\ promo'[p].used > promo[p].used =>
           \E u \in Users : /\ sub'[u].end >= sub[u].end + PromoLength
                            /\ \A v \in Users \ {u} : sub'[v] = sub[v]]_vars
  BY RedemptionStep
<1>2. QED BY <1>1, SerialInvariant, PTL DEF Spec, RedemptionAddsDays

(* Decisions and the days of redeemed codes are not taken back.            *)
THEOREM DecisionsKept == Spec => DecisionsStand
BY RedemptionsAdd, DecisionsFinal, PTL DEF DecisionsStand
=============================================================================
