----------------------------- MODULE Subscriptions -----------------------------
(***************************************************************************)
(* Who has Premium, and until when: subscription.service.ts.               *)
(*                                                                         *)
(* A user has one row [plan, source, end].  Five operations write it:      *)
(* the trial, a promo code, an admin's grant, an approved Telebirr payment *)
(* and an admin's revocation.  Each computes the row it will write from    *)
(* reads made outside the transaction that writes it, so requests may      *)
(* interleave between the reads and the write, and stop before the write.  *)
(*                                                                         *)
(* No row at all, and the row ensureFreePlan inserts, read the same: FREE  *)
(* with no source and no end.  status is written ACTIVE by every writer    *)
(* and is left out, like PromoCode.active, which nothing ever clears.      *)
(***************************************************************************)
EXTENDS Integers, FiniteSets

CONSTANTS
  Users, Promos,
  Reqs,          \* requests received: each serves one, ever
  MaxUses,       \* promo_codes.max_uses
  TrialLength,   \* TRIAL_DURATION_DAYS
  PromoLength,   \* promo_codes.duration_days
  Month, Year,   \* the default periods of the two plans
  AdminLengths,  \* periods an admin may type
  Expiries,      \* days a promo code may expire after
  MaxTime        \* days the clock counts (a bound of the model)

ASSUME LengthAssumption ==
  /\ {TrialLength, PromoLength, Month, Year} \cup AdminLengths \subseteq Nat \ {0}
  /\ MaxUses \in Nat \ {0} /\ MaxTime \in Nat /\ Expiries \subseteq Nat

PaidPlan == {"PREMIUM_MONTHLY", "PREMIUM_YEARLY"}
Source   == {"NONE", "SIGNUP_TRIAL", "PROMO", "ADMIN", "TELEBIRR"}

(* A subscription row; end 0 is current_period_end IS NULL. *)
PaidRow == [plan : PaidPlan, source : Source, end : Nat]
Row     == [plan : PaidPlan \cup {"FREE"}, source : Source, end : Nat]
FreeRow == [plan |-> "FREE", source |-> "NONE", end |-> 0]

DefaultLength(plan) == IF plan = "PREMIUM_YEARLY" THEN Year ELSE Month

VARIABLES
  now,         \* days passed
  sub,         \* the subscription of each user
  promo,       \* promo_codes
  upgrade,     \* subscription_upgrade_requests; id is the request that made it
  fresh,       \* requests not received yet
  flight,      \* requests between a read and their write
  audit,       \* audit_logs of the module
  overlapped,  \* history: a request came while another was in flight
  trials       \* history: trials of each user since the last revocation

vars == <<now, sub, promo, upgrade, fresh, flight, audit, overlapped, trials>>

Promo   == [created : BOOLEAN, plan : PaidPlan, expires : Nat, used : Nat]
Upgrade == [id : Reqs, user : Users, plan : PaidPlan, status : {"PENDING", "APPROVED", "REJECTED"}]

(* A request in flight: the operation, whom and what it is about, and the  *)
(* row it is going to write.                                               *)
Redeeming == [req : Reqs, op : {"redeem-read", "redeem"}, user : Users, about : Promos, row : PaidRow]
Deciding  == [req : Reqs, op : {"ask", "trial", "approve", "reject", "grant"}, user : Users,
              about : Reqs, row : PaidRow]

Audit ==
  [action : {"PROMO_REDEEMED"}, req : Reqs, about : Promos]
    \cup [action : {"UPGRADE_REQUEST_CREATED", "TRIAL_STARTED", "SUBSCRIPTION_GRANTED",
                    "SUBSCRIPTION_REVOKED", "UPGRADE_REQUEST_REJECTED"}, req : Reqs, about : Reqs]

TypeOK ==
  /\ now \in 0 .. MaxTime
  /\ sub \in [Users -> Row]
  /\ promo \in [Promos -> Promo]
  /\ upgrade \subseteq Upgrade
  /\ fresh \subseteq Reqs
  /\ flight \subseteq Redeeming \cup Deciding
  /\ audit \subseteq Audit
  /\ overlapped \in BOOLEAN
  /\ trials \in [Users -> Nat]

Init ==
  /\ now = 0
  /\ sub = [u \in Users |-> FreeRow]
  /\ promo = [p \in Promos |->
       [created |-> FALSE, plan |-> "PREMIUM_MONTHLY", expires |-> 0, used |-> 0]]
  /\ fresh = Reqs /\ upgrade = {} /\ flight = {} /\ audit = {} /\ overlapped = FALSE
  /\ trials = [u \in Users |-> 0]

-----------------------------------------------------------------------------
Tick ==
  /\ now < MaxTime
  /\ now' = now + 1
  /\ UNCHANGED <<sub, promo, upgrade, fresh, flight, audit, overlapped, trials>>

Receive(r) ==
  /\ r \in fresh
  /\ fresh' = fresh \ {r}
  /\ overlapped' = (overlapped \/ flight # {})

(* A request has read what it decides on, and is going to write. *)
Enter(r, op, u, about, row) ==
  /\ Receive(r)
  /\ flight' = flight \cup {[req |-> r, op |-> op, user |-> u, about |-> about, row |-> row]}
  /\ UNCHANGED <<now, sub, promo, upgrade, audit, trials>>

Leave(f) == flight' = flight \ {f} /\ UNCHANGED <<now, fresh, overlapped>>

Audited(a, r, about) == audit' = audit \cup {[action |-> a, req |-> r, about |-> about]}

(* An audit entry written after the change it reports may never be. *)
AuditedOrStopped(a, r, about) == Audited(a, r, about) \/ UNCHANGED audit

(* The process stops, or the database refuses: nothing is written. *)
LoseRequest(f) == Leave(f) /\ UNCHANGED <<sub, promo, upgrade, audit, trials>>

-----------------------------------------------------------------------------
(* createPromoCode: of two creates the unique index admits one. *)
CreatePromo(p, plan, expires) ==
  /\ ~promo[p].created
  /\ promo' = [promo EXCEPT ![p] = [created |-> TRUE, plan |-> plan, expires |-> expires, used |-> 0]]
  /\ UNCHANGED <<now, sub, upgrade, fresh, flight, audit, overlapped, trials>>

LeftToUse(p) == promo[p].used < MaxUses

(* redeemPromo reads the code ... *)
BeginRedeem(r, u, p) ==
  /\ promo[p].created /\ promo[p].expires >= now /\ LeftToUse(p)
  /\ Enter(r, "redeem-read", u, p, [plan |-> promo[p].plan, source |-> "PROMO", end |-> 0])

(* Mutant: the code starts today, whatever is left of the period. *)
StartOfToday(u) == now

(* ... then the subscription: the code starts where the period ends ... *)
StartOf(u) == IF sub[u].end > now THEN sub[u].end ELSE now

ReadForRedeem(f) ==
  /\ f.op = "redeem-read"
  /\ flight' = (flight \ {f}) \cup
       {[f EXCEPT !.op = "redeem", !.row.end = StartOf(f.user) + PromoLength]}
  /\ UNCHANGED <<now, sub, promo, upgrade, fresh, audit, overlapped, trials>>

(* Mutant: used_count counted with the audit entry, which is not written. *)
CommitRedeemUnaudited(f) ==
  /\ f.op = "redeem" /\ Leave(f)
  /\ promo' = [promo EXCEPT ![f.about].used = @ + 1]
  /\ sub' = [sub EXCEPT ![f.user] = f.row]
  /\ AuditedOrStopped("PROMO_REDEEMED", f.req, f.about)
  /\ UNCHANGED <<upgrade, trials>>

(* ... and commits one transaction: the count, the row, the audit entry. *)
CommitRedeem(f) ==
  /\ f.op = "redeem" /\ Leave(f)
  /\ promo' = [promo EXCEPT ![f.about].used = @ + 1]
  /\ sub' = [sub EXCEPT ![f.user] = f.row]
  /\ Audited("PROMO_REDEEMED", f.req, f.about)
  /\ UNCHANGED <<upgrade, trials>>

-----------------------------------------------------------------------------
(* getAccess: the plan that counts today.  A null end never expires. *)
EffectivePlan(u) == IF sub[u].end = 0 \/ sub[u].end > now THEN sub[u].plan ELSE "FREE"

(* Mutant: eligible when today's plan is FREE. *)
EligibleToday(u) == EffectivePlan(u) = "FREE" /\ sub[u].source # "SIGNUP_TRIAL"

Eligible(u) == sub[u].plan = "FREE" /\ sub[u].source # "SIGNUP_TRIAL"

(* startTrialIfEligible reads the row ... *)
BeginTrial(r, u) ==
  /\ Eligible(u)
  /\ Enter(r, "trial", u, r,
       [plan |-> "PREMIUM_MONTHLY", source |-> "SIGNUP_TRIAL", end |-> now + TrialLength])

(* ... and overwrites whatever it is by then. *)
CommitTrial(f) ==
  /\ f.op = "trial" /\ Leave(f)
  /\ sub' = [sub EXCEPT ![f.user] = f.row]
  /\ trials' = [trials EXCEPT ![f.user] = @ + 1]
  /\ AuditedOrStopped("TRIAL_STARTED", f.req, f.req)
  /\ UNCHANGED <<promo, upgrade>>

-----------------------------------------------------------------------------
Pending(q, u) == q.status = "PENDING" /\ q.user = u

(* createOrGetUpgradeRequest answers with the pending request for the plan *)
(* if there is one ...                                                     *)
BeginAsk(r, u, plan) ==
  /\ \A q \in upgrade : Pending(q, u) => q.plan # plan
  /\ Enter(r, "ask", u, r, [FreeRow EXCEPT !.plan = plan])

(* ... and inserts one if not. *)
CommitAsk(f) ==
  /\ f.op = "ask" /\ Leave(f)
  /\ upgrade' = upgrade \cup {[id |-> f.req, user |-> f.user, plan |-> f.row.plan, status |-> "PENDING"]}
  /\ AuditedOrStopped("UPGRADE_REQUEST_CREATED", f.req, f.req)
  /\ UNCHANGED <<sub, promo, trials>>

(* reviewUpgradeRequest reads the request, which must be pending. *)
BeginReview(r, q, op) ==
  /\ q.status = "PENDING"
  /\ Enter(r, op, q.user, q.id, [FreeRow EXCEPT !.plan = q.plan])

(* A rejection is written whatever the request has become. *)
CommitReject(f) ==
  /\ f.op = "reject" /\ Leave(f)
  /\ upgrade' = {IF q.id = f.about THEN [q EXCEPT !.status = "REJECTED"] ELSE q : q \in upgrade}
  /\ AuditedOrStopped("UPGRADE_REQUEST_REJECTED", f.req, f.about)
  /\ UNCHANGED <<sub, promo, trials>>

(* An approval calls grantSubscription, which reads the user and the clock. *)
ApproveByGrant(f) ==
  /\ f.op = "approve"
  /\ flight' = (flight \ {f}) \cup
       {[f EXCEPT !.op = "grant", !.row.source = "TELEBIRR", !.row.end = now + DefaultLength(f.row.plan)]}
  /\ UNCHANGED <<now, sub, promo, upgrade, fresh, audit, overlapped, trials>>

-----------------------------------------------------------------------------
(* grantSubscription by an admin: the user and the clock are read ... *)
BeginGrant(r, u, plan, length) ==
  Enter(r, "grant", u, r, [plan |-> plan, source |-> "ADMIN", end |-> now + length])

ApprovedPending(u) ==
  {IF Pending(q, u) THEN [q EXCEPT !.status = "APPROVED"] ELSE q : q \in upgrade}

(* ... and one transaction writes the row, approves every pending request  *)
(* of the user and records the grant.                                      *)
CommitGrant(f) ==
  /\ f.op = "grant" /\ Leave(f)
  /\ sub' = [sub EXCEPT ![f.user] = f.row]
  /\ upgrade' = ApprovedPending(f.user)
  /\ Audited("SUBSCRIPTION_GRANTED", f.req, f.req)
  /\ UNCHANGED <<promo, trials>>

(* Mutant: the end of the period is kept. *)
RevokedRowKeepsEnd(u) == [plan |-> "FREE", source |-> "ADMIN", end |-> sub[u].end]

RevokedRow(u) == [plan |-> "FREE", source |-> "ADMIN", end |-> 0]

(* revokeSubscription writes without having read the row. *)
Revoke(r, u) ==
  /\ Receive(r)
  /\ sub' = [sub EXCEPT ![u] = RevokedRow(u)]
  /\ trials' = [trials EXCEPT ![u] = 0]
  /\ AuditedOrStopped("SUBSCRIPTION_REVOKED", r, r)
  /\ UNCHANGED <<now, promo, upgrade, flight>>

-----------------------------------------------------------------------------
Next ==
  \/ Tick
  \/ \E p \in Promos, plan \in PaidPlan, e \in Expiries : CreatePromo(p, plan, e)
  \/ \E r \in Reqs, u \in Users :
       \/ \E p \in Promos : BeginRedeem(r, u, p)
       \/ BeginTrial(r, u)
       \/ \E plan \in PaidPlan : BeginAsk(r, u, plan)
       \/ \E plan \in PaidPlan, length \in AdminLengths : BeginGrant(r, u, plan, length)
       \/ Revoke(r, u)
  \/ \E r \in Reqs, q \in upgrade, op \in {"approve", "reject"} : BeginReview(r, q, op)
  \/ \E f \in flight :
       \/ ReadForRedeem(f) \/ CommitRedeem(f)
       \/ CommitTrial(f)
       \/ CommitAsk(f) \/ CommitReject(f) \/ ApproveByGrant(f) \/ CommitGrant(f)
       \/ LoseRequest(f)

Spec == Init /\ [][Next]_vars

-----------------------------------------------------------------------------
(* Each count of a promo code is one redemption in the audit log, however  *)
(* redemptions overlap or fail: used_count is incremented in the database, *)
(* in the transaction that grants the days.                                *)
Redemptions(p) == {a \in audit : a.action = "PROMO_REDEEMED" /\ a.about = p}

PromoCountIsBacked == \A p \in Promos : promo[p].used = Cardinality(Redemptions(p))

(* Premium always ends, because whoever writes a paid plan writes its end; *)
(* and a user who is back on FREE has no days left over that a promo code  *)
(* would add to: the two columns agree after any interleaving of writers.  *)
EntitlementEnds ==
  \A u \in Users :
    /\ EffectivePlan(u) # "FREE" => sub[u].end > now
    /\ sub[u].plan = "FREE" => sub[u].end = 0

(* Without overlap, a redeemed code adds its days to all that was left.    *)
(* (With overlap two codes may add the days of one.)                       *)
RedemptionAddsDays ==
  [][\A p \in Promos : ~overlapped /\ promo'[p].used > promo[p].used =>
       \E u \in Users :
         /\ sub'[u].end >= sub[u].end + PromoLength
         /\ \A v \in Users \ {u} : sub'[v] = sub[v]]_vars

(* A rejected request stays rejected under every interleaving; without     *)
(* overlap an approved one stays approved.  (A rejection that overlaps the *)
(* approval is written over it.)                                           *)
DecisionIsFinal ==
  [][\A q \in upgrade :
       q.status = "REJECTED" \/ (q.status = "APPROVED" /\ ~overlapped) => q \in upgrade']_vars

(* What was decided, by the admin or by a code, is not taken back.         *)
DecisionsStand == RedemptionAddsDays /\ DecisionIsFinal

(* The four parts of ChecksHold: a code is not used more often than it     *)
(* allows; a user has one trial, whatever he redeems, buys or is granted   *)
(* afterwards and however long ago it ended, until a revocation forgets    *)
(* it; who is premium for a payment has an approved request; a user waits  *)
(* on one request per plan.                                                *)
WithinPromoLimit == \A p \in Promos : promo[p].used <= MaxUses

OneTrial == \A u \in Users : trials[u] <= 1

PaidWasApproved ==
  \A u \in Users : sub[u].source = "TELEBIRR" =>
    \E q \in upgrade : q.user = u /\ q.status = "APPROVED"

OnePendingPerPlan ==
  \A u \in Users : \A q1, q2 \in upgrade :
    Pending(q1, u) /\ Pending(q2, u) /\ q1.plan = q2.plan => q1.id = q2.id

(* As long as no two requests overlap, whatever they are and wherever they *)
(* stop, the checks made on a read hold when the write is made.            *)
ChecksHold ==
  ~overlapped => WithinPromoLimit /\ OneTrial /\ PaidWasApproved /\ OnePendingPerPlan
=============================================================================
