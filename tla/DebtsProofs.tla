----------------------------- MODULE DebtsProofs -----------------------------
(* Theorems about Debts, for every set of debts, requests and amounts. *)
EXTENDS Debts, TLAPS

(* Every value stays in its table or in its set of requests.  The one      *)
(* subtraction in the code stays a natural number because the amount was   *)
(* checked against the balance that was read.                              *)
AmountWithinSeen == \A t \in paying : t.amount <= t.seen

TypeInv == TypeOK /\ AmountWithinSeen

LEMMA PositiveAmount == ASSUME NEW a \in Amounts PROVE a \in Nat /\ a > 0
BY AmountsAssumption

(* What the checks before the update establish about a payment in flight. *)
LEMMA PaymentInFlight ==
  ASSUME TypeInv, NEW t \in paying
  PROVE  /\ t.debt \in Debts /\ t.amount \in Amounts /\ t.seen \in Nat
         /\ t.amount \in Nat /\ t.amount > 0 /\ t.amount <= t.seen
         /\ t.seen - t.amount \in Nat /\ t.seen - t.amount < t.seen
<1>1. t.debt \in Debts /\ t.amount \in Amounts /\ t.seen \in Nat
  BY DEF TypeInv, TypeOK
<1>2. t.amount \in Nat /\ t.amount > 0
  BY <1>1, PositiveAmount
<1>3. t.amount <= t.seen
  BY DEF TypeInv, AmountWithinSeen
<1>4. QED
  BY <1>1, <1>2, <1>3

LEMMA TypeInvInit == Init => TypeInv
BY DEF Init, TypeInv, TypeOK, AmountWithinSeen, Row, Absent, Status

LEMMA TypeInvNext == TypeInv /\ [Next]_vars => TypeInv'
<1> SUFFICES ASSUME TypeInv, [Next]_vars PROVE TypeInv'
  OBVIOUS
<1> USE AmountsAssumption DEF TypeInv, TypeOK, AmountWithinSeen, Row, Status, Write
<1>1. ASSUME NEW r \in Reqs, NEW d \in Debts, NEW a \in Amounts, Create(r, d, a)
      PROVE  TypeInv'
  BY <1>1 DEF Create, Committed
<1>2. ASSUME NEW r \in Reqs, NEW d \in Debts, NEW a \in Amounts, BeginPayment(r, d, a)
      PROVE  TypeInv'
  BY <1>2 DEF BeginPayment
<1>3. ASSUME NEW t \in paying, CommitPayment(t)
      PROVE  TypeInv'
  <2>1. t.debt \in Debts /\ t.amount \in Amounts /\ t.amount \in Nat /\ t.seen - t.amount \in Nat
    BY PaymentInFlight
  <2>2. debt' \in [Debts -> Row]
    BY <1>3, <2>1 DEF CommitPayment, NextStatus
  <2>3. paid' \in [Debts -> Nat]
    BY <1>3 DEF CommitPayment
  <2>4. written' \subseteq Write /\ auditing' \subseteq Write
    BY <1>3 DEF CommitPayment, Committed
  <2>5. QED
    BY <1>3, <2>2, <2>3, <2>4 DEF CommitPayment
<1>4. ASSUME NEW t \in paying, RollbackPayment(t)
      PROVE  TypeInv'
  BY <1>4 DEF RollbackPayment
<1>5. ASSUME NEW r \in Reqs, NEW d \in Debts, BeginNudge(r, d)
      PROVE  TypeInv'
  BY <1>5 DEF BeginNudge
<1>6. ASSUME NEW n \in nudging, CommitNudge(n)
      PROVE  TypeInv'
  BY <1>6 DEF CommitNudge
<1>7. ASSUME NEW w \in auditing, RecordAudit(w) \/ LoseAudit(w)
      PROVE  TypeInv'
  BY <1>7 DEF RecordAudit, LoseAudit
<1>8. CASE UNCHANGED vars
  BY <1>8 DEF vars
<1>9. QED
  BY <1>1, <1>2, <1>3, <1>4, <1>5, <1>6, <1>7, <1>8 DEF Next

(* Type correctness of the debts service. *)
THEOREM TypeCorrect == Spec => []TypeOK
<1>1. TypeInv => TypeOK
  BY DEF TypeInv
<1>2. QED
  BY TypeInvInit, TypeInvNext, <1>1, PTL DEF Spec

-----------------------------------------------------------------------------
(* What a payment transaction still knows when it commits: the balance it  *)
(* read was within the debt, and the payments stored by then, and since,   *)
(* cover what had already come off it.  Other transactions may have moved  *)
(* the balance in the meantime; payment rows are only ever added.          *)
SeenIsPaidFor ==
  \A t \in paying :
    /\ debt[t.debt].status # "ABSENT"
    /\ t.seen <= debt[t.debt].original
    /\ debt[t.debt].original <= t.seen + paid[t.debt]

(* Nothing is in flight against a debt that does not exist yet. *)
NudgesExisting == \A n \in nudging : debt[n.debt].status # "ABSENT"

BalanceInv ==
  TypeInv /\ StatusMatchesBalance /\ ReductionIsPaidFor /\ SeenIsPaidFor /\ NudgesExisting

LEMMA BalanceInvInit == Init => BalanceInv
BY TypeInvInit DEF Init, BalanceInv, StatusMatchesBalance, ReductionIsPaidFor,
                   SeenIsPaidFor, NudgesExisting, Absent

LEMMA BalanceInvNext == BalanceInv /\ [Next]_vars => BalanceInv'
<1> SUFFICES ASSUME BalanceInv, [Next]_vars PROVE BalanceInv'
  OBVIOUS
<1>t. TypeInv /\ TypeInv'
  BY TypeInvNext DEF BalanceInv
<1> USE <1>t, AmountsAssumption
    DEF BalanceInv, TypeInv, TypeOK, Row, Status, StatusMatchesBalance,
        ReductionIsPaidFor, SeenIsPaidFor, NudgesExisting
<1>1. ASSUME NEW r \in Reqs, NEW d \in Debts, NEW a \in Amounts, Create(r, d, a)
      PROVE  BalanceInv'
  <2>1. debt' = [debt EXCEPT ![d] = [original |-> a, remaining |-> a,
                                     status |-> "OPEN", nudged |-> FALSE]]
        /\ debt[d].status = "ABSENT" /\ a \in Nat /\ a > 0
        /\ UNCHANGED <<paid, paying, nudging>>
    BY <1>1 DEF Create
  <2>2. StatusMatchesBalance' /\ ReductionIsPaidFor'
    BY <2>1
  <2>3. SeenIsPaidFor'
    BY <2>1
  <2>4. NudgesExisting'
    BY <2>1
  <2>5. QED
    BY <2>2, <2>3, <2>4
<1>2. ASSUME NEW r \in Reqs, NEW d \in Debts, NEW a \in Amounts, BeginPayment(r, d, a)
      PROVE  BalanceInv'
  BY <1>2 DEF BeginPayment
<1>3. ASSUME NEW t \in paying, CommitPayment(t)
      PROVE  BalanceInv'
  <2> DEFINE d == t.debt
             next == t.seen - t.amount
  <2>1. d \in Debts /\ t.amount \in Amounts /\ t.amount \in Nat /\ t.amount > 0
        /\ t.seen \in Nat /\ t.amount <= t.seen
    BY PaymentInFlight
  <2>2. next \in Nat /\ next < t.seen
    BY <2>1
  <2>3. /\ debt' = [debt EXCEPT ![d].remaining = next, ![d].status = NextStatus(next)]
        /\ paid' = [paid EXCEPT ![d] = @ + t.amount]
        /\ paying' \subseteq paying /\ nudging' = nudging
    BY <1>3 DEF CommitPayment
  <2>4. \A e \in Debts : debt'[e].original = debt[e].original /\ paid[e] <= paid'[e]
    BY <2>1, <2>3
  <2>5. \A e \in Debts : debt[e].status # "ABSENT" => debt'[e].status # "ABSENT"
    BY <2>1, <2>3 DEF NextStatus
  <2>6. ReductionIsPaidFor'
    <3>1. debt[d].original <= t.seen + paid[d]
      OBVIOUS
    <3>2. debt'[d].remaining = next /\ paid'[d] = paid[d] + t.amount
      BY <2>1, <2>3
    <3>3. debt'[d].original <= debt'[d].remaining + paid'[d]
      BY <2>1, <2>2, <2>4, <3>1, <3>2
    <3>4. \A e \in Debts \ {d} : debt'[e] = debt[e] /\ paid'[e] = paid[e]
      BY <2>1, <2>3
    <3>5. QED
      BY <3>3, <3>4
  <2>7. StatusMatchesBalance'
    <3>1. debt'[d].remaining = next /\ debt'[d].status = NextStatus(next)
          /\ next < debt'[d].original
      BY <2>1, <2>2, <2>3, <2>4
    <3>2. \A e \in Debts \ {d} : debt'[e] = debt[e]
      BY <2>1, <2>3
    <3>3. QED
      BY <2>2, <3>1, <3>2 DEF NextStatus
  <2>8. SeenIsPaidFor'
    <3> SUFFICES ASSUME NEW u \in paying
                 PROVE  /\ debt'[u.debt].status # "ABSENT"
                        /\ u.seen <= debt'[u.debt].original
                        /\ debt'[u.debt].original <= u.seen + paid'[u.debt]
      BY <2>3
    <3>1. u.debt \in Debts /\ u.seen \in Nat
      OBVIOUS
    <3>2. QED
      BY <2>4, <2>5, <3>1
  <2>9. NudgesExisting'
    BY <2>3, <2>5
  <2>10. QED
    BY <2>6, <2>7, <2>8, <2>9
<1>4. ASSUME NEW t \in paying, RollbackPayment(t)
      PROVE  BalanceInv'
  BY <1>4 DEF RollbackPayment
<1>5. ASSUME NEW r \in Reqs, NEW d \in Debts, BeginNudge(r, d)
      PROVE  BalanceInv'
  BY <1>5 DEF BeginNudge
<1>6. ASSUME NEW n \in nudging, CommitNudge(n)
      PROVE  BalanceInv'
  BY <1>6 DEF CommitNudge
<1>7. ASSUME NEW w \in auditing, RecordAudit(w) \/ LoseAudit(w)
      PROVE  BalanceInv'
  BY <1>7 DEF RecordAudit, LoseAudit
<1>8. CASE UNCHANGED vars
  BY <1>8 DEF vars
<1>9. QED
  BY <1>1, <1>2, <1>3, <1>4, <1>5, <1>6, <1>7, <1>8 DEF Next

LEMMA BalanceInvHolds == Spec => []BalanceInv
BY BalanceInvInit, BalanceInvNext, PTL DEF Spec

(* However payments overlap, status and balance of a debt agree. *)
THEOREM StatusCorrect == Spec => []StatusMatchesBalance
<1>1. BalanceInv => StatusMatchesBalance
  BY DEF BalanceInv
<1>2. QED
  BY BalanceInvHolds, <1>1, PTL

(* However payments overlap, a balance never goes down by more than the    *)
(* payment rows add up to.                                                 *)
THEOREM ReductionCorrect == Spec => []ReductionIsPaidFor
<1>1. BalanceInv => ReductionIsPaidFor
  BY DEF BalanceInv
<1>2. QED
  BY BalanceInvHolds, <1>1, PTL

(* A request about to be audited has committed, so an audit record is      *)
(* never about a write that was rolled back.                               *)
AuditInv == auditing \subseteq written /\ AuditIsBacked

LEMMA AuditCorrect == Spec => []AuditIsBacked
<1> USE DEF AuditInv, AuditIsBacked
<1>1. Init => AuditInv
  BY DEF Init
<1>2. AuditInv /\ [Next]_vars => AuditInv'
  BY DEF Next, vars, Create, BeginPayment, CommitPayment, RollbackPayment, BeginNudge,
     CommitNudge, RecordAudit, LoseAudit, Committed
<1>3. QED
  BY <1>1, <1>2, PTL DEF Spec

(* Nothing comes off a balance that was not paid and nothing is audited    *)
(* that was not written, for every number of overlapping requests.         *)
THEOREM WritesBacked == Spec => []WritesAreBacked
BY ReductionCorrect, AuditCorrect, PTL DEF WritesAreBacked

(* However requests overlap, a balance moves only with a payment row. *)
THEOREM BalanceMoves == Spec => BalanceMovesWithPayment
<1>1. ASSUME BalanceInv, [Next]_vars, NEW d \in Debts,
             debt[d].status # "ABSENT", debt'[d].remaining # debt[d].remaining
      PROVE  paid'[d] > paid[d]
  <2> USE <1>1, AmountsAssumption DEF BalanceInv, TypeInv, TypeOK, Row
  <2>1. ASSUME NEW t \in paying, CommitPayment(t)
        PROVE  paid'[d] > paid[d]
    <3>1. t.debt \in Debts
      BY PaymentInFlight
    <3>2. t.amount \in Nat /\ t.amount > 0
      BY PaymentInFlight
    <3>3. t.debt = d
      BY <2>1, <3>1 DEF CommitPayment
    <3>4. QED
      BY <2>1, <3>2, <3>3 DEF CommitPayment
  <2>2. ASSUME NEW r \in Reqs, NEW e \in Debts, NEW a \in Amounts, Create(r, e, a)
        PROVE  FALSE
    BY <2>2 DEF Create
  <2>3. ASSUME NEW n \in nudging, CommitNudge(n)
        PROVE  FALSE
    BY <2>3 DEF CommitNudge
  <2>4. QED
    BY <2>1, <2>2, <2>3 DEF Next, vars, BeginPayment, RollbackPayment, BeginNudge,
       RecordAudit, LoseAudit
<1>2. BalanceInv /\ [Next]_vars =>
        [\A d \in Debts :
           debt[d].status # "ABSENT" /\ debt'[d].remaining # debt[d].remaining
             => paid'[d] > paid[d]]_vars
  BY <1>1
<1>3. QED
  BY BalanceInvHolds, <1>2, PTL DEF Spec, BalanceMovesWithPayment

-----------------------------------------------------------------------------
(* Payments that do not overlap.  A transaction then still holds the       *)
(* current balance when it commits, and this is what makes the service     *)
(* exact.                                                                  *)
OneAtATime    == \A t, u \in paying : t.debt = u.debt /\ t.debt \in Serial => t = u
SeenIsCurrent == \A t \in paying : t.debt \in Serial => t.seen = debt[t.debt].remaining
AbsentIsEmpty == \A d \in Debts : debt[d].status = "ABSENT" =>
                   debt[d].original = 0 /\ debt[d].remaining = 0 /\ paid[d] = 0

SerialInv ==
  BalanceInv /\ OneAtATime /\ SeenIsCurrent /\ AbsentIsEmpty /\ SerialIsExact

LEMMA SerialInvInit == Init => SerialInv
BY BalanceInvInit, SerialAssumption
   DEF Init, SerialInv, OneAtATime, SeenIsCurrent, AbsentIsEmpty, SerialIsExact, ExactFor, Absent

(* The step of a payment in a service whose payments do not overlap. *)
LEMMA SerialCommit ==
  ASSUME SerialInv, NEW t \in paying, CommitPayment(t), t.debt \in Serial
  PROVE  /\ t.debt \in Debts /\ t.amount \in Amounts /\ t.amount \in Nat /\ t.amount > 0
         /\ t.amount <= debt[t.debt].remaining
         /\ debt[t.debt].status # "SETTLED" /\ debt[t.debt].status # "ABSENT"
         /\ debt' = [debt EXCEPT ![t.debt].remaining = debt[t.debt].remaining - t.amount,
                                 ![t.debt].status = NextStatus(debt[t.debt].remaining - t.amount)]
         /\ paid' = [paid EXCEPT ![t.debt] = @ + t.amount]
         /\ paying' = paying \ {t} /\ nudging' = nudging
<1> USE AmountsAssumption, SerialAssumption DEF SerialInv, BalanceInv, TypeInv, TypeOK, Row
<1>1. t.debt \in Debts /\ t.amount \in Amounts /\ t.seen \in Nat
  BY PaymentInFlight
<1>2. t.amount \in Nat /\ t.amount > 0
  BY PaymentInFlight
<1>3. t.seen = debt[t.debt].remaining /\ t.amount <= t.seen
  BY PaymentInFlight DEF SeenIsCurrent
<1>4. debt[t.debt].status # "ABSENT"
  BY DEF SeenIsPaidFor
<1>5. debt[t.debt].status # "SETTLED"
  BY <1>1, <1>2, <1>3 DEF StatusMatchesBalance
<1>6. QED
  BY <1>1, <1>2, <1>3, <1>4, <1>5 DEF CommitPayment

LEMMA SerialInvNext ==
  ASSUME SerialInv, [Next]_vars
  PROVE  SerialInv'
<1>b. BalanceInv /\ BalanceInv'
  BY BalanceInvNext DEF SerialInv
<1> USE AmountsAssumption, SerialAssumption
    DEF SerialInv, TypeInv, TypeOK, Row, OneAtATime, SeenIsCurrent, AbsentIsEmpty, SerialIsExact, ExactFor
<1>1. ASSUME NEW r \in Reqs, NEW d \in Debts, NEW a \in Amounts, Create(r, d, a)
      PROVE  SerialInv'
  <2>1. debt' = [debt EXCEPT ![d] = [original |-> a, remaining |-> a,
                                     status |-> "OPEN", nudged |-> FALSE]]
        /\ debt[d].status = "ABSENT" /\ a \in Nat
        /\ UNCHANGED <<paid, paying>>
    BY <1>1 DEF Create
  <2>2. \A t \in paying : t.debt \in Debts /\ t.debt # d
    BY <1>b, <2>1 DEF BalanceInv, SeenIsPaidFor
  <2>3. \A e \in Debts \ {d} : debt'[e] = debt[e]
    BY <1>b, <2>1 DEF BalanceInv
  <2>4. debt'[d] = [original |-> a, remaining |-> a, status |-> "OPEN", nudged |-> FALSE]
    BY <1>b, <2>1 DEF BalanceInv
  <2>5. SeenIsCurrent' /\ OneAtATime'
    BY <2>1, <2>2, <2>3
  <2>6. AbsentIsEmpty' /\ SerialIsExact'
    BY <1>b, <2>1, <2>3, <2>4 DEF BalanceInv
  <2>7. QED
    BY <1>b, <2>5, <2>6
<1>2. ASSUME NEW r \in Reqs, NEW d \in Debts, NEW a \in Amounts, BeginPayment(r, d, a)
      PROVE  SerialInv'
  BY <1>b, <1>2 DEF BeginPayment
<1>3. ASSUME NEW t \in paying, CommitPayment(t)
      PROVE  SerialInv'
  <2> DEFINE d == t.debt
             next == debt[d].remaining - t.amount
  <2>1. /\ d \in Debts /\ t.amount \in Nat /\ t.amount > 0 /\ paying' = paying \ {t}
        /\ debt' = [debt EXCEPT ![d].remaining = t.seen - t.amount,
                                ![d].status = NextStatus(t.seen - t.amount)]
        /\ paid' = [paid EXCEPT ![d] = @ + t.amount]
    BY <1>b, <1>3, PaymentInFlight DEF CommitPayment, BalanceInv
  <2>2. \A e \in Debts \ {d} : debt'[e] = debt[e] /\ paid'[e] = paid[e]
    BY <1>b, <2>1 DEF BalanceInv
  <2>3. OneAtATime'
    BY <2>1
  <2>4. SeenIsCurrent'
    <3> SUFFICES ASSUME NEW u \in paying', u.debt \in Serial PROVE u.seen = debt'[u.debt].remaining
      OBVIOUS
    <3>1. u \in paying /\ u.debt \in Debts /\ u.debt # d
      BY <1>b, <2>1 DEF BalanceInv
    <3>2. QED BY <2>2, <3>1
  <2>5. AbsentIsEmpty'
    <3>1. debt'[d].status # "ABSENT"
      BY <1>b, <2>1 DEF BalanceInv, NextStatus
    <3>2. QED BY <2>2, <3>1
  <2>6. ASSUME d \in Serial PROVE ExactFor(d)'
    <3>1. /\ t.amount <= debt[d].remaining
          /\ debt' = [debt EXCEPT ![d].remaining = next, ![d].status = NextStatus(next)]
      BY <1>3, <2>6, SerialCommit
    <3>2. debt'[d].remaining = next /\ debt'[d].original = debt[d].original
          /\ paid'[d] = paid[d] + t.amount
      BY <1>b, <2>1, <3>1 DEF BalanceInv
    <3>3. QED BY <1>b, <2>1, <2>6, <3>1, <3>2 DEF BalanceInv
  <2>7. SerialIsExact'
    BY <2>2, <2>6
  <2>8. QED
    BY <1>b, <2>3, <2>4, <2>5, <2>7
<1>4. ASSUME NEW t \in paying, RollbackPayment(t)
      PROVE  SerialInv'
  BY <1>b, <1>4 DEF RollbackPayment
<1>5. ASSUME NEW r \in Reqs, NEW d \in Debts, BeginNudge(r, d)
      PROVE  SerialInv'
  BY <1>b, <1>5 DEF BeginNudge
<1>6. ASSUME NEW n \in nudging, CommitNudge(n)
      PROVE  SerialInv'
  BY <1>b, <1>6 DEF CommitNudge, BalanceInv
<1>7. ASSUME NEW w \in auditing, RecordAudit(w) \/ LoseAudit(w)
      PROVE  SerialInv'
  BY <1>b, <1>7 DEF RecordAudit, LoseAudit
<1>8. CASE UNCHANGED vars
  BY <1>b, <1>8 DEF vars
<1>9. QED
  BY <1>1, <1>2, <1>3, <1>4, <1>5, <1>6, <1>7, <1>8 DEF Next

(* A service step is a step of the ledger, or invisible in it. *)
LEMMA LedgerStep ==
  ASSUME SerialInv, [Next]_vars
  PROVE  [Ledger!Next]_(Ledger!ledger)
<1> USE DEF Ledger!Next, Ledger!ledger, SerialInv, BalanceInv, TypeInv, TypeOK, Row
<1>s. Serial \subseteq Debts
  BY SerialAssumption
<1>1. ASSUME NEW r \in Reqs, NEW d \in Debts, NEW a \in Amounts, Create(r, d, a)
      PROVE  (d \in Serial /\ Ledger!Open(d, a)) \/ UNCHANGED Ledger!ledger
  <2>1. \A e \in Debts \ {d} : debt'[e] = debt[e]
    BY <1>1 DEF Create
  <2>2. paid' = paid
    BY <1>1 DEF Create
  <2>3. CASE d \in Serial
    BY <1>1, <1>s, <2>3 DEF Create, Ledger!Open, AbsentIsEmpty
  <2>4. CASE d \notin Serial
    BY <1>s, <2>1, <2>2, <2>4
  <2>5. QED BY <2>3, <2>4
<1>2. ASSUME NEW t \in paying, CommitPayment(t)
      PROVE  (t.debt \in Serial /\ Ledger!Pay(t.debt, t.amount)) \/ UNCHANGED Ledger!ledger
  <2>1. t.debt \in Debts /\ t.amount \in Nat
    BY PaymentInFlight
  <2>2. \A d \in Debts \ {t.debt} : debt'[d] = debt[d] /\ paid'[d] = paid[d]
    BY <1>2, <2>1 DEF CommitPayment
  <2>3. CASE t.debt \in Serial
    <3>1. /\ t.amount <= debt[t.debt].remaining
          /\ debt' = [debt EXCEPT ![t.debt].remaining = debt[t.debt].remaining - t.amount,
                                  ![t.debt].status = NextStatus(debt[t.debt].remaining - t.amount)]
          /\ paid' = [paid EXCEPT ![t.debt] = @ + t.amount]
      BY <1>2, <2>3, SerialCommit
    <3>2. \A d \in Serial : debt'[d].original = debt[d].original
      BY <1>s, <3>1
    <3>3. \A d \in Serial : debt'[d].remaining =
            IF d = t.debt THEN debt[d].remaining - t.amount ELSE debt[d].remaining
      BY <1>s, <3>1
    <3>4. \A d \in Serial : paid'[d] = IF d = t.debt THEN paid[d] + t.amount ELSE paid[d]
      BY <1>s, <3>1
    <3>5. QED
      BY <1>s, <2>1, <2>3, <3>1, <3>2, <3>3, <3>4 DEF Ledger!Pay
  <2>4. CASE t.debt \notin Serial
    BY <1>s, <2>2, <2>4
  <2>5. QED BY <2>3, <2>4
<1>3. ASSUME NEW n \in nudging, CommitNudge(n)
      PROVE  UNCHANGED Ledger!ledger
  BY <1>3, <1>s DEF CommitNudge
<1>4. QED
  <2>1. ASSUME NEW t \in paying
        PROVE  t.debt \in Debts /\ t.amount \in Amounts
    BY PaymentInFlight
  <2>2. QED
    BY <1>1, <1>2, <1>3, <2>1 DEF Next, vars, BeginPayment, RollbackPayment, BeginNudge,
       RecordAudit, LoseAudit

(* For a client that waits for each payment to be answered, the service is *)
(* the ledger: every payment comes off the balance, once, and exactly.     *)
THEOREM SerialRefinement == Spec => ImplementsLedger
<1>1. Init => Ledger!Init
  BY SerialAssumption DEF Init, Ledger!Init, Absent
<1>2. Init => SerialInv
  BY SerialInvInit
<1>3. SerialInv /\ [Next]_vars => SerialInv'
  BY SerialInvNext
<1>4. SerialInv /\ [Next]_vars => [Ledger!Next]_(Ledger!ledger)
  BY LedgerStep
<1>5. QED
  BY <1>1, <1>2, <1>3, <1>4, PTL DEF Spec, ImplementsLedger, Ledger!Spec

(* For such a client a balance is the original amount less all payments. *)
THEOREM SerialExact == Spec => []SerialIsExact
<1>1. Init => SerialInv
  BY SerialInvInit
<1>2. SerialInv /\ [Next]_vars => SerialInv'
  BY SerialInvNext
<1>3. SerialInv => SerialIsExact
  BY DEF SerialInv
<1>4. QED
  BY <1>1, <1>2, <1>3, PTL DEF Spec

(* For such a client a settled debt is never reopened. *)
THEOREM SerialSettledIsFinal == Spec => SettledIsFinal
<1>1. Init => SerialInv
  BY SerialInvInit
<1>2. SerialInv /\ [Next]_vars => SerialInv'
  BY SerialInvNext
<1>3. ASSUME SerialInv, [Next]_vars, NEW d \in Serial, debt[d].status = "SETTLED"
      PROVE  debt'[d].status = "SETTLED"
  <2> USE <1>3, SerialAssumption DEF SerialInv, BalanceInv, TypeInv, TypeOK, Row
  <2>1. ASSUME NEW t \in paying, CommitPayment(t)
        PROVE  debt'[d].status = "SETTLED"
    <3>1. t.debt # d
      BY <2>1, SerialCommit
    <3>2. t.debt \in Debts
      BY PaymentInFlight
    <3>3. QED
      BY <2>1, <3>1, <3>2 DEF CommitPayment
  <2>2. ASSUME NEW r \in Reqs, NEW e \in Debts, NEW a \in Amounts, Create(r, e, a)
        PROVE  debt'[d].status = "SETTLED"
    BY <2>2 DEF Create
  <2>3. ASSUME NEW n \in nudging, CommitNudge(n)
        PROVE  debt'[d].status = "SETTLED"
    BY <2>3 DEF CommitNudge
  <2>4. QED
    BY <2>1, <2>2, <2>3 DEF Next, vars, BeginPayment, RollbackPayment, BeginNudge,
       RecordAudit, LoseAudit
<1>4. SerialInv /\ [Next]_vars =>
        [\A d \in Serial : debt[d].status = "SETTLED" => debt'[d].status = "SETTLED"]_vars
  BY <1>3
<1>5. QED
  BY <1>1, <1>2, <1>4, PTL DEF Spec, SettledIsFinal

(* The three together: a balance moves with payments only, and for a       *)
(* client that waits it is exact and final once settled.                   *)
THEOREM HistoryCorrect == Spec => BalanceHistory
BY BalanceMoves, SerialSettledIsFinal, SerialExact, PTL DEF BalanceHistory

=============================================================================
