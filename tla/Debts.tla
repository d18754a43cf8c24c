-------------------------------- MODULE Debts --------------------------------
(***************************************************************************)
(* Debt tracking: debt.service.ts over debt.repository.ts.                 *)
(*                                                                         *)
(* Every HTTP request is a chain of awaited database calls, so any number  *)
(* of them interleave.  recordPayment reads the row inside a transaction,  *)
(* computes the next balance in the process and writes it back as a value. *)
(* The transactions run at PostgreSQL's default READ COMMITTED: the read   *)
(* takes no lock, the update locks the row until COMMIT.  The update, the  *)
(* insert of the payment row and COMMIT are therefore one step here (none  *)
(* of them is visible before COMMIT, and a second writer waits for it),    *)
(* but the read before them is a step of its own.  A request the code      *)
(* refuses (404, "already settled", "exceeds the remaining debt") changes  *)
(* nothing and is no step.                                                 *)
(*                                                                         *)
(* All debts belong to one user: findByIdForUser makes somebody else's     *)
(* debt the same as an absent one.                                         *)
(***************************************************************************)
EXTENDS Naturals

CONSTANTS
  Debts,      \* identifiers of debts
  Reqs,       \* identifiers of requests: each serves one request, ever
  Amounts,    \* the amounts clients send, in the smallest unit of money
  Serial      \* debts whose client sends a payment only when the last one
              \* has been answered; on the others payments overlap at will

ASSUME AmountsAssumption == Amounts \subseteq Nat \ {0}
ASSUME SerialAssumption == Serial \subseteq Debts

VARIABLES
  debt,       \* the debts table
  paid,       \* the sum of the amount column of debt_payments, per debt
  written,    \* the writes that committed, as the audit metadata names them
  audit,      \* the audit_logs table
  fresh,      \* requests not received yet
  paying,     \* payment transactions between their read and their COMMIT
  nudging,    \* nudge requests between their read and their update
  auditing    \* requests whose write committed, before audit.record

vars == <<debt, paid, written, audit, fresh, paying, nudging, auditing>>

Status == {"ABSENT", "OPEN", "PARTIALLY_PAID", "SETTLED"}
Row    == [original : Nat, remaining : Nat, status : Status, nudged : BOOLEAN]
Absent == [original |-> 0, remaining |-> 0, status |-> "ABSENT", nudged |-> FALSE]

Write  == [req : Reqs, debt : Debts, amount : Amounts,
           action : {"DEBT_CREATED", "DEBT_PAYMENT_CREATED"}]

TypeOK ==
  /\ debt \in [Debts -> Row]
  /\ paid \in [Debts -> Nat]
  /\ written \subseteq Write
  /\ audit \subseteq Write
  /\ fresh \subseteq Reqs
  /\ paying \subseteq [req : Reqs, debt : Debts, amount : Amounts, seen : Nat]
  /\ nudging \subseteq [req : Reqs, debt : Debts]
  /\ auditing \subseteq Write

Init ==
  /\ debt = [d \in Debts |-> Absent]
  /\ paid = [d \in Debts |-> 0]
  /\ written = {} /\ audit = {}
  /\ fresh = Reqs
  /\ paying = {} /\ nudging = {} /\ auditing = {}

-----------------------------------------------------------------------------
(* The write of request w has committed; its audit record is still to come. *)
Committed(w) ==
  /\ written' = written \cup {w}
  /\ auditing' = auditing \cup {w}

(* create: the insert commits by itself. *)
Create(r, d, a) ==
  /\ r \in fresh
  /\ debt[d].status = "ABSENT"
  /\ debt' = [debt EXCEPT ![d] = [original |-> a, remaining |-> a,
                                  status |-> "OPEN", nudged |-> FALSE]]
  /\ Committed([req |-> r, debt |-> d, amount |-> a, action |-> "DEBT_CREATED"])
  /\ fresh' = fresh \ {r}
  /\ UNCHANGED <<paid, audit, paying, nudging>>

(* recordPayment up to its last check: the balance it saw is kept in the   *)
(* process, no lock is held.                                               *)
BeginPayment(r, d, a) ==
  /\ r \in fresh
  /\ debt[d].status \notin {"ABSENT", "SETTLED"}
  /\ a <= debt[d].remaining
  /\ d \in Serial => \A t \in paying : t.debt # d
  /\ paying' = paying \cup {[req |-> r, debt |-> d, amount |-> a,
                             seen |-> debt[d].remaining]}
  /\ fresh' = fresh \ {r}
  /\ UNCHANGED <<debt, paid, written, audit, nudging, auditing>>

(* Mutant: off by one at zero. *)
NextStatusStrict(remaining) == IF remaining < 0 THEN "SETTLED" ELSE "PARTIALLY_PAID"

NextStatus(remaining) == IF remaining <= 0 THEN "SETTLED" ELSE "PARTIALLY_PAID"

(* The update writes remaining and status, computed from the balance seen, *)
(* createPayment inserts the row, and the transaction commits.             *)
CommitPayment(t) ==
  LET nextRemaining == t.seen - t.amount
  IN  /\ debt' = [debt EXCEPT ![t.debt].remaining = nextRemaining,
                              ![t.debt].status = NextStatus(nextRemaining)]
      /\ paid' = [paid EXCEPT ![t.debt] = @ + t.amount]
      /\ paying' = paying \ {t}
      /\ Committed([req |-> t.req, debt |-> t.debt, amount |-> t.amount,
                    action |-> "DEBT_PAYMENT_CREATED"])
      /\ UNCHANGED <<audit, fresh, nudging>>

(* Mutants of the rollback: without $transaction the update stays although *)
(* the payment row is missing; the audit is written all the same.          *)
RollbackPaymentKept(t) ==
  /\ debt' = [debt EXCEPT ![t.debt].remaining = t.seen - t.amount,
                          ![t.debt].status = NextStatus(t.seen - t.amount)]
  /\ paying' = paying \ {t}
  /\ UNCHANGED <<paid, written, audit, fresh, nudging, auditing>>

RollbackPaymentAudited(t) ==
  /\ paying' = paying \ {t}
  /\ auditing' = auditing \cup {[req |-> t.req, debt |-> t.debt, amount |-> t.amount,
                                 action |-> "DEBT_PAYMENT_CREATED"]}
  /\ UNCHANGED <<debt, paid, written, audit, fresh, nudging>>

(* The database or the process fails inside the transaction: ROLLBACK. *)
RollbackPayment(t) ==
  /\ paying' = paying \ {t}
  /\ UNCHANGED <<debt, paid, written, audit, fresh, nudging, auditing>>

(* recordNudge: the settled check is on a read of its own ... *)
BeginNudge(r, d) ==
  /\ r \in fresh
  /\ debt[d].status \notin {"ABSENT", "SETTLED"}
  /\ nudging' = nudging \cup {[req |-> r, debt |-> d]}
  /\ fresh' = fresh \ {r}
  /\ UNCHANGED <<debt, paid, written, audit, paying, auditing>>

(* Mutant: the nudge writes back the whole row it read. *)
CommitNudgeWholeRow(n) ==
  /\ debt' = [debt EXCEPT ![n.debt].nudged = TRUE, ![n.debt].status = "PARTIALLY_PAID"]
  /\ nudging' = nudging \ {n}
  /\ UNCHANGED <<paid, written, audit, fresh, paying, auditing>>

(* ... and the update that follows writes last_nudged_at alone. *)
CommitNudge(n) ==
  /\ debt' = [debt EXCEPT ![n.debt].nudged = TRUE]
  /\ nudging' = nudging \ {n}
  /\ UNCHANGED <<paid, written, audit, fresh, paying, auditing>>

(* audit.record runs after the transaction, on a connection of its own. *)
RecordAudit(w) ==
  /\ audit' = audit \cup {w}
  /\ auditing' = auditing \ {w}
  /\ UNCHANGED <<debt, paid, written, fresh, paying, nudging>>

(* The process or the database fails between the commit and audit.record:  *)
(* the write stays, its audit record never comes.                          *)
LoseAudit(w) ==
  /\ auditing' = auditing \ {w}
  /\ UNCHANGED <<debt, paid, written, audit, fresh, paying, nudging>>

Next ==
  \/ \E r \in Reqs, d \in Debts, a \in Amounts : Create(r, d, a)
  \/ \E r \in Reqs, d \in Debts, a \in Amounts : BeginPayment(r, d, a)
  \/ \E t \in paying : CommitPayment(t) \/ RollbackPayment(t)
  \/ \E r \in Reqs, d \in Debts : BeginNudge(r, d)
  \/ \E n \in nudging : CommitNudge(n)
  \/ \E w \in auditing : RecordAudit(w) \/ LoseAudit(w)

Spec == Init /\ [][Next]_vars

-----------------------------------------------------------------------------
(* The status shown agrees with the balance shown whatever transactions    *)
(* overlap: both columns come from the same read and are written together. *)
StatusMatchesBalance ==
  \A d \in Debts :
    /\ debt[d].remaining <= debt[d].original
    /\ debt[d].status = "SETTLED" => debt[d].remaining = 0
    /\ debt[d].status = "OPEN" => debt[d].remaining = debt[d].original /\ debt[d].remaining > 0
    /\ debt[d].status = "PARTIALLY_PAID" => debt[d].remaining \in 1 .. debt[d].original - 1

(* The lost update of two overlapping payments only ever errs one way: a   *)
(* balance never goes down by more than the payment rows add up to, so a   *)
(* debt shown as settled has been paid in full.                            *)
ReductionIsPaidFor ==
  \A d \in Debts : debt[d].original <= debt[d].remaining + paid[d]

(* An audit record describes a write that really committed: the record is  *)
(* only written after the transaction that it reports.                     *)
AuditIsBacked == audit \subseteq written

(* However requests overlap and fail, what the tables say happened did:    *)
(* what came off a balance was paid, what the audit log reports was        *)
(* written.                                                                *)
WritesAreBacked == ReductionIsPaidFor /\ AuditIsBacked

(* The balance of an existing debt moves only in the step that also stores *)
(* a payment row; neither a nudge, read long before it is written, nor an  *)
(* audit write touches it.                                                 *)
BalanceMovesWithPayment ==
  [][\A d \in Debts :
       debt[d].status # "ABSENT" /\ debt'[d].remaining # debt[d].remaining
         => paid'[d] > paid[d]]_vars

(* PROJECT_ARCHITECTURE.md section 19: a payment and the balance it        *)
(* reduces are one atomic operation, so a balance is the original amount   *)
(* less all payments.                                                      *)
ExactFor(d)    == debt[d].remaining + paid[d] = debt[d].original
BalanceIsExact == \A d \in Debts : ExactFor(d)

(* The service keeps that promise to a client that waits for each answer,  *)
(* rolled back payments included.                                          *)
SerialIsExact == \A d \in Serial : ExactFor(d)

(* For such a client a settled debt stays settled. *)
SettledIsFinal ==
  [][\A d \in Serial : debt[d].status = "SETTLED" => debt'[d].status = "SETTLED"]_vars

(* The history of a balance: it moves with payments only, and for a client *)
(* that waits it is exact at every moment and over once it is settled.     *)
BalanceHistory == BalanceMovesWithPayment /\ SettledIsFinal /\ []SerialIsExact

(* The serial debts and their payment rows as the ledger they implement. *)
Ledger == INSTANCE DebtLedger WITH
  Debts    <- Serial,
  original <- [d \in Serial |-> debt[d].original],
  owed     <- [d \in Serial |-> debt[d].remaining],
  paid     <- [d \in Serial |-> paid[d]]

(* When the client waits for one payment before it sends the next, every   *)
(* step of the service is a step of the ledger.                            *)
ImplementsLedger == Ledger!Spec

=============================================================================
