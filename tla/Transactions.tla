---------------------------- MODULE Transactions ----------------------------
(***************************************************************************)
(* Income and expense rows: transaction.service.ts over                    *)
(* transaction.repository.ts.  A create may carry an idempotency key; the  *)
(* table has a unique index on (user, key) that also covers soft-deleted   *)
(* rows.  create looks the key up, inserts, and when the insert collides   *)
(* looks again, frees the key from deleted rows and inserts once more;     *)
(* every one of these is an awaited statement of its own, so creates,      *)
(* deletions and edits interleave between any two of them.                 *)
(*                                                                         *)
(* A row is named by the request that inserts it.  All requests belong to  *)
(* one user: keys and rows of different users never meet.                  *)
(***************************************************************************)
EXTENDS Naturals

CONSTANTS
  Reqs,     \* create requests, and the rows they insert
  Keys,     \* idempotency keys clients send
  NoKey     \* a request without a key; a row whose key was freed (NULL)

ASSUME KeyAssumption == NoKey \notin Keys

VARIABLES
  tx,        \* the transactions table
  req,       \* create requests: where they are, the key they carry
  answer,    \* the row a finished create answered with
  deleting,  \* rows read by a DELETE that has not written yet
  editing,   \* rows read by a PATCH that has not written yet
  txAudit    \* audit_logs of this module

txVars == <<tx, req, answer, deleting, editing, txAudit>>

Phase == {"idle", "insert", "relookup", "release", "reinsert", "audit", "done", "failed", "lost"}

TxTypeOK ==
  /\ tx \in [Reqs -> [state : {"none", "live", "deleted"}, key : Keys \cup {NoKey}]]
  /\ req \in [Reqs -> [at : Phase, key : Keys \cup {NoKey}]]
  /\ answer \in [Reqs -> Reqs]
  /\ deleting \subseteq Reqs /\ editing \subseteq Reqs
  /\ txAudit \subseteq {"TRANSACTION_CREATED", "TRANSACTION_UPDATED", "TRANSACTION_DELETED"} \X Reqs

TxInit ==
  /\ tx = [r \in Reqs |-> [state |-> "none", key |-> NoKey]]
  /\ req = [r \in Reqs |-> [at |-> "idle", key |-> NoKey]]
  /\ answer = [r \in Reqs |-> r]
  /\ deleting = {} /\ editing = {} /\ txAudit = {}

-----------------------------------------------------------------------------
(* audit.record comes after the write; a process that stops in between     *)
(* leaves the write without its audit row.                                 *)
AuditOrStop(action, s) == txAudit' \in {txAudit, txAudit \cup {<<action, s>>}}

Goto(r, phase) == req' = [req EXCEPT ![r].at = phase]

(* findByIdempotencyKey skips deleted rows, the unique index does not. *)
LiveWith(k) == {s \in Reqs : tx[s].state = "live" /\ tx[s].key = k}
HeldBy(k)   == {s \in Reqs : tx[s].state # "none" /\ tx[s].key = k}

AnswerWith(r, s) ==
  /\ answer' = [answer EXCEPT ![r] = s]
  /\ Goto(r, "done")

(* Request r arrives with key k: a live row with that key is the answer. *)
Receive(r, k) ==
  /\ req[r].at = "idle"
  /\ \/ /\ k # NoKey
        /\ \E s \in LiveWith(k) :
             /\ answer' = [answer EXCEPT ![r] = s]
             /\ req' = [req EXCEPT ![r] = [at |-> "done", key |-> k]]
     \/ /\ k = NoKey \/ LiveWith(k) = {}
        /\ req' = [req EXCEPT ![r] = [at |-> "insert", key |-> k]]
        /\ UNCHANGED answer
  /\ UNCHANGED <<tx, deleting, editing, txAudit>>

(* Mutant: no unique index. *)
CollidesNever(r) == FALSE

Collides(r) == req[r].key # NoKey /\ HeldBy(req[r].key) # {}

(* transactions.create: the insert, or P2002 from the unique index. *)
InsertRow(r) ==
  /\ ~Collides(r)
  /\ tx' = [tx EXCEPT ![r] = [state |-> "live", key |-> req[r].key]]
  /\ Goto(r, "audit")

Insert(r) ==
  /\ req[r].at = "insert"
  /\ InsertRow(r) \/ (Collides(r) /\ Goto(r, "relookup") /\ UNCHANGED tx)
  /\ UNCHANGED <<answer, deleting, editing, txAudit>>

(* Mutant: the catch block does not look again. *)
RelookupSkipped(r) ==
  /\ req[r].at = "relookup"
  /\ Goto(r, "release")
  /\ UNCHANGED <<tx, answer, deleting, editing, txAudit>>

(* The catch block: whoever won the insert may still be live. *)
Relookup(r) ==
  /\ req[r].at = "relookup"
  /\ \/ \E s \in LiveWith(req[r].key) : AnswerWith(r, s)
     \/ LiveWith(req[r].key) = {} /\ Goto(r, "release") /\ UNCHANGED answer
  /\ UNCHANGED <<tx, deleting, editing, txAudit>>

(* Mutant: the release forgets deletedAt: { not: null }. *)
FreedLiveToo(s, k) == tx[s].state # "none" /\ tx[s].key = k

Freed(s, k) == tx[s].state = "deleted" /\ tx[s].key = k

(* releaseDeletedIdempotencyKey: one updateMany over the deleted rows. *)
Release(r) ==
  /\ req[r].at = "release"
  /\ tx' = [s \in Reqs |-> IF Freed(s, req[r].key) THEN [tx[s] EXCEPT !.key = NoKey] ELSE tx[s]]
  /\ Goto(r, "reinsert")
  /\ UNCHANGED <<answer, deleting, editing, txAudit>>

(* The second insert is outside the try: a second collision is an error. *)
Reinsert(r) ==
  /\ req[r].at = "reinsert"
  /\ InsertRow(r) \/ (Collides(r) /\ Goto(r, "failed") /\ UNCHANGED tx)
  /\ UNCHANGED <<answer, deleting, editing, txAudit>>

(* audit.record, then the answer. *)
AuditCreate(r) ==
  /\ req[r].at = "audit"
  /\ txAudit' = txAudit \cup {<<"TRANSACTION_CREATED", r>>}
  /\ AnswerWith(r, r)
  /\ UNCHANGED <<tx, deleting, editing>>

(* The process stops, or a statement fails, between two steps of r. *)
LoseRequest(r) ==
  /\ req[r].at \in {"insert", "relookup", "release", "reinsert", "audit"}
  /\ Goto(r, "lost")
  /\ UNCHANGED <<tx, answer, deleting, editing, txAudit>>

(* DELETE reads the live row, then writes deleted_at by id. *)
BeginDelete(s) ==
  /\ tx[s].state = "live"
  /\ deleting' = deleting \cup {s}
  /\ UNCHANGED <<tx, req, answer, editing, txAudit>>

CommitDelete(s) ==
  /\ s \in deleting
  /\ tx' = [tx EXCEPT ![s].state = "deleted"]
  /\ deleting' = deleting \ {s}
  /\ AuditOrStop("TRANSACTION_DELETED", s)
  /\ UNCHANGED <<req, answer, editing>>

(* PATCH reads the live row, then writes by id; neither key nor deleted_at *)
(* is among the columns it sets.                                           *)
BeginEdit(s) ==
  /\ tx[s].state = "live"
  /\ editing' = editing \cup {s}
  /\ UNCHANGED <<tx, req, answer, deleting, txAudit>>

CommitEdit(s) ==
  /\ s \in editing
  /\ editing' = editing \ {s}
  /\ AuditOrStop("TRANSACTION_UPDATED", s)
  /\ UNCHANGED <<tx, req, answer, deleting>>

TxServe(r) == Insert(r) \/ Relookup(r) \/ Release(r) \/ Reinsert(r) \/ AuditCreate(r)
TxClient(s) == BeginDelete(s) \/ CommitDelete(s) \/ BeginEdit(s) \/ CommitEdit(s)

TxNext ==
  \/ \E r \in Reqs, k \in Keys \cup {NoKey} : Receive(r, k)
  \/ \E r \in Reqs : TxServe(r) \/ LoseRequest(r) \/ TxClient(r)

TxSpec == TxInit /\ [][TxNext]_txVars

-----------------------------------------------------------------------------
(* Rows that were inserted with key k, whether they still hold it or not. *)
InsertedWith(k) == {s \in Reqs : tx[s].state # "none" /\ req[s].key = k}

(* The idempotency promise: as long as nobody deletes the row, every       *)
(* create that was answered for one key was answered with the same row,    *)
(* however the requests raced and whichever of them died half way.         *)
IdempotentAnswers ==
  \A r, s \in Reqs :
    /\ req[r].at = "done" /\ req[s].at = "done"
    /\ req[r].key = req[s].key /\ req[r].key # NoKey
    /\ \A d \in InsertedWith(req[r].key) : tx[d].state = "live"
    => answer[r] = answer[s]

(* A create is answered with a row inserted for the very key it carried;   *)
(* without a key, with a row of its own.                                   *)
AnswerIsForKey ==
  \A r \in Reqs : req[r].at = "done" =>
    /\ tx[answer[r]].state # "none"
    /\ req[answer[r]].key = req[r].key
    /\ req[r].key = NoKey => answer[r] = r

(* What a client may rely on that sends one key again and again.           *)
KeyedAnswers == IdempotentAnswers /\ AnswerIsForKey

(* The retry after P2002 may itself collide and fail, but only when a row  *)
(* of that key has been deleted: without deletions no create ever fails.   *)
FailsOnlyAfterDelete ==
  \A r \in Reqs : req[r].at = "failed" =>
    \E s \in InsertedWith(req[r].key) : tx[s].state = "deleted"

(* The balance counts live rows: one key never has two of them. *)
OneLiveRowPerKey ==
  \A r, s \in Reqs :
    tx[r].state = "live" /\ tx[s].state = "live" /\ req[r].key = req[s].key /\ req[r].key # NoKey
      => r = s

=============================================================================
