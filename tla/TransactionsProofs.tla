------------------------- MODULE TransactionsProofs -------------------------
(***************************************************************************)
(* Proofs about Transactions, for every set of requests and keys, and      *)
(* about TelegramChat, which confirms commands into it, for every set of   *)
(* updates.  What is proved of Transactions rests on KeyAssumption alone.  *)
(***************************************************************************)
EXTENDS TelegramChat, TLAPS

(* A row keeps the key of the request that inserted it until it is deleted *)
(* and the key is freed.                                                   *)
RowKeys ==
  \A s \in Reqs :
    /\ tx[s].state = "none" => tx[s].key = NoKey
    /\ tx[s].state = "live" => tx[s].key = req[s].key
    /\ tx[s].key \in {req[s].key, NoKey}

(* The unique index: two rows never hold the same key. *)
UniqueIndex ==
  \A r, s \in Reqs : tx[r].key = tx[s].key /\ tx[r].key # NoKey => r = s

(* Only requests past their insert have a row. *)
RowOwners ==
  \A s \in Reqs : tx[s].state # "none" => req[s].at \in {"audit", "done", "lost"}

AuditHasRow == \A r \in Reqs : req[r].at = "audit" => tx[r].state # "none"

(* A collision leaves a witness: some row was inserted with the key, and   *)
(* once the second look found nothing live, a deleted one.                 *)
CollisionWitness ==
  \A r \in Reqs :
    /\ req[r].at \in {"relookup", "release", "reinsert", "failed"} => req[r].key # NoKey
    /\ req[r].at = "relookup" => InsertedWith(req[r].key) # {}
    /\ req[r].at \in {"release", "reinsert", "failed"} =>
         \E s \in InsertedWith(req[r].key) : tx[s].state = "deleted"

(* A row can only be deleted after it was live. *)
DeletingRows == \A s \in deleting : tx[s].state # "none"

TxInv ==
  /\ TxTypeOK /\ RowKeys /\ UniqueIndex /\ RowOwners /\ AuditHasRow
  /\ CollisionWitness /\ DeletingRows /\ AnswerIsForKey

LEMMA TxInvInit == TxInit => TxInv
BY KeyAssumption DEF TxInit, TxInv, TxTypeOK, RowKeys, UniqueIndex, RowOwners, AuditHasRow,
       CollisionWitness, DeletingRows, AnswerIsForKey, Phase

(* A step that leaves the table alone and moves one request forward keeps  *)
(* everything said about rows.                                             *)
LEMMA RowsStay ==
  ASSUME TxInv, UNCHANGED tx, NEW r \in Reqs, NEW phase \in Phase, Goto(r, phase),
         req[r].at \in {"audit", "done", "lost"} => phase \in {"audit", "done", "lost"}
  PROVE  /\ RowKeys' /\ UniqueIndex' /\ RowOwners'
         /\ req' \in [Reqs -> [at : Phase, key : Keys \cup {NoKey}]]
         /\ \A s \in Reqs : req'[s].key = req[s].key
         /\ \A s \in Reqs \ {r} : req'[s] = req[s]
         /\ req'[r].at = phase
         /\ \A k : InsertedWith(k)' = InsertedWith(k)
<1>1. /\ \A s \in Reqs : req'[s].key = req[s].key
      /\ \A s \in Reqs \ {r} : req'[s] = req[s]
      /\ req'[r].at = phase
      /\ req' \in [Reqs -> [at : Phase, key : Keys \cup {NoKey}]]
  BY DEF Goto, TxInv, TxTypeOK
<1>2. RowKeys' /\ UniqueIndex' /\ RowOwners'
  BY <1>1 DEF TxInv, RowKeys, UniqueIndex, RowOwners
<1>3. QED
  BY <1>1, <1>2 DEF InsertedWith

LEMMA ReceiveInv ==
  ASSUME TxInv, NEW r \in Reqs, NEW k \in Keys \cup {NoKey}, Receive(r, k)
  PROVE  TxInv'
<1> USE DEF TxInv, TxTypeOK
<1>1. /\ req[r].at = "idle" /\ tx[r].state = "none" /\ tx[r].key = NoKey
      /\ UNCHANGED <<tx, deleting, editing, txAudit>>
  BY DEF Receive, RowOwners, RowKeys
<1>2. \A s \in Reqs \ {r} : req'[s] = req[s] /\ answer'[s] = answer[s]
  BY DEF Receive
<1>3. req'[r].key = k /\ req'[r].at \in {"insert", "done"}
  BY DEF Receive
<1>4. TxTypeOK'
  <2>1. answer' \in [Reqs -> Reqs]
    BY DEF Receive, LiveWith
  <2>2. PICK phase \in {"insert", "done"} : req' = [req EXCEPT ![r] = [at |-> phase, key |-> k]]
    BY DEF Receive
  <2>3. req' \in [Reqs -> [at : Phase, key : Keys \cup {NoKey}]]
    BY <2>2 DEF Phase
  <2>4. QED
    BY <1>1, <2>1, <2>3
<1>5. RowKeys' /\ UniqueIndex' /\ RowOwners' /\ AuditHasRow' /\ DeletingRows'
  BY <1>1, <1>2, <1>3, ZenonT(60) DEF RowKeys, UniqueIndex, RowOwners, AuditHasRow, DeletingRows
<1>6. \A j : InsertedWith(j) = InsertedWith(j)'
  BY <1>1, <1>2 DEF InsertedWith
<1>7. CollisionWitness'
  BY <1>1, <1>2, <1>3, <1>6 DEF CollisionWitness
<1>8. AnswerIsForKey'
  <2> SUFFICES ASSUME NEW s \in Reqs, req'[s].at = "done"
               PROVE  /\ tx[answer'[s]].state # "none"
                      /\ req'[answer'[s]].key = req'[s].key
                      /\ req'[s].key = NoKey => answer'[s] = s
    BY <1>1 DEF AnswerIsForKey
  <2>1. CASE s = r
    <3>1. k # NoKey /\ answer'[r] \in LiveWith(k)
      BY <2>1, <1>3 DEF Receive
    <3>2. QED
      BY <1>1, <1>2, <1>3, <2>1, <3>1 DEF LiveWith, RowKeys
  <2>2. CASE s # r
    BY <1>1, <1>2, <2>2 DEF AnswerIsForKey
  <2>3. QED
    BY <2>1, <2>2
<1>9. QED
  BY <1>4, <1>5, <1>7, <1>8

(* The insert itself, first or second: r gets a row, whose key nobody held. *)
LEMMA InsertRowInv ==
  ASSUME TxInv, NEW r \in Reqs, req[r].at \in {"insert", "reinsert"}, InsertRow(r),
         UNCHANGED <<answer, deleting, editing, txAudit>>
  PROVE  TxInv'
<1> USE DEF TxInv, TxTypeOK
<1>1. tx[r].state = "none" /\ tx[r].key = NoKey
  BY DEF RowOwners, RowKeys
<1>2. /\ tx' = [tx EXCEPT ![r] = [state |-> "live", key |-> req[r].key]]
      /\ req' = [req EXCEPT ![r].at = "audit"]
      /\ req[r].key = NoKey \/ \A s \in Reqs : tx[s].state = "none" \/ tx[s].key # req[r].key
  BY DEF InsertRow, Goto, Collides, HeldBy
<1>3. \A s \in Reqs \ {r} : req'[s] = req[s] /\ tx'[s] = tx[s]
  BY <1>2
<1>4. /\ req'[r].key = req[r].key /\ req'[r].at = "audit"
      /\ tx'[r].state = "live" /\ tx'[r].key = req[r].key
  BY <1>2
<1>5. TxTypeOK'
  BY <1>2 DEF Phase
<1>6. RowKeys' /\ RowOwners' /\ AuditHasRow' /\ DeletingRows'
  BY <1>3, <1>4, ZenonT(60) DEF RowKeys, RowOwners, AuditHasRow, DeletingRows
<1>7. UniqueIndex'
  BY <1>2, <1>3, <1>4 DEF UniqueIndex, RowKeys
<1>8. CollisionWitness'
  <2>1. \A k : InsertedWith(k) \subseteq InsertedWith(k)'
    BY <1>1, <1>3 DEF InsertedWith
  <2>2. \A s \in Reqs : tx[s].state = "deleted" => tx'[s].state = "deleted"
    BY <1>1, <1>3
  <2>3. ASSUME NEW s \in Reqs, req'[s].at \in {"relookup", "release", "reinsert", "failed"}
        PROVE  /\ s # r /\ req'[s] = req[s] /\ req[s].key # NoKey
               /\ req[s].at = "relookup" => InsertedWith(req[s].key) # {}
               /\ req[s].at \in {"release", "reinsert", "failed"} =>
                    \E u \in InsertedWith(req[s].key) : tx[u].state = "deleted"
    BY <1>3, <1>4, <2>3 DEF CollisionWitness
  <2>4. \A k : \A u \in InsertedWith(k) : u \in Reqs
    BY DEF InsertedWith
  <2>5. QED
    BY <2>1, <2>2, <2>3, <2>4 DEF CollisionWitness
<1>9. AnswerIsForKey'
  <2> SUFFICES ASSUME NEW s \in Reqs, req'[s].at = "done"
               PROVE  /\ tx'[answer[s]].state # "none"
                      /\ req'[answer[s]].key = req'[s].key
                      /\ req'[s].key = NoKey => answer[s] = s
    BY DEF AnswerIsForKey
  <2>1. s # r
    BY <1>4
  <2>2. tx[answer[s]].state # "none" /\ req[answer[s]].key = req[s].key
        /\ (req[s].key = NoKey => answer[s] = s)
    BY <1>3, <2>1 DEF AnswerIsForKey
  <2>3. QED
    BY <1>3, <1>4, <2>1, <2>2
<1>10. QED
  BY <1>5, <1>6, <1>7, <1>8, <1>9

LEMMA CollideInv ==
  ASSUME TxInv, NEW r \in Reqs, Collides(r), UNCHANGED <<tx, answer, deleting, editing, txAudit>>,
         \/ req[r].at = "insert" /\ Goto(r, "relookup")
         \/ req[r].at = "reinsert" /\ Goto(r, "failed")
  PROVE  TxInv'
<1> USE DEF TxInv, TxTypeOK
<1>1. req[r].key # NoKey /\ InsertedWith(req[r].key) # {}
  BY DEF Collides, HeldBy, InsertedWith, RowKeys
<1>2. PICK phase \in {"relookup", "failed"} :
        Goto(r, phase) /\ (phase = "relookup" => req[r].at = "insert")
                       /\ (phase = "failed" => req[r].at = "reinsert")
  OBVIOUS
<1>3. /\ RowKeys' /\ UniqueIndex' /\ RowOwners'
      /\ req' \in [Reqs -> [at : Phase, key : Keys \cup {NoKey}]]
      /\ \A s \in Reqs : req'[s].key = req[s].key
      /\ \A s \in Reqs \ {r} : req'[s] = req[s]
      /\ req'[r].at = phase
      /\ \A k : InsertedWith(k)' = InsertedWith(k)
  BY <1>2, RowsStay DEF Phase
<1>4. TxTypeOK' /\ AuditHasRow' /\ DeletingRows'
  BY <1>3 DEF AuditHasRow, DeletingRows
<1>5. CollisionWitness'
  BY <1>1, <1>2, <1>3 DEF CollisionWitness
<1>6. AnswerIsForKey'
  BY <1>3 DEF AnswerIsForKey
<1>7. QED
  BY <1>3, <1>4, <1>5, <1>6

LEMMA RelookupInv ==
  ASSUME TxInv, NEW r \in Reqs, Relookup(r)
  PROVE  TxInv'
<1> USE DEF TxInv, TxTypeOK
<1>1. UNCHANGED <<tx, deleting, editing, txAudit>> /\ req[r].at = "relookup"
  BY DEF Relookup
<1>2. PICK phase \in {"done", "release"} : Goto(r, phase)
  BY DEF Relookup, AnswerWith
<1>3. /\ RowKeys' /\ UniqueIndex' /\ RowOwners'
      /\ req' \in [Reqs -> [at : Phase, key : Keys \cup {NoKey}]]
      /\ \A s \in Reqs : req'[s].key = req[s].key
      /\ \A s \in Reqs \ {r} : req'[s] = req[s]
      /\ req'[r].at = phase
      /\ \A k : InsertedWith(k)' = InsertedWith(k)
  BY <1>1, <1>2, RowsStay DEF Phase
<1>4. /\ phase = "done" => answer'[r] \in LiveWith(req[r].key)
      /\ phase = "release" => LiveWith(req[r].key) = {}
      /\ answer' \in [Reqs -> Reqs] /\ \A s \in Reqs \ {r} : answer'[s] = answer[s]
  BY <1>2, <1>3, SMTT(20) DEF Relookup, AnswerWith, LiveWith, Goto
<1>5. TxTypeOK' /\ AuditHasRow' /\ DeletingRows'
  BY <1>1, <1>2, <1>3, <1>4 DEF AuditHasRow, DeletingRows
<1>6. CollisionWitness'
  <2>1. req[r].key # NoKey /\ InsertedWith(req[r].key) # {}
    BY <1>1 DEF CollisionWitness
  <2>2. phase = "release" => \E s \in InsertedWith(req[r].key) : tx[s].state = "deleted"
    BY <1>4, <2>1 DEF InsertedWith, LiveWith, RowKeys
  <2>3. QED
    BY <1>1, <1>3, <2>1, <2>2 DEF CollisionWitness
<1>7. AnswerIsForKey'
  <2>1. phase = "done" => tx[answer'[r]].state # "none" /\ req[answer'[r]].key = req[r].key
                          /\ req[r].key # NoKey
    BY <1>1, <1>4 DEF LiveWith, RowKeys, CollisionWitness
  <2>2. QED
    BY <1>1, <1>3, <1>4, <2>1 DEF AnswerIsForKey
<1>8. QED
  BY <1>3, <1>5, <1>6, <1>7

LEMMA TxInvNext == TxInv /\ [TxNext]_txVars => TxInv'
<1> SUFFICES ASSUME TxInv, [TxNext]_txVars PROVE TxInv'
  OBVIOUS
<1> USE KeyAssumption
    DEF TxInv, TxTypeOK, Phase, RowKeys, UniqueIndex, RowOwners, AuditHasRow, CollisionWitness,
        DeletingRows, AnswerIsForKey, InsertedWith
<1>1. ASSUME NEW r \in Reqs, NEW k \in Keys \cup {NoKey}, Receive(r, k)
      PROVE  TxInv'
  BY <1>1, ReceiveInv
<1>2. ASSUME NEW r \in Reqs, Insert(r)
      PROVE  TxInv'
  BY <1>2, InsertRowInv, CollideInv DEF Insert
<1>3. ASSUME NEW r \in Reqs, Relookup(r)
      PROVE  TxInv'
  BY <1>3, RelookupInv
<1>4. ASSUME NEW r \in Reqs, Release(r)
      PROVE  TxInv'
  BY <1>4 DEF Release, Freed, Goto
<1>5. ASSUME NEW r \in Reqs, Reinsert(r)
      PROVE  TxInv'
  BY <1>5, InsertRowInv, CollideInv DEF Reinsert
<1>6. ASSUME NEW r \in Reqs, AuditCreate(r)
      PROVE  TxInv'
  BY <1>6 DEF AuditCreate, AnswerWith, Goto
<1>7. ASSUME NEW r \in Reqs, LoseRequest(r)
      PROVE  TxInv'
  BY <1>7 DEF LoseRequest, Goto
<1>8. ASSUME NEW s \in Reqs, BeginDelete(s) \/ BeginEdit(s) \/ CommitEdit(s)
      PROVE  TxInv'
  BY <1>8 DEF BeginDelete, BeginEdit, CommitEdit, AuditOrStop
<1>9. ASSUME NEW s \in Reqs, CommitDelete(s)
      PROVE  TxInv'
  BY <1>9 DEF CommitDelete, AuditOrStop
<1>10. CASE UNCHANGED txVars
  BY <1>10 DEF txVars
<1>11. QED
  BY <1>1, <1>2, <1>3, <1>4, <1>5, <1>6, <1>7, <1>8, <1>9, <1>10 DEF TxNext, TxServe, TxClient

LEMMA TxInvHolds == TxSpec => []TxInv
BY TxInvInit, TxInvNext, PTL DEF TxSpec

(* Type correctness. *)
THEOREM TxTypeCorrect == TxSpec => []TxTypeOK
<1>1. TxInv => TxTypeOK
  BY DEF TxInv
<1>2. QED
  BY TxInvHolds, <1>1, PTL

(* As long as the row of a key is not deleted, every create answered for   *)
(* that key was answered with one and the same row.                        *)
THEOREM Idempotent == TxSpec => []IdempotentAnswers
<1>1. TxInv => IdempotentAnswers
  BY DEF TxInv, TxTypeOK, IdempotentAnswers, AnswerIsForKey, RowKeys, UniqueIndex, InsertedWith
<1>2. QED
  BY TxInvHolds, <1>1, PTL

(* No create is ever answered with the row of another key. *)
THEOREM AnswersMatch == TxSpec => []AnswerIsForKey
<1>1. TxInv => AnswerIsForKey
  BY DEF TxInv
<1>2. QED
  BY TxInvHolds, <1>1, PTL

(* For any number of racing creates the answers for one key are one row,   *)
(* and a row of that key.                                                  *)
THEOREM KeyedAnswersMatch == TxSpec => []KeyedAnswers
BY Idempotent, AnswersMatch, PTL DEF KeyedAnswers

(* A create fails only when a row of its key has been deleted. *)
THEOREM FailureNeedsDelete == TxSpec => []FailsOnlyAfterDelete
<1>1. TxInv => FailsOnlyAfterDelete
  BY DEF TxInv, FailsOnlyAfterDelete, CollisionWitness
<1>2. QED
  BY TxInvHolds, <1>1, PTL

(* One key never has two live rows. *)
THEOREM OneLiveRow == TxSpec => []OneLiveRowPerKey
<1>1. TxInv => OneLiveRowPerKey
  BY DEF TxInv, TxTypeOK, OneLiveRowPerKey, RowKeys, UniqueIndex
<1>2. QED
  BY TxInvHolds, <1>1, PTL

-----------------------------------------------------------------------------
(* The chat.  What a handler works on is what its tap named: a button that *)
(* reached the user, of a text that was sent.                              *)
Tapped(u) ==
  /\ sent[u].kind = "ok" /\ handler[u].read = sent[u].token /\ sent[u].token \in buttons

HandlersOfUpdates ==
  \A u \in Reqs :
    /\ u \notin processed => handler[u].at = "idle"
    /\ handler[u].at # "idle" => sent[u] # NotSent
    /\ handler[u].at = "show" => sent[u] \in Text
    /\ handler[u].at \in {"commit", "create", "label"} => Tapped(u)
    /\ handler[u].at = "cancel" => handler[u].read \in buttons

ButtonsOfTexts ==
  /\ \A t \in buttons : sent[t] \in Text
  /\ \A u \in Reqs : sent[u].kind \in {"ok", "no", "skip"} => sent[u].token \in buttons

(* Nothing is stored before the button was read, and what is stored is of  *)
(* the token that was tapped.                                              *)
StoredByTaps ==
  /\ \A u \in Reqs : handler[u].at \in {"idle", "start"} =>
       req[u].at = "idle" /\ \A s \in saved : s.by # u
  /\ \A u \in Reqs : req[u].at # "idle" => Tapped(u) /\ req[u].key = sent[u].token
  /\ \A s \in saved : Tapped(s.by)

(* A label waits for the create, and only labels what was shown.           *)
LabelsOfRows ==
  /\ \A u \in Reqs : handler[u].at = "label" /\ sent[handler[u].read].kind = "keyed" => req[u].at = "done"
  /\ \A t \in Reqs : outcome[t] # "none" => t \in buttons

ChatSafe ==
  /\ HandlersOfUpdates /\ ButtonsOfTexts /\ StoredByTaps /\ LabelsOfRows /\ ConfirmedWasSaved
ChatInv == TypeOK /\ TxInv /\ ChatSafe

LEMMA ChatStart == Init => ChatInv
<1> SUFFICES ASSUME Init PROVE ChatInv
  OBVIOUS
<1>1. TxInv
  BY TxInvInit DEF Init
<1>2. TypeOK
  BY <1>1 DEF Init, TypeOK, TxInv, Place
<1>3. /\ \A u \in Reqs : sent[u] = NotSent /\ handler[u].at = "idle" /\ req[u].at = "idle"
      /\ saved = {} /\ buttons = {} /\ \A t \in Reqs : outcome[t] = "none"
  BY DEF Init, TxInit
<1>4. \A u \in Reqs : sent[u].kind = "none"
  <2>1. NotSent.kind = "none"
    BY DEF NotSent
  <2>2. QED
    BY <1>3, <2>1, Zenon
<1>5. ChatSafe
  BY <1>3, <1>4 DEF ChatSafe, HandlersOfUpdates, ButtonsOfTexts, StoredByTaps, LabelsOfRows, ConfirmedWasSaved
<1>6. QED
  BY <1>1, <1>2, <1>5 DEF ChatInv

(* Every step of the chat is one of the service, or a crash, which leaves  *)
(* several of its requests without an answer at once.                      *)
LEMMA CrashTx == TxInv /\ Crash => TxInv'
<1> SUFFICES ASSUME TxInv, Crash PROVE TxInv'
  OBVIOUS
<1>1. /\ UNCHANGED <<tx, answer, deleting, editing, txAudit>>
      /\ req' = [u \in Reqs |-> IF req[u].at \in {"idle", "done", "failed"} THEN req[u]
                                ELSE [req[u] EXCEPT !.at = "lost"]]
  BY DEF Crash
<1>2. TxTypeOK
  BY DEF TxInv
<1>3. ASSUME NEW u \in Reqs
      PROVE  /\ req'[u] \in [at : Phase, key : Keys \cup {NoKey}]
             /\ req'[u].key = req[u].key
             /\ req'[u].at = IF req[u].at \in {"idle", "done", "failed"} THEN req[u].at ELSE "lost"
  <2>1. req[u] \in [at : Phase, key : Keys \cup {NoKey}]
    BY <1>2 DEF TxTypeOK
  <2>2. CASE req[u].at \in {"idle", "done", "failed"}
    BY <1>1, <2>1, <2>2
  <2>3. CASE req[u].at \notin {"idle", "done", "failed"}
    <3>1. req'[u] = [req[u] EXCEPT !.at = "lost"]
      BY <1>1, <2>3
    <3>2. QED
      BY <2>1, <2>3, <3>1 DEF Phase
  <2>4. QED
    BY <2>2, <2>3
<1>4. TxTypeOK'
  <2>1. req' \in [Reqs -> [at : Phase, key : Keys \cup {NoKey}]]
    BY <1>1, <1>3
  <2>2. QED
    BY <1>1, <1>2, <2>1 DEF TxTypeOK
<1>5. RowKeys' /\ UniqueIndex' /\ RowOwners' /\ AuditHasRow' /\ DeletingRows'
  BY <1>1, <1>3 DEF TxInv, RowKeys, UniqueIndex, RowOwners, AuditHasRow, DeletingRows
<1>6. \A k : InsertedWith(k)' = InsertedWith(k)
  BY <1>1, <1>3 DEF InsertedWith
<1>7. CollisionWitness'
  BY <1>1, <1>3, <1>6 DEF TxInv, CollisionWitness
<1>8. AnswerIsForKey'
  BY <1>1, <1>2, <1>3 DEF TxInv, TxTypeOK, AnswerIsForKey
<1>9. QED
  BY <1>4, <1>5, <1>7, <1>8 DEF TxInv

LEMMA ChatTx == ChatInv /\ [Next]_vars => TxInv'
<1> SUFFICES ASSUME ChatInv, [Next]_vars PROVE TxInv'
  OBVIOUS
<1>1. CASE UNCHANGED txVars
  BY <1>1, TxInvNext DEF ChatInv
<1>2. ASSUME NEW u \in Reqs, CommitKeyed(u) PROVE TxInv'
  <2>1. sent[u].token \in Keys
    BY <1>2, TokenAssumption DEF CommitKeyed, At, ChatInv, ChatSafe, HandlersOfUpdates, Tapped, TypeOK
  <2>2. Receive(u, sent[u].token)
    BY <1>2 DEF CommitKeyed
  <2>3. QED
    BY <2>1, <2>2, ReceiveInv DEF ChatInv
<1>3. ASSUME NEW u \in Reqs, CreateStep(u) PROVE TxInv'
  BY <1>3, TxInvNext DEF CreateStep, ChatInv, TxNext
<1>4. ASSUME NEW u \in Reqs, MiniAppDelete(u) PROVE TxInv'
  BY <1>4, TxInvNext DEF MiniAppDelete, ChatInv, TxNext, TxClient
<1>5. CASE Crash
  BY <1>5, CrashTx DEF ChatInv
<1>6. QED
  BY <1>1, <1>2, <1>3, <1>4, <1>5
     DEF Next, vars, Handle, Send, Deliver, ClaimError, SavePending, ShowButtons, ReadPending, ReadQuestion,
         CreateReturned, CommitUnkeyed, LabelConfirmed, LabelCanceled, Label, ClearPending, Throw, Expire

(* What the types say of one update.                                       *)
LEMMA UpdateTypes ==
  ASSUME ChatInv
  PROVE  /\ TypeOK /\ TxTypeOK /\ TxInv /\ ChatSafe
         /\ \A u \in Reqs : handler[u] \in [at : Place, read : Reqs \cup {NoKey}]
         /\ \A u \in Reqs : sent[u] \in Text \cup Tap \cup {NotSent}
         /\ \A t \in buttons : t \in Reqs
BY DEF ChatInv, TypeOK

LEMMA Kinds ==
  /\ \A c \in Text : c.kind \in {"keyed", "unkeyed", "question"} /\ c # NotSent /\ c \notin Tap
  /\ \A c \in Tap : c.kind \in {"ok", "no", "skip"} /\ c.token \in Reqs /\ c # NotSent
  /\ NotSent.kind = "none"
<1>1. \A c \in Text : c.kind \in {"keyed", "unkeyed", "question"}
  BY DEF Text, Command, Income, Question
<1>2. \A c \in Tap : c.kind \in {"ok", "no", "skip"} /\ c.token \in Reqs
  BY DEF Tap
<1>3. NotSent.kind = "none"
  BY DEF NotSent
<1>4. QED
  BY <1>1, <1>2, <1>3

LEMMA ChatTypes == ChatInv /\ [Next]_vars => TypeOK'
<1> SUFFICES ASSUME ChatInv, [Next]_vars PROVE TypeOK'
  OBVIOUS
<1>0. TypeOK /\ TxTypeOK'
  BY ChatTx DEF ChatInv, TxInv
<1> DEFINE H == [Reqs -> [at : Place, read : Reqs \cup {NoKey}]]
<1>1. ASSUME NEW u \in Reqs, NEW place \in Place PROVE [handler EXCEPT ![u].at = place] \in H
  BY <1>0 DEF TypeOK
<1>2. ASSUME NEW u \in Reqs, NEW place \in Place, NEW t \in Reqs
      PROVE  [handler EXCEPT ![u] = [at |-> place, read |-> t]] \in H
  BY <1>0 DEF TypeOK
<1> HIDE DEF H
<1>3. /\ handler \in H /\ processed \subseteq Reqs /\ acked \subseteq Reqs /\ buttons \subseteq Reqs
      /\ sent \in [Reqs -> Text \cup Tap \cup {NotSent}] /\ conv \in {{}} \cup {{t} : t \in Reqs}
      /\ saved \subseteq [by : Reqs, command : Reqs]
      /\ outcome \in [Reqs -> {"none", "CONFIRMED", "CANCELED"}]
  BY <1>0 DEF TypeOK, H
<1>4. ASSUME handler' \in H, processed' \subseteq Reqs, acked' \subseteq Reqs, buttons' \subseteq Reqs,
             sent' \in [Reqs -> Text \cup Tap \cup {NotSent}], conv' \in {{}} \cup {{t} : t \in Reqs},
             saved' \subseteq [by : Reqs, command : Reqs],
             outcome' \in [Reqs -> {"none", "CONFIRMED", "CANCELED"}]
      PROVE  TypeOK'
  BY <1>0, <1>4 DEF TypeOK, H
<1>5. {"start", "show", "commit", "create", "label", "cancel", "clear", "done", "told", "dead"} \subseteq Place
  BY DEF Place
<1>6. ASSUME NEW u \in Reqs, Send(u) PROVE TypeOK'
  <2>1. PICK c \in Text \cup Tap : sent' = [sent EXCEPT ![u] = c]
    BY <1>6 DEF Send
  <2>2. sent' \in [Reqs -> Text \cup Tap \cup {NotSent}]
    BY <1>3, <2>1
  <2>3. QED
    BY <1>3, <1>4, <1>6, <2>2 DEF Send
<1>7. ASSUME NEW u \in Reqs, Deliver(u) \/ ClaimError(u) PROVE TypeOK'
  <2>1. handler' \in H
    BY <1>1, <1>3, <1>5, <1>7 DEF Deliver, ClaimError
  <2>2. QED
    BY <1>3, <1>4, <1>7, <2>1 DEF Deliver, ClaimError
<1>8. ASSUME NEW u \in Reqs, SavePending(u) \/ ShowButtons(u) PROVE TypeOK'
  <2>1. handler' \in H
    BY <1>1, <1>5, <1>8 DEF SavePending, ShowButtons, Finish, Move
  <2>2. QED
    BY <1>3, <1>4, <1>8, <2>1 DEF SavePending, ShowButtons, Finish, Move
<1>9. ASSUME NEW u \in Reqs, ReadPending(u) PROVE TypeOK'
  <2>1. handler' \in H
    <3>1. CASE \E t \in conv : handler' = [handler EXCEPT ![u] =
                 [at |-> IF sent[u].kind = "ok" THEN "commit" ELSE "cancel", read |-> t]]
      <4>1. PICK t \in Reqs : handler' = [handler EXCEPT ![u] =
                 [at |-> IF sent[u].kind = "ok" THEN "commit" ELSE "cancel", read |-> t]]
        <5>1. \A t \in conv : t \in Reqs
          BY <1>3
        <5>2. QED
          BY <3>1, <5>1, Zenon
      <4>2. PICK place : place = IF sent[u].kind = "ok" THEN "commit" ELSE "cancel"
        OBVIOUS
      <4>4. place \in Place
        BY <1>5, <4>2
      <4>3. QED
        BY <1>2, <4>1, <4>2, <4>4
    <3>2. CASE Finish(u)
      BY <1>1, <1>5, <3>2 DEF Finish, Move
    <3>3. QED
      BY <1>9, <3>1, <3>2 DEF ReadPending
  <2>2. acked' \subseteq Reqs
    BY <1>3, <1>9 DEF ReadPending, Finish
  <2>3. QED
    BY <1>3, <1>4, <1>9, <2>1, <2>2 DEF ReadPending
<1>10. ASSUME NEW u \in Reqs, ReadQuestion(u) \/ CommitKeyed(u) \/ CreateReturned(u) \/ Throw(u)
       PROVE  TypeOK'
  <2>1. handler' \in H
    BY <1>1, <1>5, <1>10 DEF ReadQuestion, CommitKeyed, CreateReturned, Throw, Finish, Move
  <2>2. acked' \subseteq Reqs
    BY <1>3, <1>10 DEF ReadQuestion, CommitKeyed, CreateReturned, Throw, Finish
  <2>3. QED
    BY <1>3, <1>4, <1>10, <2>1, <2>2 DEF ReadQuestion, CommitKeyed, CreateReturned, Throw
<1>11. ASSUME NEW u \in Reqs, CommitUnkeyed(u) PROVE TypeOK'
  <2>1. handler' \in H /\ acked' \subseteq Reqs
    BY <1>1, <1>3, <1>5, <1>11 DEF CommitUnkeyed, Finish, Move
  <2>2. handler[u].read \in Reqs
    BY <1>11, UpdateTypes DEF CommitUnkeyed, At, ChatSafe, HandlersOfUpdates, Tapped
  <2>3. saved' \subseteq [by : Reqs, command : Reqs]
    BY <1>3, <1>11, <2>2 DEF CommitUnkeyed
  <2>4. QED
    BY <1>3, <1>4, <1>11, <2>1, <2>3 DEF CommitUnkeyed
<1>12. ASSUME NEW u \in Reqs, LabelConfirmed(u) \/ LabelCanceled(u) PROVE TypeOK'
  <2>1. PICK place \in {"label", "cancel"}, result \in {"CONFIRMED", "CANCELED"} : Label(u, place, result)
    BY <1>12 DEF LabelConfirmed, LabelCanceled
  <2>2. outcome' \in [Reqs -> {"none", "CONFIRMED", "CANCELED"}]
    BY <1>3, <2>1 DEF Label
  <2>3. handler' \in H
    BY <1>1, <1>5, <2>1 DEF Label, Move
  <2>4. QED
    BY <1>3, <1>4, <2>1, <2>2, <2>3 DEF Label
<1>13. ASSUME NEW u \in Reqs, ClearPending(u) PROVE TypeOK'
  <2>1. PICK place \in {"done", "told"} : Move(u, place)
    BY <1>13 DEF ClearPending
  <2>2. handler' \in H
    BY <1>1, <1>5, <2>1 DEF Move
  <2>3. QED
    BY <1>3, <1>4, <1>13, <2>2 DEF ClearPending
<1>14. CASE Expire
  BY <1>3, <1>4, <1>14 DEF Expire
<1>15. CASE Crash
  <2>1. handler' \in H
    <3>1. \A u \in Reqs : handler[u] \in [at : Place, read : Reqs \cup {NoKey}]
      BY <1>3 DEF H
    <3>2. \A u \in Reqs : [handler[u] EXCEPT !.at = "dead"] \in [at : Place, read : Reqs \cup {NoKey}]
      BY <1>5, <3>1
    <3>3. QED
      BY <1>15, <3>1, <3>2 DEF Crash, H
  <2>2. QED
    BY <1>3, <1>4, <1>15, <2>1 DEF Crash
<1>16. ASSUME UNCHANGED chatVars PROVE TypeOK'
  BY <1>3, <1>4, <1>16 DEF chatVars
<1>17. QED
  BY <1>6, <1>7, <1>8, <1>9, <1>10, <1>11, <1>12, <1>13, <1>14, <1>15, <1>16
     DEF Next, Handle, CreateStep, MiniAppDelete, vars

(* The handler of one update moves, and has read what it had.              *)
MovesAlone(u) ==
  \A v \in Reqs : handler'[v].read = handler[v].read /\ (v # u => handler'[v].at = handler[v].at)

LEMMA Moved ==
  ASSUME ChatInv, NEW u \in Reqs, NEW place, Move(u, place)
  PROVE  MovesAlone(u) /\ handler'[u].at = place
BY UpdateTypes DEF TypeOK, MovesAlone, Move

(* The steps of one handler: it goes to a place it may be at, and what it  *)
(* stores, shows or labels is of the token it was tapped with.             *)
LEMMA HandlerMoves ==
  ASSUME ChatInv, NEW u \in Reqs, MovesAlone(u),
         sent' = sent, processed \subseteq processed',
         buttons \subseteq buttons', \A t \in buttons' : sent[t] \in Text,
         \A s \in saved' : s \in saved \/ (s.by = u /\ Tapped(u) /\ handler'[u].at \notin {"idle", "start"}),
         \A v \in Reqs : req'[v].at # "idle" =>
           \/ req[v].at # "idle" /\ req'[v].key = req[v].key
           \/ v = u /\ Tapped(u) /\ req'[u].key = sent[u].token /\ handler'[u].at \notin {"idle", "start"},
         \A v \in Reqs : req[v].at = "done" => req'[v].at = "done",
         \A t \in Reqs : outcome'[t] # "none" => outcome[t] # "none" \/ t \in buttons,
         ConfirmedWasSaved',
         (u \in processed' /\ sent[u] # NotSent) \/ handler'[u].at = handler[u].at,
         handler'[u].at \in {"idle", "start"} => handler[u].at \in {"idle", "start"},
         handler'[u].at = "show" => sent[u] \in Text,
         handler'[u].at \in {"commit", "create", "label"} => Tapped(u),
         handler'[u].at = "cancel" => handler[u].read \in buttons,
         handler'[u].at = "label" /\ sent[handler[u].read].kind = "keyed" => req'[u].at = "done"
  PROVE  ChatSafe'
<1>1. \A v \in Reqs : /\ handler'[v].read = handler[v].read
                      /\ v # u => handler'[v].at = handler[v].at
  BY DEF MovesAlone
<1>2. \A v \in Reqs : Tapped(v) => Tapped(v)'
  BY <1>1 DEF Tapped
<1>3. HandlersOfUpdates'
  <2> SUFFICES ASSUME NEW v \in Reqs
               PROVE  /\ v \notin processed' => handler'[v].at = "idle"
                      /\ handler'[v].at # "idle" => sent[v] # NotSent
                      /\ handler'[v].at = "show" => sent[v] \in Text
                      /\ handler'[v].at \in {"commit", "create", "label"} => Tapped(v)'
                      /\ handler'[v].at = "cancel" => handler'[v].read \in buttons'
    BY DEF HandlersOfUpdates
  <2>1. CASE v = u
    BY <1>1, <1>2, <2>1, UpdateTypes DEF ChatSafe, HandlersOfUpdates
  <2>2. CASE v # u
    BY <1>1, <1>2, <2>2, UpdateTypes DEF ChatSafe, HandlersOfUpdates
  <2>3. QED
    BY <2>1, <2>2
<1>4. ButtonsOfTexts'
  BY UpdateTypes DEF ChatSafe, ButtonsOfTexts
<1>5. StoredByTaps'
  <2>1. \A s \in saved : s.by \in Reqs
    BY UpdateTypes DEF TypeOK
  <2>2. /\ \A v \in Reqs : handler[v].at \in {"idle", "start"} => req[v].at = "idle" /\ \A s \in saved : s.by # v
        /\ \A v \in Reqs : req[v].at # "idle" => Tapped(v) /\ req[v].key = sent[v].token
        /\ \A s \in saved : Tapped(s.by)
    BY UpdateTypes DEF ChatSafe, StoredByTaps
  <2>3. ASSUME NEW v \in Reqs, handler'[v].at \in {"idle", "start"}
        PROVE  req'[v].at = "idle" /\ \A s \in saved' : s.by # v
    BY <1>1, <2>1, <2>2, <2>3
  <2>4. ASSUME NEW v \in Reqs, req'[v].at # "idle"
        PROVE  Tapped(v)' /\ req'[v].key = sent'[v].token
    BY <1>2, <2>2, <2>4
  <2>5. ASSUME NEW s \in saved' PROVE Tapped(s.by)'
    <3>1. PICK v : v = s.by
      OBVIOUS
    <3>2. v \in Reqs /\ Tapped(v)
      BY <2>1, <2>2, <3>1
    <3>3. Tapped(v)'
      BY <1>2, <3>2
    <3>4. QED
      BY <3>1, <3>3 DEF Tapped
  <2>6. QED
    BY <2>3, <2>4, <2>5 DEF StoredByTaps
<1>6. LabelsOfRows'
  BY <1>1, UpdateTypes DEF ChatSafe, LabelsOfRows
<1>7. QED
  BY <1>3, <1>4, <1>5, <1>6 DEF ChatSafe

(* A row that was inserted stays inserted, so its label does too.          *)
LEMMA LabelsStay ==
  ASSUME ChatInv, sent' = sent, outcome' = outcome,
         \A v \in Reqs : handler'[v].read = handler[v].read,
         \A v \in Reqs : tx[v].state # "none" => tx'[v].state # "none"
  PROVE  ConfirmedWasSaved'
BY UpdateTypes DEF ChatSafe, ConfirmedWasSaved, RowsOf

LEMMA TxKeeps ==
  ASSUME ChatInv, NEW u \in Reqs, CreateStep(u) \/ MiniAppDelete(u)
  PROVE  /\ UNCHANGED chatVars
         /\ \A v \in Reqs : tx[v].state # "none" => tx'[v].state # "none"
         /\ \A v \in Reqs : req'[v].key = req[v].key /\ (req'[v].at # "idle" => req[v].at # "idle")
         /\ \A v \in Reqs : req[v].at = "done" => req'[v].at = "done"
<1>0. TxTypeOK /\ DeletingRows
  BY UpdateTypes DEF TxInv
<1>1. UNCHANGED chatVars
  BY DEF CreateStep, MiniAppDelete
<1>2. CASE CreateStep(u)
  <2>1. \A v \in Reqs : tx[v].state # "none" => tx'[v].state # "none"
    BY <1>0, <1>2 DEF CreateStep, TxServe, LoseRequest, Insert, Relookup, Release, Reinsert, AuditCreate,
       InsertRow, TxTypeOK, Freed
  <2>2. /\ req[u].at \notin {"idle", "done"}
        /\ \E phase \in Phase : req' = [req EXCEPT ![u].at = phase]
    BY <1>2 DEF CreateStep, TxServe, LoseRequest, Insert, Relookup, Release, Reinsert, AuditCreate,
       InsertRow, AnswerWith, Goto, Phase
  <2>3. /\ \A v \in Reqs : req'[v].key = req[v].key /\ (req'[v].at # "idle" => req[v].at # "idle")
        /\ \A v \in Reqs : req[v].at = "done" => req'[v].at = "done"
    BY <1>0, <2>2 DEF TxTypeOK
  <2>4. QED
    BY <1>1, <2>1, <2>3
<1>3. CASE MiniAppDelete(u)
  <2>1. req' = req
    BY <1>3 DEF MiniAppDelete, BeginDelete, CommitDelete
  <2>2. \A v \in Reqs : tx[v].state # "none" => tx'[v].state # "none"
    BY <1>0, <1>3, SMTT(20) DEF MiniAppDelete, BeginDelete, CommitDelete, TxTypeOK
  <2>3. QED
    BY <1>1, <2>1, <2>2
<1>4. QED
  BY <1>2, <1>3

(* What a step from a place on finds.                                      *)
LEMMA Handling ==
  ASSUME ChatInv, NEW u \in Reqs, handler[u].at # "idle"
  PROVE  /\ u \in processed /\ sent[u] # NotSent
         /\ handler[u].at = "show" => sent[u] \in Text
         /\ handler[u].at \in {"commit", "create", "label"} => Tapped(u)
         /\ handler[u].at = "cancel" => handler[u].read \in buttons
         /\ \A t \in buttons : sent[t] \in Text
BY UpdateTypes DEF ChatSafe, HandlersOfUpdates, ButtonsOfTexts

(* Steps that move the handler on and neither store nor label.             *)
LEMMA PlainMove ==
  ASSUME ChatInv, NEW u \in Reqs, MovesAlone(u), handler[u].at # "idle",
         handler'[u].at \notin {"idle", "start"},
         UNCHANGED <<sent, processed, saved, outcome, tx, req>>,
         buttons' = buttons \/ (buttons' = buttons \cup {u} /\ sent[u] \in Text),
         handler'[u].at = "show" => sent[u] \in Text,
         handler'[u].at \in {"commit", "create", "label"} => Tapped(u),
         handler'[u].at = "cancel" => handler[u].read \in buttons,
         handler'[u].at = "label" => req[u].at = "done"
  PROVE  ChatSafe'
<1>1. ConfirmedWasSaved'
  BY LabelsStay DEF MovesAlone
<1>2. QED
  BY <1>1, Handling, HandlerMoves

LEMMA ChatSteps == ChatInv /\ [Next]_vars => ChatSafe'
<1> SUFFICES ASSUME ChatInv, [Next]_vars PROVE ChatSafe'
  OBVIOUS
<1>0. TypeOK /\ TxInv /\ ChatSafe /\ TxTypeOK
  BY UpdateTypes
<1>1. {"show", "commit", "create", "label", "cancel", "clear", "done", "told", "dead"}
        \subseteq Place \ {"idle", "start"}
  BY DEF Place
<1>2. ASSUME NEW u \in Reqs, Send(u) PROVE ChatSafe'
  <2>1. PICK c \in Text \cup {p \in Tap : p.token \in buttons} :
          sent[u] = NotSent /\ sent' = [sent EXCEPT ![u] = c]
    BY <1>2 DEF Send
  <2>2. UNCHANGED <<processed, handler, buttons, saved, outcome, tx, req>>
    BY <1>2 DEF Send, txVars
  <2>3. sent'[u] = c /\ \A v \in Reqs : v # u => sent'[v] = sent[v]
    BY <1>0, <2>1 DEF TypeOK
  <2>4. /\ handler[u].at = "idle" /\ u \notin buttons /\ sent[u].kind = "none"
        /\ c.kind \in {"ok", "no", "skip"} => c.token \in buttons
        /\ c # NotSent
    BY <1>0, <2>1, Kinds DEF ChatSafe, HandlersOfUpdates, ButtonsOfTexts
  <2>5. \A v \in Reqs : Tapped(v) => v # u /\ Tapped(v)'
    BY <2>2, <2>3, <2>4 DEF Tapped
  <2>6. HandlersOfUpdates'
    <3> SUFFICES ASSUME NEW v \in Reqs
                 PROVE  /\ v \notin processed => handler[v].at = "idle"
                        /\ handler[v].at # "idle" => sent'[v] # NotSent
                        /\ handler[v].at = "show" => sent'[v] \in Text
                        /\ handler[v].at \in {"commit", "create", "label"} => Tapped(v)'
                        /\ handler[v].at = "cancel" => handler[v].read \in buttons
      BY <2>2 DEF HandlersOfUpdates
    <3>1. QED
      BY <1>0, <2>3, <2>4, <2>5 DEF ChatSafe, HandlersOfUpdates
  <2>7. ButtonsOfTexts'
    BY <1>0, <2>2, <2>3, <2>4, UpdateTypes DEF ChatSafe, ButtonsOfTexts
  <2>8. StoredByTaps'
    <3>1. \A s \in saved : Tapped(s.by) /\ s.by \in Reqs
      BY <1>0 DEF ChatSafe, StoredByTaps, TypeOK
    <3>2. \A v \in Reqs : req[v].at # "idle" => Tapped(v) /\ req[v].key = sent[v].token
      BY <1>0 DEF ChatSafe, StoredByTaps
    <3>3. \A v \in Reqs : req[v].at # "idle" => Tapped(v)' /\ req[v].key = sent'[v].token
      BY <2>3, <2>5, <3>2
    <3>4. \A v \in Reqs : handler[v].at \in {"idle", "start"} => req[v].at = "idle" /\ \A s \in saved : s.by # v
      BY <1>0 DEF ChatSafe, StoredByTaps
    <3>5. \A s \in saved : Tapped(s.by)'
      <4>1. ASSUME NEW s \in saved PROVE Tapped(s.by)'
        <5>1. PICK v \in Reqs : v = s.by /\ Tapped(v)
          BY <3>1
        <5>2. Tapped(v)'
          BY <2>5, <5>1
        <5>3. QED
          BY <5>1, <5>2 DEF Tapped
      <4>2. QED
        BY <4>1
    <3>6. QED
      BY <2>2, <3>3, <3>4, <3>5 DEF StoredByTaps
  <2>9. LabelsOfRows'
    <3>1. ASSUME NEW v \in Reqs, handler[v].at = "label", sent'[handler[v].read].kind = "keyed"
          PROVE  req[v].at = "done"
      <4>1. handler[v].read \in buttons /\ handler[v].read \in Reqs
        BY <1>0, <3>1, UpdateTypes DEF ChatSafe, HandlersOfUpdates, Tapped
      <4>2. sent'[handler[v].read] = sent[handler[v].read]
        BY <2>3, <2>4, <4>1
      <4>3. QED
        BY <1>0, <3>1, <4>2 DEF ChatSafe, LabelsOfRows
    <3>2. QED
      BY <1>0, <2>2, <3>1 DEF ChatSafe, LabelsOfRows
  <2>10. ConfirmedWasSaved'
    <3> SUFFICES ASSUME NEW t \in Reqs, outcome[t] = "CONFIRMED", sent'[t].kind = "keyed"
                 PROVE  RowsOf(t) # {}
      BY <2>2 DEF ConfirmedWasSaved, RowsOf
    <3>1. t \in buttons
      BY <1>0 DEF ChatSafe, LabelsOfRows
    <3>2. sent'[t] = sent[t]
      BY <2>3, <2>4, <3>1
    <3>3. QED
      BY <1>0, <3>2 DEF ChatSafe, ConfirmedWasSaved
  <2>11. QED
    BY <2>6, <2>7, <2>8, <2>9, <2>10 DEF ChatSafe
<1>3. ASSUME UNCHANGED <<sent, processed, handler, buttons, saved, outcome, tx, req>> PROVE ChatSafe'
  BY <1>0, <1>3 DEF ChatSafe, HandlersOfUpdates, ButtonsOfTexts, StoredByTaps, LabelsOfRows,
     ConfirmedWasSaved, RowsOf, Tapped
<1>4. ASSUME NEW u \in Reqs, Deliver(u) PROVE ChatSafe'
  <2>1. CASE handler' = handler /\ processed' = processed
    BY <1>3, <1>4, <2>1 DEF Deliver, txVars
  <2>2. CASE u \notin processed /\ processed' = processed \cup {u}
             /\ handler' = [handler EXCEPT ![u].at = "start"]
    <3>1. handler[u].at = "idle" /\ sent[u] # NotSent
      BY <1>0, <1>4, <2>2 DEF Deliver, ChatSafe, HandlersOfUpdates
    <3>2. UNCHANGED <<sent, buttons, saved, outcome, tx, req>>
      BY <1>4 DEF Deliver, txVars
    <3>3. MovesAlone(u) /\ handler'[u].at = "start"
      BY <2>2, Moved DEF Move
    <3>4. ConfirmedWasSaved'
      BY <3>2, <3>3, LabelsStay DEF MovesAlone
    <3>5. \A t \in buttons : sent[t] \in Text
      BY <1>0 DEF ChatSafe, ButtonsOfTexts
    <3>6. QED
      BY <2>2, <3>1, <3>2, <3>3, <3>4, <3>5, HandlerMoves
  <2>3. QED
    BY <1>4, <2>1, <2>2 DEF Deliver
<1>5. ASSUME NEW u \in Reqs, SavePending(u) PROVE ChatSafe'
  <2>1. handler[u].at = "start" /\ sent[u] \in Text /\ Move(u, "show")
    BY <1>5 DEF SavePending, At
  <2>2. UNCHANGED <<sent, processed, buttons, saved, outcome, tx, req>>
    BY <1>5 DEF SavePending, txVars
  <2>3. QED
    BY <2>1, <2>2, Moved, PlainMove
<1>6. ASSUME NEW u \in Reqs, ShowButtons(u) \/ ReadQuestion(u) \/ Throw(u) \/ ClearPending(u) PROVE ChatSafe'
  <2>1. PICK place \in {"clear", "done", "told"} : Move(u, place)
    BY <1>6 DEF ShowButtons, ReadQuestion, Throw, ClearPending, Finish
  <2>2. MovesAlone(u) /\ handler'[u].at \in {"clear", "done", "told"}
    BY <2>1, Moved
  <2>3. handler[u].at # "idle"
    BY <1>6 DEF ShowButtons, ReadQuestion, Throw, ClearPending, At
  <2>4. UNCHANGED <<sent, processed, saved, outcome, tx, req>>
    BY <1>6 DEF ShowButtons, ReadQuestion, Throw, ClearPending, txVars
  <2>5. buttons' = buttons \/ (buttons' = buttons \cup {u} /\ handler[u].at = "show")
    BY <1>6 DEF ShowButtons, ReadQuestion, Throw, ClearPending, At
  <2>6. buttons' = buttons \/ (buttons' = buttons \cup {u} /\ sent[u] \in Text)
    BY <2>3, <2>5, Handling
  <2>7. handler'[u].at \notin {"idle", "start", "show", "commit", "create", "label", "cancel"}
    BY <2>2
  <2>8. QED
    BY <2>2, <2>3, <2>4, <2>6, <2>7, PlainMove
<1>7. ASSUME NEW u \in Reqs, CreateReturned(u) PROVE ChatSafe'
  <2>1. handler[u].at = "create" /\ req[u].at = "done" /\ Move(u, "label")
    BY <1>7 DEF CreateReturned, At
  <2>2. UNCHANGED <<sent, processed, buttons, saved, outcome, tx, req>>
    BY <1>7 DEF CreateReturned, txVars
  <2>3. Tapped(u)
    BY <2>1, Handling
  <2>4. MovesAlone(u) /\ handler'[u].at = "label"
    BY <2>1, Moved
  <2>5. handler'[u].at \notin {"idle", "start", "show", "cancel"} /\ handler[u].at # "idle"
    BY <2>1, <2>4
  <2>6. QED
    BY <2>1, <2>2, <2>3, <2>4, <2>5, PlainMove
<1>8. ASSUME NEW u \in Reqs, ReadPending(u) PROVE ChatSafe'
  <2>1. /\ handler[u].at = "start" /\ sent[u].kind \in {"ok", "no"}
        /\ UNCHANGED <<sent, processed, buttons, saved, outcome, tx, req>>
    BY <1>8 DEF ReadPending, At, txVars
  <2>2. CASE Move(u, "done")
    <3>1. MovesAlone(u) /\ handler'[u].at = "done"
      BY <2>2, Moved
    <3>2. handler'[u].at \notin {"idle", "start", "show", "commit", "create", "label", "cancel"}
      BY <3>1
    <3>3. handler[u].at # "idle"
      BY <2>1
    <3>4. QED
      BY <2>1, <3>1, <3>2, <3>3, PlainMove
  <2>3. ASSUME NEW place \in {"commit", "cancel"}, place = "commit" => sent[u].kind = "ok",
               handler' = [handler EXCEPT ![u] = [at |-> place, read |-> sent[u].token]]
        PROVE  ChatSafe'
    <3>1. /\ handler'[u].at = place /\ handler'[u].read = sent[u].token
          /\ \A v \in Reqs : v # u => handler'[v] = handler[v]
      BY <1>0, <2>3 DEF TypeOK
    <3>2. /\ sent[u].token \in buttons /\ req[u].at = "idle" /\ tx[u].state = "none"
          /\ \A s \in saved : s.by # u
          /\ u \in processed /\ sent[u] # NotSent
      BY <1>0, <2>1, Handling DEF ChatSafe, ButtonsOfTexts, StoredByTaps, TxInv, RowOwners
    <3>3. \A v \in Reqs : v # u /\ Tapped(v) => Tapped(v)'
      BY <2>1, <3>1 DEF Tapped
    <3>4. HandlersOfUpdates'
      <4>1. place = "commit" => Tapped(u)'
        BY <2>1, <2>3, <3>1, <3>2 DEF Tapped
      <4>2. \A v \in Reqs :
               /\ v \notin processed => handler[v].at = "idle"
               /\ handler[v].at # "idle" => sent[v] # NotSent
               /\ handler[v].at = "show" => sent[v] \in Text
               /\ handler[v].at \in {"commit", "create", "label"} => Tapped(v)
               /\ handler[v].at = "cancel" => handler[v].read \in buttons
        BY <1>0 DEF ChatSafe, HandlersOfUpdates
      <4>3. \A v \in Reqs :
               /\ v \notin processed => handler'[v].at = "idle"
               /\ handler'[v].at # "idle" => sent[v] # NotSent
               /\ handler'[v].at = "show" => sent[v] \in Text
               /\ handler'[v].at \in {"commit", "create", "label"} => Tapped(v)'
               /\ handler'[v].at = "cancel" => handler'[v].read \in buttons
        BY <3>1, <3>2, <3>3, <4>1, <4>2
      <4>4. QED
        BY <2>1, <4>3 DEF HandlersOfUpdates
    <3>5. ButtonsOfTexts'
      BY <1>0, <2>1 DEF ChatSafe, ButtonsOfTexts
    <3>6. StoredByTaps'
      <4>1. \A v \in Reqs : handler[v].at \in {"idle", "start"} => req[v].at = "idle" /\ \A s \in saved : s.by # v
        BY <1>0 DEF ChatSafe, StoredByTaps
      <4>2. \A v \in Reqs : req[v].at # "idle" => v # u /\ Tapped(v) /\ req[v].key = sent[v].token
        BY <1>0, <3>2 DEF ChatSafe, StoredByTaps
      <4>3. \A s \in saved : s.by \in Reqs /\ s.by # u /\ Tapped(s.by)
        BY <1>0, <3>2 DEF ChatSafe, StoredByTaps, TypeOK
      <4>4. \A s \in saved : Tapped(s.by)'
        <5>1. ASSUME NEW s \in saved PROVE Tapped(s.by)'
          <6>1. PICK v \in Reqs : v = s.by /\ v # u /\ Tapped(v)
            BY <4>3
          <6>2. Tapped(v)'
            BY <3>3, <6>1
          <6>3. QED
            BY <6>1, <6>2 DEF Tapped
        <5>2. QED
          BY <5>1
      <4>5. \A v \in Reqs : handler'[v].at \in {"idle", "start"} => v # u /\ handler'[v] = handler[v]
        BY <3>1
      <4>6. \A v \in Reqs : req[v].at # "idle" => Tapped(v)' /\ req[v].key = sent[v].token
        BY <3>3, <4>2
      <4>7. QED
        BY <2>1, <4>1, <4>4, <4>5, <4>6 DEF StoredByTaps
    <3>7. LabelsOfRows'
      BY <1>0, <2>1, <3>1 DEF ChatSafe, LabelsOfRows
    <3>8. ConfirmedWasSaved'
      <4>1. \A t : RowsOf(t) \subseteq RowsOf(t)'
        BY <2>1, <3>1, <3>2 DEF RowsOf
      <4>2. QED
        BY <1>0, <2>1, <4>1 DEF ChatSafe, ConfirmedWasSaved
    <3>9. QED
      BY <3>4, <3>5, <3>6, <3>7, <3>8 DEF ChatSafe
  <2>4. CASE \E t \in conv : t = sent[u].token /\ handler' = [handler EXCEPT ![u] =
               [at |-> IF sent[u].kind = "ok" THEN "commit" ELSE "cancel", read |-> t]]
    BY <2>3, <2>4
  <2>5. QED
    BY <1>8, <2>2, <2>4 DEF ReadPending, Finish
<1>9. ASSUME NEW u \in Reqs, CommitKeyed(u) PROVE ChatSafe'
  <2>1. /\ handler[u].at = "commit" /\ Receive(u, sent[u].token) /\ Move(u, "create")
        /\ UNCHANGED <<sent, processed, buttons, saved, outcome>>
    BY <1>9 DEF CommitKeyed, At
  <2>2. Tapped(u) /\ u \in processed /\ sent[u] # NotSent /\ \A t \in buttons : sent[t] \in Text
    BY <2>1, Handling
  <2>3. MovesAlone(u) /\ handler'[u].at = "create"
    BY <2>1, Moved
  <2>4. /\ req[u].at = "idle" /\ UNCHANGED tx
        /\ \A v \in Reqs : v # u => req'[v] = req[v]
        /\ req'[u].key = sent[u].token
    BY <1>0, <2>1 DEF Receive, TxTypeOK
  <2>5. \A v \in Reqs : req'[v].at # "idle" =>
           \/ req[v].at # "idle" /\ req'[v].key = req[v].key
           \/ v = u /\ Tapped(u) /\ req'[u].key = sent[u].token /\ handler'[u].at \notin {"idle", "start"}
    BY <2>2, <2>3, <2>4
  <2>6. \A v \in Reqs : req[v].at = "done" => req'[v].at = "done"
    BY <2>4
  <2>7. ConfirmedWasSaved'
    BY <2>1, <2>3, <2>4, LabelsStay DEF MovesAlone
  <2>8. handler'[u].at \notin {"idle", "start", "show", "label", "cancel"}
    BY <2>3
  <2>9. QED
    BY <2>1, <2>2, <2>3, <2>5, <2>6, <2>7, <2>8, HandlerMoves
<1>10. ASSUME NEW u \in Reqs, CommitUnkeyed(u) PROVE ChatSafe'
  <2>1. /\ handler[u].at = "commit" /\ sent[handler[u].read].kind = "unkeyed"
        /\ UNCHANGED <<sent, processed, buttons, outcome, tx, req>>
        /\ \A s \in saved' : s \in saved \/ s.by = u
    BY <1>10 DEF CommitUnkeyed, At, txVars
  <2>2. Tapped(u) /\ u \in processed /\ sent[u] # NotSent /\ \A t \in buttons : sent[t] \in Text
    BY <2>1, Handling
  <2>3. PICK place \in {"label", "done"} : Move(u, place)
    BY <1>10 DEF CommitUnkeyed, Finish
  <2>4. MovesAlone(u) /\ handler'[u].at \in {"label", "done"}
    BY <2>3, Moved
  <2>5. ConfirmedWasSaved'
    BY <2>1, <2>4, LabelsStay DEF MovesAlone
  <2>6. handler'[u].at \notin {"idle", "start", "show", "create", "cancel"}
    BY <2>4
  <2>7. \A s \in saved' : s \in saved \/ (s.by = u /\ Tapped(u) /\ handler'[u].at \notin {"idle", "start"})
    BY <2>1, <2>2, <2>6
  <2>8. ~(sent[handler[u].read].kind = "keyed")
    BY <2>1
  <2>9. QED
    BY <2>1, <2>2, <2>4, <2>5, <2>6, <2>7, <2>8, HandlerMoves
<1>11. ASSUME NEW u \in Reqs, LabelConfirmed(u) \/ LabelCanceled(u) PROVE ChatSafe'
  <2>1. PICK place \in {"label", "cancel"}, result \in {"CONFIRMED", "CANCELED"} :
          Label(u, place, result) /\ (result = "CONFIRMED" => place = "label")
    BY <1>11 DEF LabelConfirmed, LabelCanceled
  <2>2. /\ handler[u].at = place /\ Move(u, "clear")
        /\ UNCHANGED <<sent, processed, buttons, saved, tx, req>>
    BY <2>1 DEF Label, At, txVars
  <2>3. handler[u].at # "idle"
    BY <2>2
  <2>4. /\ u \in processed /\ sent[u] # NotSent /\ \A t \in buttons : sent[t] \in Text
        /\ handler[u].read \in buttons /\ (result = "CONFIRMED" => Tapped(u))
    BY <2>1, <2>2, <2>3, Handling DEF Tapped
  <2>5. MovesAlone(u) /\ handler'[u].at = "clear"
    BY <2>2, Moved
  <2>6. \A t \in Reqs : outcome'[t] = outcome[t] \/ (t = handler[u].read /\ outcome'[t] = result)
    BY <1>0, <2>1 DEF Label, TypeOK
  <2>7. ConfirmedWasSaved'
    <3>1. \A t : RowsOf(t) = RowsOf(t)'
      BY <2>2, <2>5 DEF RowsOf, MovesAlone
    <3>2. ASSUME result = "CONFIRMED", sent[handler[u].read].kind = "keyed"
          PROVE  RowsOf(handler[u].read) # {}
      <4>1. Tapped(u) /\ req[u].at = "done"
        BY <1>0, <2>1, <2>2, <2>4, <3>2 DEF ChatSafe, LabelsOfRows
      <4>2. req[u].key = handler[u].read
        BY <1>0, <4>1 DEF ChatSafe, StoredByTaps, Tapped
      <4>3. PICK s \in Reqs : tx[s].state # "none" /\ req[s].key = handler[u].read
        BY <1>0, <4>1, <4>2 DEF TxInv, AnswerIsForKey, TxTypeOK
      <4>4. req[s].at # "idle"
        BY <1>0, <4>3 DEF TxInv, RowOwners
      <4>5. handler[s].read = handler[u].read
        BY <1>0, <4>3, <4>4 DEF ChatSafe, StoredByTaps, Tapped
      <4>6. QED
        BY <4>3, <4>5 DEF RowsOf
    <3>3. QED
      BY <1>0, <2>2, <2>6, <3>1, <3>2 DEF ChatSafe, ConfirmedWasSaved
  <2>8. handler'[u].at \notin {"idle", "start", "show", "commit", "create", "label", "cancel"}
    BY <2>5
  <2>9. \A t \in Reqs : outcome'[t] # "none" => outcome[t] # "none" \/ t \in buttons
    BY <2>4, <2>6
  <2>10. QED
    BY <2>2, <2>4, <2>5, <2>7, <2>8, <2>9, HandlerMoves
<1>12. ASSUME NEW u \in Reqs, CreateStep(u) \/ MiniAppDelete(u) PROVE ChatSafe'
  <2>1. /\ UNCHANGED <<sent, processed, handler, buttons, saved, outcome>>
        /\ \A v \in Reqs : tx[v].state # "none" => tx'[v].state # "none"
        /\ \A v \in Reqs : req'[v].key = req[v].key /\ (req'[v].at # "idle" => req[v].at # "idle")
        /\ \A v \in Reqs : req[v].at = "done" => req'[v].at = "done"
    BY <1>12, TxKeeps DEF chatVars
  <2>2. ConfirmedWasSaved'
    BY <2>1, LabelsStay
  <2>3. MovesAlone(u)
    BY <2>1 DEF MovesAlone
  <2>4. /\ \A t \in buttons : sent[t] \in Text
        /\ handler[u].at = "show" => sent[u] \in Text
        /\ handler[u].at \in {"commit", "create", "label"} => Tapped(u)
        /\ handler[u].at = "cancel" => handler[u].read \in buttons
        /\ handler[u].at = "label" /\ sent[handler[u].read].kind = "keyed" => req[u].at = "done"
    BY <1>0 DEF ChatSafe, HandlersOfUpdates, ButtonsOfTexts, LabelsOfRows
  <2>5. QED
    BY <2>1, <2>2, <2>3, <2>4, HandlerMoves
<1>13. CASE Crash
  <2>1. /\ \A v \in Reqs : handler'[v].read = handler[v].read
                           /\ (handler'[v].at = handler[v].at \/ handler'[v].at = "dead")
                           /\ (handler[v].at = "idle" => handler'[v].at = "idle")
        /\ \A v \in Reqs : handler'[v].at = "idle" => handler[v].at = "idle"
        /\ \A v \in Reqs : handler'[v].at # "start"
        /\ \A v \in Reqs : handler'[v].at \notin {"show", "commit", "create", "label", "cancel"}
    BY <1>0, <1>13 DEF Crash, TypeOK
  <2>2. /\ UNCHANGED <<sent, processed, buttons, saved, outcome, tx>>
        /\ \A v \in Reqs : req'[v].key = req[v].key
        /\ \A v \in Reqs : req[v].at = "idle" <=> req'[v].at = "idle"
    BY <1>0, <1>13 DEF Crash, TxTypeOK
  <2>3. \A v \in Reqs : Tapped(v) => Tapped(v)'
    BY <2>1, <2>2 DEF Tapped
  <2>4. HandlersOfUpdates'
    BY <1>0, <2>1, <2>2 DEF ChatSafe, HandlersOfUpdates
  <2>5. ButtonsOfTexts'
    BY <1>0, <2>2 DEF ChatSafe, ButtonsOfTexts
  <2>6. StoredByTaps'
    <3>1. \A v \in Reqs : handler'[v].at \in {"idle", "start"} => req'[v].at = "idle" /\ \A s \in saved : s.by # v
      BY <1>0, <2>1, <2>2 DEF ChatSafe, StoredByTaps
    <3>2. \A v \in Reqs : req'[v].at # "idle" => Tapped(v)' /\ req'[v].key = sent[v].token
      BY <1>0, <2>2, <2>3 DEF ChatSafe, StoredByTaps
    <3>3. \A s \in saved : Tapped(s.by)'
      <4>1. ASSUME NEW s \in saved PROVE Tapped(s.by)'
        <5>1. PICK v \in Reqs : v = s.by /\ Tapped(v)
          BY <1>0 DEF ChatSafe, StoredByTaps, TypeOK
        <5>2. Tapped(v)'
          BY <2>3, <5>1
        <5>3. QED
          BY <5>1, <5>2 DEF Tapped
      <4>2. QED
        BY <4>1
    <3>4. QED
      BY <2>2, <3>1, <3>2, <3>3 DEF StoredByTaps
  <2>7. LabelsOfRows'
    BY <1>0, <2>1, <2>2 DEF ChatSafe, LabelsOfRows
  <2>8. ConfirmedWasSaved'
    BY <2>1, <2>2, LabelsStay
  <2>9. QED
    BY <2>4, <2>5, <2>6, <2>7, <2>8 DEF ChatSafe
<1>14. CASE Expire
  BY <1>3, <1>14 DEF Expire, txVars
<1>15. ASSUME NEW u \in Reqs, ClaimError(u) PROVE ChatSafe'
  BY <1>3, <1>15 DEF ClaimError, txVars
<1>16. CASE UNCHANGED vars
  BY <1>3, <1>16 DEF vars, chatVars, txVars
<1>17. QED
  BY <1>2, <1>4, <1>5, <1>6, <1>7, <1>8, <1>9, <1>10, <1>11, <1>12, <1>13, <1>14, <1>15, <1>16
     DEF Next, Handle

LEMMA ChatInvHolds == Spec => []ChatInv
<1>1. Init => ChatInv
  BY ChatStart
<1>2. ChatInv /\ [Next]_vars => ChatInv'
  BY ChatTx, ChatTypes, ChatSteps, UpdateTypes DEF ChatInv
<1>3. QED
  BY <1>1, <1>2, PTL DEF Spec

(* Whatever races, retries, double taps, expiries and crashes happen, what *)
(* a handler saved is what was shown above the tapped button, a confirmed  *)
(* message has one row unless one was deleted, and a label never says      *)
(* CONFIRMED of an expense that is not there.                              *)
THEOREM ConfirmedIsSaved == Spec => []SavedAsConfirmed
<1>1. ChatInv => SavedAsConfirmed
  <2> SUFFICES ASSUME ChatInv PROVE SavedAsConfirmed
    OBVIOUS
  <2>1. TypeOK /\ TxTypeOK /\ TxInv /\ ChatSafe
    BY UpdateTypes
  <2>2. \A u \in Reqs : tx[u].state # "none" => Tapped(u) /\ req[u].key = sent[u].token
    BY <2>1 DEF TxInv, RowOwners, ChatSafe, StoredByTaps
  <2>3. SavedIsWhatWasShown
    BY <2>1, <2>2 DEF SavedIsWhatWasShown, ChatSafe, StoredByTaps, Tapped
  <2>4. ASSUME NEW t \in Reqs, NEW r \in RowsOf(t), NEW s \in RowsOf(t), r # s
        PROVE  \E d \in RowsOf(t) : tx[d].state = "deleted"
    <3>1. /\ r \in Reqs /\ s \in Reqs
          /\ tx[r].state # "none" /\ tx[s].state # "none"
          /\ req[r].key = t /\ req[s].key = t
      BY <2>2 DEF RowsOf, Tapped
    <3>2. t # NoKey
      BY TokenAssumption, KeyAssumption
    <3>3. ~(tx[r].state = "live" /\ tx[s].state = "live")
      BY <2>1, <2>4, <3>1, <3>2 DEF TxInv, RowKeys, UniqueIndex
    <3>4. tx[r].state = "deleted" \/ tx[s].state = "deleted"
      BY <2>1, <3>1, <3>3 DEF TxTypeOK
    <3>5. QED
      BY <3>4
  <2>5. OneExpensePerConfirm
    BY <2>4 DEF OneExpensePerConfirm
  <2>6. QED
    BY <2>1, <2>3, <2>5 DEF SavedAsConfirmed, ChatSafe
<1>2. QED
  BY ChatInvHolds, <1>1, PTL

(* The claim on update_id: once an update has a handler, no delivery of it *)
(* starts another, whether the first is running, finished or died.         *)
THEOREM HandledOnce == Spec => NeverHandledTwice
<1> DEFINE Twice == \A u \in Reqs : handler'[u].at = "start" => handler[u].at \in {"idle", "start"}
<1>1. ASSUME ChatInv, Next PROVE Twice
  <2>0. TypeOK /\ ChatSafe
    BY <1>1, UpdateTypes
  <2>1. ASSUME NEW u \in Reqs, NEW place, Move(u, place), place # "start" PROVE Twice
    <3>1. MovesAlone(u) /\ handler'[u].at = place
      BY <1>1, <2>1, Moved
    <3>2. QED
      BY <2>1, <3>1 DEF MovesAlone
  <2>2. ASSUME handler' = handler PROVE Twice
    BY <2>2
  <2>3. ASSUME NEW u \in Reqs, Deliver(u) PROVE Twice
    BY <2>0, <2>3 DEF Deliver, ChatSafe, HandlersOfUpdates, TypeOK
  <2>4. ASSUME NEW u \in Reqs, ReadPending(u) PROVE Twice
    <3>1. CASE Finish(u)
      BY <2>1, <3>1 DEF Finish
    <3>2. CASE \E t \in conv : handler' = [handler EXCEPT ![u] =
                 [at |-> IF sent[u].kind = "ok" THEN "commit" ELSE "cancel", read |-> t]]
      BY <2>0, <3>2 DEF TypeOK
    <3>3. QED
      BY <2>4, <3>1, <3>2 DEF ReadPending
  <2>5. ASSUME NEW u \in Reqs, SavePending(u) \/ ShowButtons(u) \/ ReadQuestion(u) \/ CommitKeyed(u)
                 \/ CreateReturned(u) \/ CommitUnkeyed(u) \/ LabelConfirmed(u) \/ LabelCanceled(u)
                 \/ ClearPending(u) \/ Throw(u)
        PROVE  Twice
    <3>1. PICK place \in {"show", "done", "told", "clear", "create", "label"} : Move(u, place)
      BY <2>5 DEF SavePending, ShowButtons, ReadQuestion, CommitKeyed, CreateReturned,
         CommitUnkeyed, LabelConfirmed, LabelCanceled, Label, ClearPending, Throw, Finish
    <3>2. place # "start"
      OBVIOUS
    <3>3. QED
      BY <2>1, <3>1, <3>2
  <2>6. CASE Crash
    BY <2>0, <2>6 DEF Crash, TypeOK
  <2>7. ASSUME NEW u \in Reqs, Send(u) \/ ClaimError(u) \/ CreateStep(u) \/ MiniAppDelete(u) PROVE Twice
    BY <2>2, <2>7 DEF Send, ClaimError, CreateStep, MiniAppDelete, chatVars
  <2>8. CASE Expire
    BY <2>2, <2>8 DEF Expire
  <2>9. QED
    BY <1>1, <2>3, <2>4, <2>5, <2>6, <2>7, <2>8 DEF Next, Handle
<1>2. ChatInv /\ [Next]_vars => [Twice]_vars
  BY <1>1
<1>3. QED
  BY ChatInvHolds, <1>2, PTL DEF Spec, NeverHandledTwice

(* What module Transactions promises its clients holds of the creates the  *)
(* chat makes, whose process may die with them.                            *)
THEOREM ChatCreates == Spec => [](KeyedAnswers /\ FailsOnlyAfterDelete /\ OneLiveRowPerKey)
<1>1. ChatInv => KeyedAnswers /\ FailsOnlyAfterDelete /\ OneLiveRowPerKey
  BY UpdateTypes DEF TxInv, TxTypeOK, KeyedAnswers, IdempotentAnswers, AnswerIsForKey, RowKeys,
     UniqueIndex, InsertedWith, FailsOnlyAfterDelete, CollisionWitness, OneLiveRowPerKey
<1>2. QED
  BY ChatInvHolds, <1>1, PTL
=============================================================================
