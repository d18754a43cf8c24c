---------------------------- MODULE TelegramChat ----------------------------
(***************************************************************************)
(* Recording money in the Telegram chat: the webhook controller and its    *)
(* claim on update_id, the update handler, the conversation store, and the *)
(* commit of a confirmed command, which for an expense or an income is a   *)
(* create of module Transactions.                                          *)
(*                                                                         *)
(* One user and one chat.  A text is parsed into a command and stored in   *)
(* Redis as the user's pending command under a fresh random token; the     *)
(* reply carries Confirm and Cancel buttons holding that token.  A token   *)
(* is named here by the text update that made it.  Telegram delivers an    *)
(* update again until it is answered 200, and every tap on a button is a   *)
(* new update, so any number of handlers of one user run at the same time. *)
(* Texts that store nothing (greetings, queries, unknown phrases) are no   *)
(* steps, nor are messages sent except the one with the buttons.           *)
(***************************************************************************)
EXTENDS Transactions

ASSUME TokenAssumption == Reqs \subseteq Keys   \* the key is telegram:<token>

VARIABLES
  sent,       \* what the user did: the content of each update
  processed,  \* the telegram_processed_updates table
  acked,      \* updates answered 200: Telegram stops sending them
  handler,    \* the handler of each update, and the pending command it read
  conv,       \* Redis conversation:<user>: {} or the token of the pending command
  buttons,    \* tokens whose confirmation message has reached the user
  saved,      \* records of commands that carry no idempotency key
  outcome     \* ai_interactions.outcome of each token

chatVars == <<sent, processed, acked, handler, conv, buttons, saved, outcome>>
vars == <<chatVars, txVars>>

(* CREATE_EXPENSE and CREATE_INCOME are keyed, every other command (debts, *)
(* debt payments, budgets, goals, reminders) is not; /start asks for the   *)
(* monthly income and leaves a pending question instead of a command.  A   *)
(* text that answers the question becomes a CREATE_INCOME, any other is a  *)
(* command like one without a question pending.                            *)
Income   == [kind : {"keyed"}, token : {NoKey}]
Command  == [kind : {"unkeyed"}, token : {NoKey}] \cup Income
Question == [kind : {"question"}, token : {NoKey}]
Text     == Command \cup Question
Tap      == [kind : {"ok", "no", "skip"}, token : Reqs]
NotSent  == [kind |-> "none", token |-> NoKey]
Place    == {"idle", "start", "show", "commit", "create", "label", "cancel", "clear",
             "done", "told", "dead"}

TypeOK ==
  /\ TxTypeOK
  /\ sent \in [Reqs -> Text \cup Tap \cup {NotSent}]
  /\ processed \subseteq Reqs /\ acked \subseteq Reqs /\ buttons \subseteq Reqs
  /\ handler \in [Reqs -> [at : Place, read : Reqs \cup {NoKey}]]
  /\ conv \in {{}} \cup {{t} : t \in Reqs}
  /\ saved \subseteq [by : Reqs, command : Reqs]
  /\ outcome \in [Reqs -> {"none", "CONFIRMED", "CANCELED"}]

Init ==
  /\ TxInit
  /\ sent = [u \in Reqs |-> NotSent]
  /\ processed = {} /\ acked = {} /\ buttons = {} /\ conv = {} /\ saved = {}
  /\ handler = [u \in Reqs |-> [at |-> "idle", read |-> NoKey]]
  /\ outcome = [t \in Reqs |-> "none"]

-----------------------------------------------------------------------------
(* The user types, or taps a button of a message that reached the chat. *)
Send(u) ==
  /\ sent[u] = NotSent
  /\ \E c \in Text \cup {p \in Tap : p.token \in buttons} :
       /\ c.kind \in {"ok", "no"} => sent[c.token].kind # "question"
       /\ c.kind = "skip" => sent[c.token].kind = "question"
       /\ sent' = [sent EXCEPT ![u] = c]
  /\ UNCHANGED <<processed, acked, handler, conv, buttons, saved, outcome, txVars>>

(* Mutants: claim() upserts; a duplicate is not answered. *)
DeliverAlwaysClaims(u) ==
  /\ sent[u] # NotSent /\ u \notin acked
  /\ processed' = processed \cup {u}
  /\ handler' = [handler EXCEPT ![u].at = "start"]
  /\ UNCHANGED <<sent, acked, conv, buttons, saved, outcome, txVars>>

DeliverIgnoresDuplicate(u) ==
  /\ sent[u] # NotSent /\ u \notin acked /\ u \notin processed
  /\ processed' = processed \cup {u}
  /\ handler' = [handler EXCEPT ![u].at = "start"]
  /\ UNCHANGED <<sent, acked, conv, buttons, saved, outcome, txVars>>

(* The webhook: whoever inserts the update_id first runs the handler; an   *)
(* update already claimed is answered at once.                             *)
Deliver(u) ==
  /\ sent[u] # NotSent /\ u \notin acked
  /\ \/ /\ u \notin processed
        /\ processed' = processed \cup {u}
        /\ handler' = [handler EXCEPT ![u].at = "start"]
        /\ UNCHANGED acked
     \/ /\ u \in processed
        /\ acked' = acked \cup {u}
        /\ UNCHANGED <<processed, handler>>
  /\ UNCHANGED <<sent, conv, buttons, saved, outcome, txVars>>

(* claim() takes every failed insert for a duplicate, so an update that    *)
(* meets a database error is answered 200 and never handled.               *)
ClaimError(u) ==
  /\ sent[u] # NotSent /\ u \notin acked
  /\ acked' = acked \cup {u}
  /\ UNCHANGED <<sent, processed, handler, conv, buttons, saved, outcome, txVars>>

Move(u, place) == handler' = [handler EXCEPT ![u].at = place]
At(u, place)   == handler[u].at = place

(* The handler returns or throws, and the controller answers 200 for both. *)
Finish(u) == Move(u, "done") /\ acked' = acked \cup {u}

(* conversations.save overwrites whatever was pending ... *)
SavePending(u) ==
  /\ At(u, "start") /\ sent[u] \in Text
  /\ conv' = {u}
  /\ Move(u, "show")
  /\ UNCHANGED <<sent, processed, acked, buttons, saved, outcome, txVars>>

(* ... and the message with the buttons follows, if Telegram takes it. *)
ShowButtons(u) ==
  /\ At(u, "show")
  /\ buttons' \in {buttons, buttons \cup {u}}
  /\ Finish(u)
  /\ UNCHANGED <<sent, processed, conv, saved, outcome, txVars>>

(* Mutant: any pending command will do. *)
ReadPendingAnyToken(u) ==
  /\ At(u, "start") /\ sent[u].kind \in {"ok", "no"}
  /\ \E t \in conv : handler' = [handler EXCEPT ![u] =
       [at |-> IF sent[u].kind = "ok" THEN "commit" ELSE "cancel", read |-> t]]
  /\ UNCHANGED <<sent, processed, acked, conv, buttons, saved, outcome, txVars>>

(* handleCallback reads the pending command: a button of any other command *)
(* has expired.                                                            *)
ReadPending(u) ==
  /\ At(u, "start") /\ sent[u].kind \in {"ok", "no"}
  /\ \/ \E t \in conv :
          /\ t = sent[u].token
          /\ handler' = [handler EXCEPT ![u] =
               [at |-> IF sent[u].kind = "ok" THEN "commit" ELSE "cancel", read |-> t]]
          /\ UNCHANGED acked
     \/ sent[u].token \notin conv /\ Finish(u)
  /\ UNCHANGED <<sent, processed, conv, buttons, saved, outcome, txVars>>

(* income:skip reads too, and clears only if a question is pending. *)
ReadQuestion(u) ==
  /\ At(u, "start") /\ sent[u].kind = "skip"
  /\ \/ \E t \in conv : sent[t].kind = "question" /\ Move(u, "clear") /\ UNCHANGED acked
     \/ (\A t \in conv : sent[t].kind # "question") /\ Finish(u)
  /\ UNCHANGED <<sent, processed, conv, buttons, saved, outcome, txVars>>

(* commit() of an expense or income: transactions.create under the key of  *)
(* the tapped token.                                                       *)
CommitKeyed(u) ==
  /\ At(u, "commit") /\ sent[handler[u].read].kind = "keyed"
  /\ Receive(u, sent[u].token)
  /\ Move(u, "create")
  /\ UNCHANGED <<sent, processed, acked, conv, buttons, saved, outcome>>

(* The create has answered. *)
CreateReturned(u) ==
  /\ At(u, "create") /\ req[u].at = "done"
  /\ Move(u, "label")
  /\ UNCHANGED <<sent, processed, acked, conv, buttons, saved, outcome, txVars>>

(* commit() of any other command: one record, under no key, or none at all *)
(* when the debt to pay is not found any more.  Its audit.record may fail  *)
(* after the record is there.                                              *)
CommitUnkeyed(u) ==
  /\ At(u, "commit") /\ sent[handler[u].read].kind = "unkeyed"
  /\ saved' \in {saved, saved \cup {[by |-> u, command |-> handler[u].read]}}
  /\ (Move(u, "label") /\ UNCHANGED acked) \/ Finish(u)
  /\ UNCHANGED <<sent, processed, conv, buttons, outcome, txVars>>

(* Redis, PostgreSQL or Telegram fails a call of the handler, its create   *)
(* throws, or the profile update after the create does: the user sees an   *)
(* error (or a late "Saved"), and what is pending stays for another tap.   *)
Throw(u) ==
  /\ \/ handler[u].at \in {"start", "show", "commit", "clear"}
     \/ At(u, "create") /\ req[u].at \in {"done", "failed", "lost"}
  /\ Finish(u)
  /\ UNCHANGED <<sent, processed, conv, buttons, saved, outcome, txVars>>

(* recordOutcome, best effort. *)
Label(u, place, result) ==
  /\ At(u, place)
  /\ outcome' \in {outcome, [outcome EXCEPT ![handler[u].read] = result]}
  /\ Move(u, "clear")
  /\ UNCHANGED <<sent, processed, acked, conv, buttons, saved, txVars>>

LabelConfirmed(u) == Label(u, "label", "CONFIRMED")
LabelCanceled(u)  == Label(u, "cancel", "CANCELED")

(* conversations.clear deletes what is pending now, whatever was read;     *)
(* then the reply: "told" is "Cancelled. Nothing was saved."               *)
ClearPending(u) ==
  /\ At(u, "clear")
  /\ conv' = {}
  /\ \E place \in {"done"} \cup (IF sent[u].kind = "no" THEN {"told"} ELSE {}) : Move(u, place)
  /\ acked' = acked \cup {u}
  /\ UNCHANGED <<sent, processed, buttons, saved, outcome, txVars>>

(* Redis drops the pending command after CONVERSATION_TTL_SECONDS. *)
Expire ==
  /\ conv # {}
  /\ conv' = {}
  /\ UNCHANGED <<sent, processed, acked, handler, buttons, saved, outcome, txVars>>

(* The process stops: the handlers and their creates are gone, unanswered. *)
Crash ==
  /\ \E u \in Reqs : handler[u].at \notin {"idle", "done", "told", "dead"}
  /\ handler' = [u \in Reqs |-> IF handler[u].at \in {"idle", "done", "told"} THEN handler[u]
                                ELSE [handler[u] EXCEPT !.at = "dead"]]
  /\ req' = [u \in Reqs |-> IF req[u].at \in {"idle", "done", "failed"} THEN req[u]
                            ELSE [req[u] EXCEPT !.at = "lost"]]
  /\ UNCHANGED <<sent, processed, acked, conv, buttons, saved, outcome, tx, answer,
                 deleting, editing, txAudit>>

CreateStep(u) == (TxServe(u) \/ LoseRequest(u)) /\ UNCHANGED chatVars

(* The user deletes the row in the Mini App. *)
MiniAppDelete(s) == (BeginDelete(s) \/ CommitDelete(s)) /\ UNCHANGED chatVars

Handle(u) ==
  \/ SavePending(u) \/ ShowButtons(u) \/ ReadPending(u) \/ ReadQuestion(u)
  \/ CommitKeyed(u) \/ CreateReturned(u) \/ CommitUnkeyed(u)
  \/ LabelConfirmed(u) \/ LabelCanceled(u) \/ ClearPending(u) \/ Throw(u) \/ CreateStep(u)

Next ==
  \/ \E u \in Reqs : Send(u) \/ Deliver(u) \/ ClaimError(u) \/ Handle(u) \/ MiniAppDelete(u)
  \/ Expire
  \/ Crash

Spec == Init /\ [][Next]_vars

(* Telegram keeps delivering what was not answered, and a process that     *)
(* runs keeps running its handlers.  Nothing is assumed of the user.       *)
FairSpec == Spec /\ \A u \in Reqs : WF_vars(Deliver(u)) /\ WF_vars(Handle(u))

-----------------------------------------------------------------------------
(* What a handler saves is the command of the very message whose button    *)
(* was tapped, never a newer or an older pending command.                  *)
SavedIsWhatWasShown ==
  \A u \in Reqs :
    (tx[u].state # "none" \/ \E s \in saved : s.by = u)
      => sent[u].kind = "ok" /\ handler[u].read = sent[u].token /\ sent[u].token \in buttons

RowsOf(t) == {u \in Reqs : tx[u].state # "none" /\ handler[u].read = t}

(* Retries by Telegram, double taps and crashes leave at most one expense  *)
(* per confirmation message, unless the user deletes one in between.       *)
OneExpensePerConfirm ==
  \A t \in Reqs : \A r, s \in RowsOf(t) :
    r # s => \E d \in RowsOf(t) : tx[d].state = "deleted"

(* A training label says CONFIRMED only of an expense that was saved. *)
ConfirmedWasSaved ==
  \A t \in Reqs : outcome[t] = "CONFIRMED" /\ sent[t].kind = "keyed" => RowsOf(t) # {}

(* What is stored, and what is learnt from it, is what the user confirmed. *)
SavedAsConfirmed == SavedIsWhatWasShown /\ OneExpensePerConfirm /\ ConfirmedWasSaved

(* An update is handled once, however often Telegram delivers it. *)
NeverHandledTwice ==
  [][\A u \in Reqs : handler'[u].at = "start" => handler[u].at \in {"idle", "start"}]_vars

(* Telegram is answered for every update in the end, also for one whose    *)
(* handler died with the process.                                          *)
EveryUpdateAnswered ==
  \A u \in Reqs : (sent[u] # NotSent) ~> (u \in acked)

(* telegram-update.handler.ts above the key in commit(): tapping the same  *)
(* button twice still returns the row already saved.                       *)
OneRecordPerConfirm ==
  \A r, s \in saved : r.command = s.command => r = s

=============================================================================
