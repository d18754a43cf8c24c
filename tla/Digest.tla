-------------------------------- MODULE Digest --------------------------------
(***************************************************************************)
(* The digest of one month: the scheduled fan-out, the job of every user   *)
(* (BullMQ: a job that throws is tried again, Attempts times in all; a job *)
(* whose worker died is taken up once more), the two analyses that         *)
(* are generated once and kept (ReportInsightService, CoachService), and   *)
(* the message to the chat (NotificationService).  Jobs carry no id that   *)
(* would keep a second one for the same user out of the queue.             *)
(***************************************************************************)
EXTENDS Naturals, Sequences, FiniteSets

CONSTANTS
  Users,
  Active,       \* users with income or expenses in the month
  Attempts,     \* attempts of a job (2)
  Workers,      \* jobs that run at once, over all worker processes
  MaxFaults,    \* bound: calls that fail and processes that die
  MaxTexts      \* bound: analyses generated

ASSUME DigestAssumption ==
  /\ Active \subseteq Users
  /\ Attempts \in Nat \ {0} /\ Workers \in Nat \ {0} /\ MaxFaults \in Nat /\ MaxTexts \in Nat

VARIABLES
  paying,       \* users with an active subscription that is not FREE
  fanout,       \* the fan-out job: where it is, attempts left, users still to be queued
  jobs,         \* send-digest jobs that are not over
  kept,         \* kept[u][k], the analysis in the database; 0 when there is none
  texts,        \* analyses generated so far
  sent,         \* sent[u], what u was told, digest by digest
  faults,       \* history: how often something failed
  clouded,      \* history: analyses that were generated by two at once, or anew on request
  lost          \* history: users whose job failed for good

digestVars == <<paying, fanout, jobs, kept, texts, sent, faults, clouded, lost>>

Kinds == {"insights", "coach"}
After(k) == IF k = "insights" THEN "coach" ELSE "send"
NoTexts == [k \in Kinds |-> 0]
Running == {j \in jobs : j.at # "waiting"}

DigestInit ==
  /\ paying \in SUBSET Users
  /\ fanout = [at |-> "scheduled", left |-> Attempts, todo |-> {}]
  /\ jobs = {}
  /\ kept = [u \in Users |-> NoTexts]
  /\ texts = 0
  /\ sent = [u \in Users |-> <<>>]
  /\ faults = 0 /\ clouded = FALSE /\ lost = {}

(* The scheduler of registerMonthlyDigestSchedule adds the fan-out job.    *)
MonthEnds ==
  /\ fanout.at = "scheduled"
  /\ fanout' = [fanout EXCEPT !.at = "list"]
  /\ UNCHANGED <<paying, jobs, kept, texts, sent, faults, clouded, lost>>

(* processDigestFanout.                                                    *)
ListEligible ==
  /\ fanout.at = "list"
  /\ fanout' = [fanout EXCEPT !.at = "add", !.todo = paying]
  /\ UNCHANGED <<paying, jobs, kept, texts, sent, faults, clouded, lost>>
Queued(u) ==
  LET numbers == {j.no : j \in {i \in jobs : i.user = u}}
  IN  [user |-> u, no |-> CHOOSE n \in 0..Cardinality(numbers) : n \notin numbers,
       at |-> "waiting", left |-> Attempts, stalled |-> FALSE, told |-> NoTexts, new |-> 0]
AddJob(u) ==
  /\ fanout.at = "add" /\ u \in fanout.todo
  /\ jobs' = jobs \cup {Queued(u)}
  /\ fanout' = [fanout EXCEPT !.todo = @ \ {u}]
  /\ UNCHANGED <<paying, kept, texts, sent, faults, clouded, lost>>
EndFanout ==
  /\ fanout.at = "add" /\ fanout.todo = {}
  /\ fanout' = [fanout EXCEPT !.at = "over"]
  /\ UNCHANGED <<paying, jobs, kept, texts, sent, faults, clouded, lost>>
(* It throws, or its worker dies: from the start again.                    *)
FanoutFails ==
  /\ fanout.at \in {"list", "add"} /\ faults < MaxFaults
  /\ faults' = faults + 1
  /\ fanout' = [at |-> IF fanout.left = 1 THEN "over" ELSE "list", left |-> fanout.left - 1, todo |-> {}]
  /\ UNCHANGED <<paying, jobs, kept, texts, sent, clouded, lost>>
-----------------------------------------------------------------------------
Put(j, new) == jobs' = (jobs \ {j}) \cup {new}
Finish(j) == jobs' = jobs \ {j}
At(j, place) == [j EXCEPT !.at = place]

(* buildForUser: nothing is sent about a month without activity.           *)
StartJob(j) ==
  /\ j.at = "waiting" /\ Cardinality(Running) < Workers
  /\ IF j.user \in Active THEN Put(j, At(j, "insights")) ELSE Finish(j)
  /\ UNCHANGED <<paying, fanout, kept, texts, sent, faults, clouded, lost>>

(* Mutant: that the plan has lapsed is not caught; the job is over. *)
ReadKeptOfPayers(j) ==
  /\ j.at \in Kinds /\ j.new = 0
  /\ IF j.user \in paying
     THEN Put(j, [j EXCEPT !.at = After(j.at), !.told[j.at] = kept[j.user][j.at]])
     ELSE Finish(j)
  /\ UNCHANGED <<paying, fanout, kept, texts, sent, faults, clouded, lost>>

(* getOrGenerate, of the insights and then of the coach: not for a user    *)
(* whose plan has lapsed, which is caught; else the analysis that is kept, *)
(* or a new one, unless the model is off, fails or is refused by the guard.*)
ReadKept(j) ==
  LET k == j.at
      text == IF j.user \in paying THEN kept[j.user][k] ELSE 0
      asking == \E i \in jobs \ {j} : i.user = j.user /\ i.at = k /\ i.new > 0
  IN  /\ k \in Kinds /\ j.new = 0
      /\ \/ Put(j, [j EXCEPT !.at = After(k), !.told[k] = text]) /\ UNCHANGED <<texts, clouded>>
         \/ /\ j.user \in paying /\ text = 0 /\ texts < MaxTexts
            /\ texts' = texts + 1
            /\ Put(j, [j EXCEPT !.new = texts'])
            /\ clouded' = (clouded \/ asking)
      /\ UNCHANGED <<paying, fanout, kept, sent, faults, lost>>
(* The upsert; when it fails that is caught, and nothing is told.          *)
(* Mutant: the new analysis is told and not kept. *)
KeepNothing(j, fails) ==
  LET k == j.at
  IN  /\ k \in Kinds /\ j.new > 0
      /\ Put(j, [j EXCEPT !.at = After(k), !.told[k] = j.new, !.new = 0])
      /\ UNCHANGED <<paying, fanout, kept, texts, sent, faults, clouded, lost>>
Keep(j, fails) ==
  LET k == j.at
  IN  /\ k \in Kinds /\ j.new > 0
      /\ kept' = IF fails THEN kept ELSE [kept EXCEPT ![j.user][k] = j.new]
      /\ Put(j, [j EXCEPT !.at = After(k), !.told[k] = IF fails THEN 0 ELSE j.new, !.new = 0])
      /\ UNCHANGED <<paying, fanout, texts, sent, faults, clouded, lost>>

(* notifyTelegram: the message, then the row marked as sent.               *)
Send(j) ==
  /\ j.at = "send"
  /\ sent' = [sent EXCEPT ![j.user] = Append(@, j.told)]
  /\ Put(j, At(j, "mark"))
  /\ UNCHANGED <<paying, fanout, kept, texts, faults, clouded, lost>>
MarkSent(j) ==
  /\ j.at = "mark"
  /\ Finish(j)
  /\ UNCHANGED <<paying, fanout, kept, texts, sent, faults, clouded, lost>>

(* A job that throws, at any of its awaits that is not caught; also after  *)
(* the message has gone out.                                               *)
Again(j) == [j EXCEPT !.at = "waiting", !.told = NoTexts, !.new = 0]
JobFails(j) ==
  /\ j.at \in {"insights", "send", "mark"} /\ j.new = 0 /\ faults < MaxFaults
  /\ faults' = faults + 1
  /\ IF j.left = 1 THEN Finish(j) /\ lost' = lost \cup {j.user}
                   ELSE Put(j, [Again(j) EXCEPT !.left = @ - 1]) /\ UNCHANGED lost
  /\ UNCHANGED <<paying, fanout, kept, texts, sent, clouded>>
(* The worker of a job dies; BullMQ takes a stalled job up once more.      *)
WorkerDies(j) ==
  /\ j \in Running /\ faults < MaxFaults
  /\ faults' = faults + 1
  /\ IF j.stalled THEN Finish(j) /\ lost' = lost \cup {j.user}
                  ELSE Put(j, [Again(j) EXCEPT !.stalled = TRUE]) /\ UNCHANGED lost
  /\ UNCHANGED <<paying, fanout, kept, texts, sent, clouded>>

(* The Mini App asks for a new analysis; a plan starts or lapses.          *)
Refresh(u, k) ==
  /\ u \in paying /\ texts < MaxTexts
  /\ texts' = texts + 1
  /\ kept' = [kept EXCEPT ![u][k] = texts']
  /\ clouded' = TRUE
  /\ UNCHANGED <<paying, fanout, jobs, sent, faults, lost>>
ChangePlan(u) ==
  /\ paying' = IF u \in paying THEN paying \ {u} ELSE paying \cup {u}
  /\ UNCHANGED <<fanout, jobs, kept, texts, sent, faults, clouded, lost>>

DigestStep == ListEligible \/ (\E u \in Users : AddJob(u)) \/ EndFanout
JobStep(j) == StartJob(j) \/ ReadKept(j) \/ (\E fails \in BOOLEAN : Keep(j, fails)) \/ Send(j) \/ MarkSent(j)
DigestNext ==
  \/ MonthEnds \/ DigestStep \/ FanoutFails
  \/ \E j \in jobs : JobStep(j) \/ JobFails(j) \/ WorkerDies(j)
  \/ \E u \in Users : ChangePlan(u) \/ \E k \in Kinds : Refresh(u, k)

(* A worker that is alive goes on with the jobs there are.                 *)
DigestFairness ==
  /\ WF_digestVars(DigestStep)
  /\ \A u \in Users : WF_digestVars(\E j \in jobs : j.user = u /\ JobStep(j))
DigestSpec == DigestInit /\ [][DigestNext]_digestVars /\ DigestFairness
-----------------------------------------------------------------------------
(* Nobody is told the same month more often than once and once more for    *)
(* every failure; and what a digest tells of an analysis is what the Mini  *)
(* App shows of it, also when it is sent again, unless two jobs of one     *)
(* user or a refresh made another.                                         *)
OneDigestPerFault ==
  \A u \in Users :
    /\ Len(sent[u]) <= 1 + faults
    /\ clouded \/ \A i \in DOMAIN sent[u], k \in Kinds : sent[u][i][k] \in {0, kept[u][k]}

(* Who is listed and was active is told, unless the fan-out had to start   *)
(* again or the job failed for good; a lapsed plan, a model that is off    *)
(* and an analysis that cannot be made do not keep the figures back.       *)
EveryDigestSent ==
  \A u \in Active :
    LET told == sent[u] # <<>> \/ u \in lost
    IN  /\ u \in fanout.todo ~> (told \/ fanout.left < Attempts)
        /\ (\E j \in jobs : j.user = u) ~> told
=============================================================================
