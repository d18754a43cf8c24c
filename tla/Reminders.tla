----------------------------- MODULE Reminders -----------------------------
(***************************************************************************)
(* Reminders of one user on the free plan: reminder.service.ts, the job    *)
(* that sends them (reminder.job.ts, reminder.scheduler.ts) with           *)
(* notification.service.ts, and the BullMQ queue as queues.ts sets it up.  *)
(*                                                                         *)
(* A reminder is a row with a date, a job is an entry in Redis named by    *)
(* the reminder and the date it was scheduled for.  The worker process     *)
(* runs one job at a time; a job reads the row, sends what the row says    *)
(* now, moves the row on and schedules the next job.  Each of these is a   *)
(* call to PostgreSQL, Telegram or Redis, any of which may fail or be the  *)
(* last one before the process dies, and the queue then runs the whole     *)
(* job again.                                                              *)
(*                                                                         *)
(* Time is counted in periods of the recurring reminders.                  *)
(***************************************************************************)
EXTENDS Naturals, FiniteSets

CONSTANTS
  Reminders,   \* reminders the user may create, each named by its request
  Recurring,   \* those with a frequency other than ONCE
  Limit,       \* FREE_REMINDER_LIMIT: 10 in the code
  Attempts,    \* defaultJobOptions.attempts: 5 in the code
  MaxTime,     \* bound: the clock stops here
  MaxFaults    \* bound: failed calls and crashes

ASSUME RecurringAssumption == Recurring \subseteq Reminders
ASSUME BoundsAssumption ==
  Limit \in Nat /\ Attempts \in Nat \ {0} /\ MaxTime \in Nat /\ MaxFaults \in Nat

VARIABLES
  now,        \* the clock
  row,        \* the reminders table
  creating,   \* where the create request of each reminder is
  jobs,       \* the reminders queue in Redis
  worker,     \* what the worker process is doing
  notes,      \* the notifications table
  sent,       \* messages that reached the user's chat
  faults,     \* failed calls and crashes so far
  overlapped  \* history: a create came while another was in flight

vars == <<now, row, creating, jobs, worker, notes, sent, faults, overlapped>>

Row    == [status : {"ABSENT", "ACTIVE", "COMPLETED"}, next : Nat]
Absent == [status |-> "ABSENT", next |-> 0]
Job    == [reminder : Reminders, run : Nat, tries : Nat, stalls : Nat,
           state : {"waiting", "active", "completed", "failed"}]
Work   == [at : {"read", "note", "send", "mark", "move", "schedule", "finish"},
           job : Job, seen : Nat]
Idle   == [at |-> "idle"]
Note   == [reminder : Reminders, run : Nat, attempt : Nat,
           status : {"PENDING", "SENT", "FAILED"}]
\* run is the job's date, date the one the message was sent for
Message == [reminder : Reminders, run : Nat, attempt : Nat, date : Nat]

TypeOK ==
  /\ now \in Nat /\ faults \in Nat /\ overlapped \in BOOLEAN
  /\ row \in [Reminders -> Row]
  /\ creating \in [Reminders -> {"fresh", "insert", "schedule", "done", "lost", "refused"}]
  /\ jobs \subseteq Job
  /\ worker \in Work \cup {Idle}
  /\ notes \subseteq Note /\ sent \subseteq Message

Init ==
  /\ now = 0 /\ faults = 0 /\ overlapped = FALSE
  /\ row = [r \in Reminders |-> Absent]
  /\ creating = [r \in Reminders |-> "fresh"]
  /\ jobs = {} /\ notes = {} /\ sent = {}
  /\ worker = Idle

-----------------------------------------------------------------------------
Active == {r \in Reminders : row[r].status = "ACTIVE"}

(* create counts the active reminders first ... *)
BeginCreate(r) ==
  /\ creating[r] = "fresh"
  /\ creating' = [creating EXCEPT ![r] = IF Cardinality(Active) >= Limit THEN "refused" ELSE "insert"]
  /\ overlapped' = (overlapped \/ \E s \in Reminders : creating[s] \in {"insert", "schedule"})
  /\ UNCHANGED <<now, row, jobs, worker, notes, sent, faults>>

(* ... and inserts the row; the date may have passed already. *)
InsertRow(r, date) ==
  /\ creating[r] = "insert"
  /\ row' = [row EXCEPT ![r] = [status |-> "ACTIVE", next |-> date]]
  /\ creating' = [creating EXCEPT ![r] = "schedule"]
  /\ UNCHANGED <<now, jobs, worker, notes, sent, faults, overlapped>>

NewJob(r, date) == [reminder |-> r, run |-> date, tries |-> 0, stalls |-> 0, state |-> "waiting"]

(* Mutants: job ids without the date; no job for a date that has passed. *)
ScheduleOncePerReminder(r, date) ==
  jobs' = IF \E j \in jobs : j.reminder = r THEN jobs ELSE jobs \cup {NewJob(r, date)}

ScheduleFutureOnly(r, date) ==
  jobs' = IF date <= now \/ \E j \in jobs : j.reminder = r /\ j.run = date
          THEN jobs ELSE jobs \cup {NewJob(r, date)}

(* scheduler.schedule: BullMQ ignores a job id it already holds. *)
Schedule(r, date) ==
  jobs' = IF \E j \in jobs : j.reminder = r /\ j.run = date
          THEN jobs ELSE jobs \cup {NewJob(r, date)}

(* Its job is scheduled by a call of its own.  The audit record that       *)
(* follows is not told apart here.                                         *)
ScheduleFirst(r) ==
  /\ creating[r] = "schedule"
  /\ Schedule(r, row[r].next)
  /\ creating' = [creating EXCEPT ![r] = "done"]
  /\ UNCHANGED <<now, row, worker, notes, sent, faults, overlapped>>

(* The database, Redis or the process fails before create has finished. *)
LoseCreate(r) ==
  /\ creating[r] \in {"insert", "schedule"}
  /\ creating' = [creating EXCEPT ![r] = "lost"]
  /\ UNCHANGED <<now, row, jobs, worker, notes, sent, faults, overlapped>>

-----------------------------------------------------------------------------
Tick ==
  /\ now < MaxTime
  /\ now' = now + 1
  /\ UNCHANGED <<row, creating, jobs, worker, notes, sent, faults, overlapped>>

Replace(j, k) == jobs' = (jobs \ {j}) \cup {k}
GoTo(place)   == worker' = [worker EXCEPT !.at = place]

(* The worker is free and the delay of a job is over. *)
TakeJob(j) ==
  /\ worker = Idle
  /\ j.state = "waiting" /\ j.run <= now
  /\ LET k == [j EXCEPT !.state = "active"]
     IN  Replace(j, k) /\ worker' = [at |-> "read", job |-> k, seen |-> 0]
  /\ UNCHANGED <<now, row, creating, notes, sent, faults, overlapped>>

(* processReminderJob reads the reminder; one that is not active is done. *)
ReadReminder ==
  /\ worker.at = "read"
  /\ LET r == worker.job.reminder
     IN  worker' = IF row[r].status = "ACTIVE"
                   THEN [worker EXCEPT !.at = "note", !.seen = row[r].next]
                   ELSE [worker EXCEPT !.at = "finish"]
  /\ UNCHANGED <<now, row, creating, jobs, notes, sent, faults, overlapped>>

Attempt == worker.job.tries + worker.job.stalls
ThisNote(status) == [reminder |-> worker.job.reminder, run |-> worker.job.run,
                     attempt |-> Attempt, status |-> status]
Mark(status) == notes' = (notes \ {ThisNote("PENDING")}) \cup {ThisNote(status)}

(* notifyTelegram stores a notification as PENDING ... *)
CreateNote ==
  /\ worker.at = "note"
  /\ notes' = notes \cup {ThisNote("PENDING")}
  /\ GoTo("send")
  /\ UNCHANGED <<now, row, creating, jobs, sent, faults, overlapped>>

(* Mutant: an error of Telegram is swallowed. *)
SendMessageQuietly ==
  /\ worker.at = "send"
  /\ sent' \in {sent, sent \cup {[reminder |-> worker.job.reminder, run |-> worker.job.run,
                                   attempt |-> Attempt, date |-> worker.seen]}}
  /\ GoTo("mark")
  /\ UNCHANGED <<now, row, creating, jobs, notes, faults, overlapped>>

(* ... sends the message ... *)
SendMessage ==
  /\ worker.at = "send"
  /\ sent' = sent \cup {[reminder |-> worker.job.reminder, run |-> worker.job.run,
                         attempt |-> Attempt, date |-> worker.seen]}
  /\ GoTo("mark")
  /\ UNCHANGED <<now, row, creating, jobs, notes, faults, overlapped>>

(* ... and marks the notification.  Users are never deleted, so the branch *)
(* for a missing user is not reached.                                      *)
MarkSent ==
  /\ worker.at = "mark"
  /\ Mark("SENT")
  /\ GoTo("move")
  /\ UNCHANGED <<now, row, creating, jobs, sent, faults, overlapped>>

(* Mutant: the date is moved by two periods. *)
MoveOnTwoPeriods ==
  LET r == worker.job.reminder
  IN  /\ worker.at = "move"
      /\ IF r \in Recurring
         THEN row' = [row EXCEPT ![r].next = worker.seen + 2] /\ GoTo("schedule")
         ELSE row' = [row EXCEPT ![r].status = "COMPLETED"] /\ GoTo("finish")
      /\ UNCHANGED <<now, creating, jobs, notes, sent, faults, overlapped>>

(* A reminder that does not recur is completed, any other gets its next    *)
(* date, computed from the date that was read.                             *)
MoveOn ==
  LET r == worker.job.reminder
  IN  /\ worker.at = "move"
      /\ IF r \in Recurring
         THEN row' = [row EXCEPT ![r].next = worker.seen + 1] /\ GoTo("schedule")
         ELSE row' = [row EXCEPT ![r].status = "COMPLETED"] /\ GoTo("finish")
      /\ UNCHANGED <<now, creating, jobs, notes, sent, faults, overlapped>>

ScheduleNext ==
  /\ worker.at = "schedule"
  /\ Schedule(worker.job.reminder, worker.seen + 1)
  /\ GoTo("finish")
  /\ UNCHANGED <<now, row, creating, notes, sent, faults, overlapped>>

(* The job returns: the queue moves it to its completed set. *)
FinishJob ==
  /\ worker.at = "finish"
  /\ Replace(worker.job, [worker.job EXCEPT !.state = "completed"])
  /\ worker' = Idle
  /\ UNCHANGED <<now, row, creating, notes, sent, faults, overlapped>>

(* A call of the job throws, whether or not it took effect.  An error of   *)
(* sendMessage or markSent is recorded on the notification, if that works. *)
(* The queue keeps the job for another attempt, up to Attempts.            *)
FailJob ==
  /\ worker # Idle /\ faults < MaxFaults
  /\ Replace(worker.job,
       [worker.job EXCEPT !.tries = @ + 1,
                          !.state = IF worker.job.tries + 1 < Attempts THEN "waiting" ELSE "failed"])
  /\ \/ UNCHANGED notes
     \/ worker.at \in {"send", "mark"} /\ Mark("FAILED")
  /\ worker' = Idle
  /\ faults' = faults + 1
  /\ UNCHANGED <<now, row, creating, sent, overlapped>>

(* The worker process dies: the queue finds the job stalled and runs it    *)
(* again, once.                                                            *)
CrashWorker ==
  /\ worker # Idle /\ faults < MaxFaults
  /\ Replace(worker.job,
       [worker.job EXCEPT !.stalls = @ + 1,
                          !.state = IF worker.job.stalls = 0 THEN "waiting" ELSE "failed"])
  /\ worker' = Idle
  /\ faults' = faults + 1
  /\ UNCHANGED <<now, row, creating, notes, sent, overlapped>>

CreateStep(r) ==
  \/ BeginCreate(r)
  \/ \E date \in 0 .. MaxTime : InsertRow(r, date)
  \/ ScheduleFirst(r)
  \/ LoseCreate(r)

JobStep ==
  \/ ReadReminder \/ CreateNote \/ SendMessage \/ MarkSent \/ MoveOn \/ ScheduleNext
  \/ FinishJob \/ FailJob \/ CrashWorker

Next ==
  \/ \E r \in Reminders : CreateStep(r)
  \/ Tick
  \/ \E j \in jobs : TakeJob(j)
  \/ JobStep

Spec == Init /\ [][Next]_vars

(* Time passes, and a worker is running or is started again. *)
FairSpec ==
  /\ Spec
  /\ WF_vars(Tick)
  /\ WF_vars(JobStep) /\ WF_vars(\E j \in jobs : TakeJob(j))

-----------------------------------------------------------------------------
(* The date of a reminder moves on, and a reminder is completed, only      *)
(* after a message for the date that is left behind has been sent, however *)
(* often the job failed and was repeated.                                  *)
DateLeftBehindWasSent ==
  \A j \in jobs : \A d \in j.run .. row[j.reminder].next - 1 :
    \E m \in sent : m.reminder = j.reminder /\ m.date = d

CompletedWasSent ==
  \A r \in Reminders : row[r].status = "COMPLETED" =>
    \E n \in notes : n.reminder = r /\ n.status = "SENT"

OnlyLeftWhenSent == DateLeftBehindWasSent /\ CompletedWasSent

(* A reminder never falls silent without a trace: an active one whose      *)
(* create was answered has a job that is still to run, unless one of its   *)
(* jobs has used up its attempts.                                          *)
ActiveIsScheduled ==
  \A r \in Reminders : row[r].status = "ACTIVE" /\ creating[r] = "done" =>
    \E j \in jobs : j.reminder = r /\ j.state \in {"waiting", "active", "failed"}

(* A date is notified again only because something failed. *)
RepeatNeedsFault ==
  \A m \in sent : Cardinality({n \in sent : n.reminder = m.reminder /\ n.date = m.date}) <= 1 + faults

(* As long as nothing failed, every message is sent by the job of its date. *)
OnTimeWithoutFaults == faults = 0 => \A m \in sent : m.date = m.run

(* Creates that do not overlap respect the limit of the free plan. *)
WithinLimit == ~overlapped => Cardinality(Active) <= Limit

(* What holds as long as nothing goes wrong, and how far off things are    *)
(* when something does.                                                    *)
FaultFree == RepeatNeedsFault /\ OnTimeWithoutFaults /\ WithinLimit

(* A reminder that was created and does not recur is sent in the end, or   *)
(* its job has used up its attempts.                                       *)
EventuallySent ==
  \A r \in Reminders \ Recurring :
    (creating[r] = "done") ~> (\/ \E m \in sent : m.reminder = r
                               \/ \E j \in jobs : j.reminder = r /\ j.state = "failed")
=============================================================================
