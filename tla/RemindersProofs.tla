--------------------------- MODULE RemindersProofs ---------------------------
(***************************************************************************)
(* Proofs about Reminders, for every number of reminders, attempts and     *)
(* faults.  The invariant says what the worker knows at each step of a     *)
(* job: it is alone, so the date it read is still the date of the row, and *)
(* no job is scheduled beyond that date.                                   *)
(***************************************************************************)
EXTENDS Reminders, FiniteSetTheorems, TLAPS

Mine == worker.job.reminder

(* The job of the worker is in the queue, and no other job is active. *)
WorkerHoldsJob ==
  /\ worker # Idle => worker.job \in jobs /\ worker.job.state = "active"
  /\ \A j \in jobs : j.state = "active" => worker # Idle /\ worker.job = j

(* Jobs belong to reminders whose create was answered, and none is         *)
(* scheduled beyond the date of its row.                                   *)
JobsOfRows ==
  \A j \in jobs : /\ creating[j.reminder] = "done"
                  /\ row[j.reminder].status # "ABSENT"
                  /\ j.run <= row[j.reminder].next

RowsOfCreates ==
  \A r \in Reminders :
    /\ creating[r] \in {"fresh", "insert", "refused"} => row[r].status = "ABSENT"
    /\ creating[r] \in {"schedule", "done"} => row[r].status # "ABSENT"

(* The row while the worker is between reading it and moving it on, what   *)
(* has been done by then, and what is left when it is done.                *)
Reading == {"note", "send", "mark", "move"}

WorkerKnows ==
  /\ worker # Idle /\ worker.at \in Reading =>
       row[Mine].status = "ACTIVE" /\ row[Mine].next = worker.seen
  /\ worker # Idle /\ worker.at \in {"mark", "move"} =>
       \E m \in sent : m.reminder = Mine /\ m.date = worker.seen
  /\ worker # Idle /\ worker.at = "move" =>
       \E n \in notes : n.reminder = Mine /\ n.status = "SENT"
  /\ worker # Idle /\ worker.at = "schedule" =>
       /\ row[Mine].status = "ACTIVE" /\ row[Mine].next = worker.seen + 1
       /\ \A j \in jobs : j.reminder = Mine => j.run <= worker.seen
  /\ worker # Idle /\ worker.at = "finish" /\ row[Mine].status = "ACTIVE" =>
       \E j \in jobs : j.reminder = Mine /\ j.state = "waiting"

RemInv ==
  /\ TypeOK /\ WorkerHoldsJob /\ JobsOfRows /\ RowsOfCreates /\ WorkerKnows
  /\ DateLeftBehindWasSent /\ CompletedWasSent /\ ActiveIsScheduled

(* An idle worker is told from a busy one by its place. *)
LEMMA WorkerTypes ==
  ASSUME TypeOK
  PROVE  /\ worker # Idle => worker \in Work
         /\ \A w \in Work : w.at # "idle" /\ w # Idle /\ w.job \in Job /\ w.seen \in Nat
         /\ worker.at # "idle" => worker # Idle
<1>1. \A w \in Work : w.at # "idle" /\ w.job \in Job /\ w.seen \in Nat
  BY DEF Work
<1>2. Idle.at = "idle"
  BY DEF Idle
<1>3. QED
  BY <1>1, <1>2 DEF TypeOK

LEMMA RemInit == Init => RemInv
<1> SUFFICES ASSUME Init PROVE RemInv
  OBVIOUS
<1>1. overlapped \in BOOLEAN /\ worker = Idle /\ jobs = {} /\ sent = {} /\ notes = {}
  BY DEF Init
<1>2. TypeOK
  BY <1>1 DEF Init, TypeOK, Absent, Row
<1>3. \A r \in Reminders : row[r].status = "ABSENT"
  BY DEF Init, Absent
<1>4. QED
  BY <1>1, <1>2, <1>3 DEF Init, RemInv, WorkerHoldsJob, JobsOfRows, RowsOfCreates, WorkerKnows,
     DateLeftBehindWasSent, CompletedWasSent, ActiveIsScheduled

(* What a step of the worker starts from. *)
LEMMA Working ==
  ASSUME TypeOK, worker.at # "idle"
  PROVE  /\ worker \in Work /\ worker # Idle
         /\ worker.job \in Job /\ worker.seen \in Nat /\ Mine \in Reminders
         /\ Attempt \in Nat
BY WorkerTypes DEF Work, Job, Mine, Attempt

LEMMA NotePlaces ==
  ASSUME TypeOK, worker.at # "idle", NEW s \in {"PENDING", "SENT", "FAILED"}
  PROVE  ThisNote(s) \in Note
BY Working DEF ThisNote, Note, Mine, Job

(* A job put back into the queue, or out of it, is a job. *)
LEMMA JobUpdates ==
  ASSUME NEW j \in Job, NEW s \in {"waiting", "active", "completed", "failed"}
  PROVE  /\ [j EXCEPT !.state = s] \in Job
         /\ [j EXCEPT !.tries = @ + 1, !.state = s] \in Job
         /\ [j EXCEPT !.stalls = @ + 1, !.state = s] \in Job
<1>1. j.tries + 1 \in Nat /\ j.stalls + 1 \in Nat
  BY DEF Job
<1>2. QED
  BY <1>1 DEF Job

LEMMA TypeStep == TypeOK /\ [Next]_vars => TypeOK'
<1> SUFFICES ASSUME TypeOK, [Next]_vars PROVE TypeOK'
  OBVIOUS
<1> USE DEF TypeOK
<1>1. ASSUME NEW r \in Reminders, BeginCreate(r) PROVE TypeOK'
  <2>1. overlapped' \in BOOLEAN
    BY <1>1 DEF BeginCreate
  <2>2. creating' \in [Reminders -> {"fresh", "insert", "schedule", "done", "lost", "refused"}]
    BY <1>1 DEF BeginCreate
  <2>3. QED BY <1>1, <2>1, <2>2 DEF BeginCreate
<1>2. ASSUME NEW r \in Reminders, NEW date \in 0 .. MaxTime, InsertRow(r, date) PROVE TypeOK'
  BY <1>2, BoundsAssumption DEF InsertRow, Row
<1>3. ASSUME NEW r \in Reminders, ScheduleFirst(r) PROVE TypeOK'
  <2>1. NewJob(r, row[r].next) \in Job
    BY DEF NewJob, Job, Row
  <2>2. QED BY <1>3, <2>1 DEF ScheduleFirst, Schedule
<1>4. ASSUME NEW r \in Reminders, LoseCreate(r) PROVE TypeOK'
  BY <1>4 DEF LoseCreate
<1>5. ASSUME Tick PROVE TypeOK'
  BY <1>5 DEF Tick
<1>6. ASSUME NEW j \in jobs, TakeJob(j) PROVE TypeOK'
  <2>1. [j EXCEPT !.state = "active"] \in Job
    BY DEF Job
  <2>2. [at |-> "read", job |-> [j EXCEPT !.state = "active"], seen |-> 0] \in Work
    BY <2>1 DEF Work
  <2>3. QED BY <1>6, <2>1, <2>2 DEF TakeJob, Replace
<1>7. ASSUME ReadReminder PROVE TypeOK'
  <2>1. worker \in Work /\ Mine \in Reminders
    BY <1>7, Working DEF ReadReminder
  <2>2. row[Mine].next \in Nat
    BY <2>1 DEF Row
  <2>3. worker' \in Work
    BY <1>7, <2>1, <2>2 DEF ReadReminder, Mine, Work
  <2>4. QED BY <1>7, <2>3 DEF ReadReminder
<1>8. ASSUME CreateNote PROVE TypeOK'
  <2>1. worker \in Work /\ ThisNote("PENDING") \in Note
    BY <1>8, Working, NotePlaces DEF CreateNote
  <2>2. worker' \in Work
    BY <1>8, <2>1 DEF CreateNote, GoTo, Work
  <2>3. QED BY <1>8, <2>1, <2>2 DEF CreateNote
<1>9. ASSUME SendMessage PROVE TypeOK'
  <2>1. worker \in Work /\ worker.job \in Job /\ worker.seen \in Nat /\ Attempt \in Nat
    BY <1>9, Working DEF SendMessage
  <2>2. worker' \in Work
    BY <1>9, <2>1 DEF SendMessage, GoTo, Work
  <2>3. [reminder |-> worker.job.reminder, run |-> worker.job.run,
         attempt |-> Attempt, date |-> worker.seen] \in Message
    BY <2>1 DEF Message, Job
  <2>4. QED BY <1>9, <2>2, <2>3 DEF SendMessage
<1>10. ASSUME MarkSent PROVE TypeOK'
  <2>1. worker \in Work /\ ThisNote("SENT") \in Note
    BY <1>10, Working, NotePlaces DEF MarkSent
  <2>2. worker' \in Work
    BY <1>10, <2>1 DEF MarkSent, GoTo, Work
  <2>3. QED BY <1>10, <2>1, <2>2 DEF MarkSent, Mark
<1>11. ASSUME MoveOn PROVE TypeOK'
  <2>1. worker \in Work /\ worker.seen \in Nat /\ Mine \in Reminders
    BY <1>11, Working DEF MoveOn
  <2>2. worker' \in Work
    BY <1>11, <2>1 DEF MoveOn, GoTo, Work
  <2>3. row' \in [Reminders -> Row]
    BY <1>11, <2>1 DEF MoveOn, Row, Mine
  <2>4. QED BY <1>11, <2>2, <2>3 DEF MoveOn
<1>12. ASSUME ScheduleNext PROVE TypeOK'
  <2>1. worker \in Work /\ worker.seen \in Nat /\ Mine \in Reminders
    BY <1>12, Working DEF ScheduleNext
  <2>2. worker' \in Work
    BY <1>12, <2>1 DEF ScheduleNext, GoTo, Work
  <2>3. NewJob(Mine, worker.seen + 1) \in Job
    BY <2>1 DEF NewJob, Job
  <2>4. QED BY <1>12, <2>2, <2>3 DEF ScheduleNext, Schedule, Mine
<1>13. ASSUME FinishJob PROVE TypeOK'
  <2>1. worker.job \in Job
    BY <1>13, Working DEF FinishJob
  <2>2. [worker.job EXCEPT !.state = "completed"] \in Job
    BY <2>1 DEF Job
  <2>3. QED BY <1>13, <2>2 DEF FinishJob, Replace
<1>14. ASSUME FailJob PROVE TypeOK'
  <2>1. worker.at # "idle"
    BY <1>14, WorkerTypes DEF FailJob
  <2>2. worker.job \in Job /\ ThisNote("FAILED") \in Note
    BY <2>1, Working, NotePlaces
  <2>3. [worker.job EXCEPT !.tries = @ + 1,
           !.state = IF worker.job.tries + 1 < Attempts THEN "waiting" ELSE "failed"] \in Job
    <3>1. CASE worker.job.tries + 1 < Attempts
      BY <2>2, <3>1, JobUpdates
    <3>2. CASE ~(worker.job.tries + 1 < Attempts)
      BY <2>2, <3>2, JobUpdates
    <3>3. QED BY <3>1, <3>2
  <2>4. notes' \subseteq Note
    BY <1>14, <2>2 DEF FailJob, Mark
  <2>5. QED BY <1>14, <2>3, <2>4 DEF FailJob, Replace
<1>15. ASSUME CrashWorker PROVE TypeOK'
  <2>1. worker.at # "idle"
    BY <1>15, WorkerTypes DEF CrashWorker
  <2>2. worker.job \in Job
    BY <2>1, Working
  <2>3. [worker.job EXCEPT !.stalls = @ + 1,
           !.state = IF worker.job.stalls = 0 THEN "waiting" ELSE "failed"] \in Job
    <3>1. CASE worker.job.stalls = 0
      BY <2>2, <3>1, JobUpdates
    <3>2. CASE worker.job.stalls # 0
      BY <2>2, <3>2, JobUpdates
    <3>3. QED BY <3>1, <3>2
  <2>4. QED BY <1>15, <2>3 DEF CrashWorker, Replace
<1>16. CASE UNCHANGED vars
  BY <1>16 DEF vars
<1>17. QED
  BY <1>1, <1>2, <1>3, <1>4, <1>5, <1>6, <1>7, <1>8, <1>9, <1>10, <1>11, <1>12, <1>13, <1>14,
     <1>15, <1>16 DEF Next, CreateStep, JobStep

-----------------------------------------------------------------------------
(* The part of the invariant that is not about types. *)
Kept ==
  /\ WorkerHoldsJob /\ JobsOfRows /\ RowsOfCreates /\ WorkerKnows
  /\ DateLeftBehindWasSent /\ CompletedWasSent /\ ActiveIsScheduled

(* A create works on a reminder that has no job yet. *)
LEMMA CreateKeeps ==
  ASSUME RemInv, NEW r \in Reminders, CreateStep(r)
  PROVE  Kept'
<1> USE DEF RemInv, TypeOK, Kept
<1>0. /\ creating[r] # "done"
      /\ \A j \in jobs : j.reminder \in Reminders /\ j.reminder # r
      /\ worker # Idle => worker.job \in jobs
  BY DEF CreateStep, BeginCreate, InsertRow, ScheduleFirst, LoseCreate, JobsOfRows, Job,
         WorkerHoldsJob
<1> USE <1>0 DEF Mine, Reading, WorkerHoldsJob, JobsOfRows, RowsOfCreates, WorkerKnows,
                 DateLeftBehindWasSent, CompletedWasSent, ActiveIsScheduled
<1>1. CASE BeginCreate(r)
  BY <1>1 DEF BeginCreate
<1>2. ASSUME NEW date \in 0 .. MaxTime, InsertRow(r, date) PROVE Kept'
  <2>1. row' = [row EXCEPT ![r] = [status |-> "ACTIVE", next |-> date]]
        /\ creating' = [creating EXCEPT ![r] = "schedule"]
        /\ UNCHANGED <<jobs, worker, notes, sent>>
    BY <1>2 DEF InsertRow
  <2>2. \A s \in Reminders \ {r} : row'[s] = row[s] /\ creating'[s] = creating[s]
    BY <2>1
  <2>3. row'[r].status = "ACTIVE" /\ creating'[r] = "schedule"
    BY <2>1
  <2>4. \A j \in jobs : row'[j.reminder] = row[j.reminder] /\ creating'[j.reminder] = creating[j.reminder]
    BY <2>2
  <2>5. WorkerHoldsJob' /\ JobsOfRows' /\ WorkerKnows' /\ DateLeftBehindWasSent'
    BY <2>1, <2>4
  <2>6. RowsOfCreates' /\ CompletedWasSent' /\ ActiveIsScheduled'
    BY <2>1, <2>2, <2>3
  <2>7. QED BY <2>5, <2>6
<1>3. CASE ScheduleFirst(r)
  <2> DEFINE k == NewJob(r, row[r].next)
  <2>1. creating' = [creating EXCEPT ![r] = "done"] /\ creating[r] = "schedule"
        /\ jobs' = jobs \cup {k} /\ UNCHANGED <<row, worker, notes, sent>>
    BY <1>3 DEF ScheduleFirst, Schedule
  <2>2. k.reminder = r /\ k.run = row[r].next /\ k.state = "waiting" /\ row[r].next \in Nat
    BY DEF NewJob, Row
  <2>3. row[r].status # "ABSENT"
    BY <2>1
  <2>4. WorkerHoldsJob' /\ RowsOfCreates' /\ CompletedWasSent' /\ ActiveIsScheduled'
    BY <2>1, <2>2
  <2>5. JobsOfRows'
    BY <2>1, <2>2, <2>3
  <2>6. WorkerKnows'
    BY <2>1, <2>2
  <2>7. DateLeftBehindWasSent'
    BY <2>1, <2>2
  <2>8. QED BY <2>4, <2>5, <2>6, <2>7
<1>4. CASE LoseCreate(r)
  BY <1>4 DEF LoseCreate
<1>5. QED
  BY <1>1, <1>2, <1>3, <1>4 DEF CreateStep

(* What a step of the worker finds, besides the types. *)
LEMMA AtWork ==
  ASSUME RemInv, worker.at # "idle"
  PROVE  /\ worker \in Work /\ worker # Idle /\ Mine \in Reminders /\ worker.seen \in Nat
         /\ worker.job \in jobs /\ worker.job \in Job /\ worker.job.state = "active"
         /\ \A j \in jobs : j.state = "active" => j = worker.job
         /\ \A j \in jobs : j.reminder \in Reminders /\ j.run \in Nat
         /\ row[Mine] \in Row
BY Working DEF RemInv, WorkerHoldsJob, TypeOK, Job

(* Handing the job back to the queue changes its state and its counters    *)
(* only.                                                                   *)
LEMMA HandBack ==
  ASSUME RemInv, worker.at # "idle", worker' = Idle,
         NEW k, k.reminder = Mine, k.run = worker.job.run, k.state # "active",
         jobs' = (jobs \ {worker.job}) \cup {k},
         UNCHANGED <<row, creating, sent>>,
         \A n \in notes : n.status = "SENT" => n \in notes',
         k.state \in {"waiting", "failed"} \/ worker.at = "finish"
  PROVE  Kept'
<1> USE AtWork DEF RemInv, Kept
<1>1. \A j \in jobs : j # worker.job => j \in jobs'
  OBVIOUS
<1>2. \A j \in jobs' : j = k \/ j \in jobs
  OBVIOUS
<1>3. WorkerHoldsJob' /\ WorkerKnows'
  BY <1>2 DEF WorkerHoldsJob, WorkerKnows
<1>4. JobsOfRows' /\ RowsOfCreates' /\ DateLeftBehindWasSent'
  BY <1>2 DEF JobsOfRows, RowsOfCreates, DateLeftBehindWasSent, Mine
<1>5. CompletedWasSent'
  BY DEF CompletedWasSent
<1>6. ActiveIsScheduled'
  <2> SUFFICES ASSUME NEW r \in Reminders, row[r].status = "ACTIVE", creating[r] = "done"
               PROVE  \E j \in jobs' : j.reminder = r /\ j.state \in {"waiting", "active", "failed"}
    BY DEF ActiveIsScheduled
  <2>1. CASE r = Mine /\ k.state \in {"waiting", "failed"}
    BY <2>1
  <2>2. CASE r = Mine /\ worker.at = "finish"
    BY <1>1, <2>2 DEF WorkerKnows
  <2>3. CASE r # Mine
    BY <1>1, <2>3 DEF ActiveIsScheduled, Mine
  <2>4. QED BY <2>1, <2>2, <2>3
<1>7. QED
  BY <1>3, <1>4, <1>5, <1>6

(* Steps that end the job of the worker. *)
LEMMA EndKeeps ==
  ASSUME RemInv, FinishJob \/ FailJob \/ CrashWorker
  PROVE  Kept'
<1>0. worker.at # "idle"
  BY WorkerTypes DEF RemInv, FinishJob, FailJob, CrashWorker
<1>1. worker.job \in Job
  BY <1>0, AtWork
<1>2. CASE FinishJob
  <2> DEFINE k == [worker.job EXCEPT !.state = "completed"]
  <2>1. k.reminder = Mine /\ k.run = worker.job.run /\ k.state = "completed"
    BY <1>1 DEF Job, Mine
  <2>2. QED BY <1>0, <1>2, <2>1, HandBack DEF FinishJob, Replace
<1>3. CASE FailJob
  <2> DEFINE k == [worker.job EXCEPT !.tries = @ + 1,
                     !.state = IF worker.job.tries + 1 < Attempts THEN "waiting" ELSE "failed"]
  <2>1. k.reminder = Mine /\ k.run = worker.job.run /\ k.state \in {"waiting", "failed"}
    BY <1>1 DEF Job, Mine
  <2>2. \A n \in notes : n.status = "SENT" => n \in notes'
    BY <1>3 DEF FailJob, Mark, ThisNote
  <2>3. QED BY <1>0, <1>3, <2>1, <2>2, HandBack DEF FailJob, Replace
<1>4. CASE CrashWorker
  <2> DEFINE k == [worker.job EXCEPT !.stalls = @ + 1,
                     !.state = IF worker.job.stalls = 0 THEN "waiting" ELSE "failed"]
  <2>1. k.reminder = Mine /\ k.run = worker.job.run /\ k.state \in {"waiting", "failed"}
    BY <1>1 DEF Job, Mine
  <2>2. QED BY <1>0, <1>4, <2>1, HandBack DEF CrashWorker, Replace
<1>5. QED BY <1>2, <1>3, <1>4

(* The worker takes a job: it knows nothing of the row yet. *)
LEMMA TakeKeeps ==
  ASSUME RemInv, NEW j \in jobs, TakeJob(j)
  PROVE  Kept'
<1> USE DEF RemInv, Kept
<1>0. [j EXCEPT !.state = "active"].reminder = j.reminder
      /\ [j EXCEPT !.state = "active"].run = j.run
      /\ [j EXCEPT !.state = "active"].state = "active"
  BY DEF TypeOK, Job
<1>a. PICK k : k = [j EXCEPT !.state = "active"]
  OBVIOUS
<1>1. /\ worker = Idle /\ worker' = [at |-> "read", job |-> k, seen |-> 0]
      /\ jobs' = (jobs \ {j}) \cup {k} /\ UNCHANGED <<row, creating, notes, sent>>
  BY <1>a DEF TakeJob, Replace
<1>2. k.reminder = j.reminder /\ k.run = j.run /\ k.state = "active" /\ j.state = "waiting"
  BY <1>0, <1>a DEF TakeJob
<1>3. \A i \in jobs : i.state # "active"
  BY <1>1 DEF WorkerHoldsJob
<1>4. worker'.at = "read" /\ worker'.job = k
  BY <1>1
<1>5. WorkerHoldsJob' /\ WorkerKnows'
  <2>1. worker' # Idle
    BY <1>4 DEF Idle
  <2>2. \A i \in jobs' : i.state = "active" => i = k
    BY <1>1, <1>3
  <2>3. k \in jobs'
    BY <1>1
  <2>4. WorkerHoldsJob'
    BY <1>2, <1>4, <2>1, <2>2, <2>3 DEF WorkerHoldsJob
  <2>5. WorkerKnows'
    BY <1>4 DEF WorkerKnows, Reading
  <2>6. QED BY <2>4, <2>5
<1>6. JobsOfRows' /\ RowsOfCreates' /\ DateLeftBehindWasSent' /\ CompletedWasSent'
  BY <1>1, <1>2 DEF JobsOfRows, RowsOfCreates, DateLeftBehindWasSent, CompletedWasSent
<1>7. ActiveIsScheduled'
  BY <1>1, <1>2 DEF ActiveIsScheduled
<1>8. QED
  BY <1>5, <1>6, <1>7

(* Steps that change neither the row nor the queue: reading, notifying. *)
LEMMA NotifyKeeps ==
  ASSUME RemInv, ReadReminder \/ CreateNote \/ SendMessage \/ MarkSent
  PROVE  Kept'
<1>0. worker.at # "idle" /\ UNCHANGED <<row, creating, jobs>>
  BY DEF ReadReminder, CreateNote, SendMessage, MarkSent
<1> USE <1>0, AtWork DEF RemInv, Kept
<1>1. worker' \in Work /\ worker'.job = worker.job /\ worker' # Idle
  <2>1. worker'.job = worker.job
    BY DEF ReadReminder, CreateNote, SendMessage, MarkSent, GoTo, Work
  <2>2. worker'.at # "idle"
    BY DEF ReadReminder, CreateNote, SendMessage, MarkSent, GoTo, Work
  <2>3. TypeOK'
    BY TypeStep DEF Next, JobStep
  <2>4. QED BY <2>1, <2>2, <2>3 DEF TypeOK, Idle
<1>2. WorkerHoldsJob' /\ JobsOfRows' /\ RowsOfCreates' /\ ActiveIsScheduled'
  BY <1>1 DEF WorkerHoldsJob, JobsOfRows, RowsOfCreates, ActiveIsScheduled
<1>3. sent \subseteq sent' /\ \A n \in notes : n.status = "SENT" => n \in notes'
  BY DEF ReadReminder, CreateNote, SendMessage, MarkSent, Mark, ThisNote
<1>4. DateLeftBehindWasSent' /\ CompletedWasSent'
  BY <1>3 DEF DateLeftBehindWasSent, CompletedWasSent
<1>5. WorkerKnows'
  <2>1. CASE ReadReminder
    BY <1>1, <2>1 DEF ReadReminder, WorkerKnows, Reading, Mine, Work
  <2>2. CASE CreateNote
    BY <1>1, <2>2 DEF CreateNote, GoTo, WorkerKnows, Reading, Mine, Work
  <2>3. CASE SendMessage
    <3>1. \E m \in sent' : m.reminder = Mine /\ m.date = worker.seen
      <4> DEFINE m == [reminder |-> worker.job.reminder, run |-> worker.job.run,
                       attempt |-> Attempt, date |-> worker.seen]
      <4>1. m \in sent' /\ m.reminder = Mine /\ m.date = worker.seen
        BY <2>3 DEF SendMessage, Mine
      <4>2. QED BY <4>1
    <3>2. worker'.at = "mark" /\ worker'.seen = worker.seen
      BY <2>3 DEF SendMessage, GoTo, Work
    <3>3. QED BY <1>1, <2>3, <3>1, <3>2 DEF SendMessage, WorkerKnows, Reading, Mine
  <2>4. CASE MarkSent
    <3>1. \E n \in notes' : n.reminder = Mine /\ n.status = "SENT"
      <4> DEFINE n == [reminder |-> worker.job.reminder, run |-> worker.job.run,
                       attempt |-> Attempt, status |-> "SENT"]
      <4>1. n \in notes' /\ n.reminder = Mine /\ n.status = "SENT"
        BY <2>4 DEF MarkSent, Mark, ThisNote, Mine
      <4>2. QED BY <4>1
    <3>2. worker'.at = "move" /\ worker'.seen = worker.seen
      BY <2>4 DEF MarkSent, GoTo, Work
    <3>3. QED BY <1>1, <2>4, <3>1, <3>2 DEF MarkSent, WorkerKnows, Reading, Mine
  <2>5. QED BY <2>1, <2>2, <2>3, <2>4
<1>6. QED
  BY <1>2, <1>4, <1>5

(* The row moves on from a date that has been sent. *)
LEMMA MoveKeeps ==
  ASSUME RemInv, MoveOn
  PROVE  Kept'
<1>0. worker.at = "move" /\ UNCHANGED <<creating, jobs, notes, sent>>
  BY DEF MoveOn
<1> USE <1>0, AtWork DEF RemInv, Kept
<1>1. /\ row[Mine].status = "ACTIVE" /\ row[Mine].next = worker.seen
      /\ \E m \in sent : m.reminder = Mine /\ m.date = worker.seen
      /\ \E n \in notes : n.reminder = Mine /\ n.status = "SENT"
  BY DEF WorkerKnows, Reading
<1>2. \A r \in Reminders \ {Mine} : row'[r] = row[r]
  BY DEF MoveOn, Mine, TypeOK
<1>3. creating[Mine] = "done"
  BY DEF JobsOfRows, Mine
<1>4. CASE Mine \in Recurring
  <2>1. row'[Mine].next = worker.seen + 1 /\ row'[Mine].status = "ACTIVE"
        /\ worker'.at = "schedule" /\ worker'.seen = worker.seen /\ worker'.job = worker.job
    BY <1>1, <1>4 DEF MoveOn, GoTo, Mine, TypeOK, Row, Work
  <2>2. worker' # Idle
    BY <2>1 DEF Idle
  <2>3. WorkerHoldsJob' /\ RowsOfCreates' /\ CompletedWasSent' /\ ActiveIsScheduled'
    BY <1>1, <1>2, <1>3, <2>1, <2>2 DEF WorkerHoldsJob, RowsOfCreates, CompletedWasSent, ActiveIsScheduled
  <2>4. JobsOfRows'
    BY <1>1, <1>2, <1>3, <2>1 DEF JobsOfRows, TypeOK, Row
  <2>5. WorkerKnows'
    <3>1. \A j \in jobs : j.reminder = Mine => j.run <= worker.seen
      BY <1>1 DEF JobsOfRows
    <3>2. QED BY <2>1, <2>2, <3>1 DEF WorkerKnows, Reading, Mine
  <2>6. DateLeftBehindWasSent'
    <3> SUFFICES ASSUME NEW j \in jobs, NEW d \in j.run .. row'[j.reminder].next - 1
                 PROVE  \E m \in sent : m.reminder = j.reminder /\ m.date = d
      BY DEF DateLeftBehindWasSent
    <3>1. CASE j.reminder = Mine /\ d = worker.seen
      BY <1>1, <3>1
    <3>2. CASE j.reminder = Mine /\ d # worker.seen
      <4>1. d \in j.run .. row[j.reminder].next - 1
        BY <1>1, <2>1, <3>2
      <4>2. QED BY <4>1 DEF DateLeftBehindWasSent
    <3>3. CASE j.reminder # Mine
      <4>1. row'[j.reminder] = row[j.reminder]
        BY <1>2, <3>3
      <4>2. QED BY <4>1 DEF DateLeftBehindWasSent
    <3>4. QED BY <3>1, <3>2, <3>3
  <2>7. QED BY <2>3, <2>4, <2>5, <2>6
<1>5. CASE Mine \notin Recurring
  <2>1. row'[Mine].next = row[Mine].next /\ row'[Mine].status = "COMPLETED"
        /\ worker'.at = "finish" /\ worker'.job = worker.job
    BY <1>1, <1>5 DEF MoveOn, GoTo, Mine, TypeOK, Row, Work
  <2>2. worker' # Idle
    BY <2>1 DEF Idle
  <2>3. WorkerHoldsJob' /\ RowsOfCreates' /\ ActiveIsScheduled'
    BY <1>1, <1>2, <1>3, <2>1, <2>2 DEF WorkerHoldsJob, RowsOfCreates, ActiveIsScheduled
  <2>4. \A r \in Reminders : row'[r].next = row[r].next
    BY <1>2, <2>1
  <2>5. JobsOfRows' /\ DateLeftBehindWasSent'
    BY <1>2, <2>1, <2>4 DEF JobsOfRows, DateLeftBehindWasSent
  <2>6. CompletedWasSent'
    BY <1>1, <1>2 DEF CompletedWasSent
  <2>7. WorkerKnows'
    BY <2>1, <2>2 DEF WorkerKnows, Reading, Mine
  <2>8. QED BY <2>3, <2>5, <2>6, <2>7
<1>6. QED BY <1>4, <1>5

(* No job is scheduled for the new date yet, so one is added. *)
LEMMA ScheduleKeeps ==
  ASSUME RemInv, ScheduleNext
  PROVE  Kept'
<1>0. worker.at = "schedule" /\ UNCHANGED <<row, creating, notes, sent>>
  BY DEF ScheduleNext
<1> USE <1>0, AtWork DEF RemInv, Kept
<1> DEFINE k == NewJob(Mine, worker.seen + 1)
<1>1. /\ row[Mine].status = "ACTIVE" /\ row[Mine].next = worker.seen + 1
      /\ \A j \in jobs : j.reminder = Mine => j.run <= worker.seen
  BY DEF WorkerKnows
<1>2. jobs' = jobs \cup {k}
  <2>1. ~ \E j \in jobs : j.reminder = Mine /\ j.run = worker.seen + 1
    BY <1>1
  <2>2. QED BY <2>1 DEF ScheduleNext, Schedule, Mine
<1>3. k.reminder = Mine /\ k.run = worker.seen + 1 /\ k.state = "waiting"
  BY DEF NewJob
<1>4. worker'.at = "finish" /\ worker'.job = worker.job
  BY DEF ScheduleNext, GoTo, Work
<1>5. worker' # Idle
  BY <1>4 DEF Idle
<1>6. WorkerHoldsJob' /\ RowsOfCreates' /\ CompletedWasSent' /\ ActiveIsScheduled'
  BY <1>2, <1>3, <1>4, <1>5 DEF WorkerHoldsJob, RowsOfCreates, CompletedWasSent, ActiveIsScheduled
<1>7. JobsOfRows'
  BY <1>1, <1>2, <1>3 DEF JobsOfRows, Mine
<1>8. WorkerKnows'
  BY <1>2, <1>3, <1>4, <1>5 DEF WorkerKnows, Reading, Mine
<1>9. DateLeftBehindWasSent'
  BY <1>1, <1>2, <1>3 DEF DateLeftBehindWasSent
<1>10. QED
  BY <1>6, <1>7, <1>8, <1>9

LEMMA RemNext == RemInv /\ [Next]_vars => RemInv'
<1> SUFFICES ASSUME RemInv, [Next]_vars PROVE Kept'
  BY TypeStep DEF RemInv, Kept
<1>1. ASSUME UNCHANGED <<row, creating, jobs, worker, notes, sent>> PROVE Kept'
  BY <1>1 DEF RemInv, Kept, WorkerHoldsJob, JobsOfRows, RowsOfCreates, WorkerKnows, Mine, Reading,
     DateLeftBehindWasSent, CompletedWasSent, ActiveIsScheduled
<1>2. QED
  BY <1>1, CreateKeeps, TakeKeeps, NotifyKeeps, MoveKeeps, ScheduleKeeps, EndKeeps
  DEF Next, JobStep, Tick, vars

(* In every reachable state, for every number of reminders, attempts and   *)
(* faults.                                                                 *)
THEOREM RemInvariant == Spec => []RemInv
BY RemInit, RemNext, PTL DEF Spec

(* Rows, jobs, notifications and messages keep their types. *)
THEOREM TypeCorrect == Spec => []TypeOK
BY RemInvariant, PTL DEF RemInv

(* A date is only left behind once it has been notified, whatever calls    *)
(* failed and however often the job was repeated.                          *)
THEOREM NoDateSkipped == Spec => []DateLeftBehindWasSent
BY RemInvariant, PTL DEF RemInv

(* A completed reminder has a notification that was sent. *)
THEOREM CompletedSent == Spec => []CompletedWasSent
BY RemInvariant, PTL DEF RemInv

(* A date is left behind, and a reminder completed, only once its message  *)
(* has been sent, whatever fails.                                          *)
THEOREM LeftWhenSent == Spec => []OnlyLeftWhenSent
BY NoDateSkipped, CompletedSent, PTL DEF OnlyLeftWhenSent

(* An active reminder has a job to run, unless one used up its attempts. *)
THEOREM ActiveScheduled == Spec => []ActiveIsScheduled
BY RemInvariant, PTL DEF RemInv

-----------------------------------------------------------------------------
(* What holds as long as nothing goes wrong.                               *)

(* The free plan's limit: while creates do not overlap there is one at     *)
(* most, and what it has counted is still so when it inserts its row.      *)
InFlight == {"insert", "schedule"}
LimitInv ==
  /\ IsFiniteSet(Active)
  /\ ~overlapped =>
       /\ Cardinality(Active) <= Limit
       /\ \A r \in Reminders : creating[r] = "insert" => Cardinality(Active) < Limit
       /\ \A r, s \in Reminders : creating[r] \in InFlight /\ creating[s] \in InFlight => r = s

LEMMA LimitStart == Init => LimitInv
<1> SUFFICES ASSUME Init PROVE LimitInv
  OBVIOUS
<1>1. Active = {}
  BY DEF Init, Active, Absent
<1>2. IsFiniteSet(Active) /\ Cardinality(Active) = 0
  BY <1>1, FS_EmptySet
<1>3. \A r \in Reminders : creating[r] = "fresh"
  BY DEF Init
<1>4. QED
  BY <1>2, <1>3, BoundsAssumption DEF LimitInv, InFlight

LEMMA FewerActive ==
  ASSUME LimitInv, TypeOK, Active' \subseteq Active, overlapped' = overlapped,
         \A r \in Reminders : creating'[r] \in InFlight => creating'[r] = creating[r]
  PROVE  LimitInv'
<1>1. /\ IsFiniteSet(Active) /\ IsFiniteSet(Active')
      /\ Cardinality(Active) \in Nat /\ Cardinality(Active') \in Nat
      /\ Cardinality(Active') <= Cardinality(Active)
  BY FS_Subset, FS_CardinalityType DEF LimitInv
<1>2. ASSUME ~overlapped'
      PROVE  /\ Cardinality(Active') <= Limit
             /\ \A r \in Reminders : creating'[r] = "insert" => Cardinality(Active') < Limit
             /\ \A r, s \in Reminders : creating'[r] \in InFlight /\ creating'[s] \in InFlight => r = s
  BY <1>1, <1>2, BoundsAssumption DEF LimitInv, InFlight
<1>3. QED
  BY <1>1, <1>2 DEF LimitInv

LEMMA LimitNext == RemInv /\ LimitInv /\ [Next]_vars => LimitInv'
<1> SUFFICES ASSUME RemInv, LimitInv, [Next]_vars PROVE LimitInv'
  OBVIOUS
<1>0. TypeOK /\ RowsOfCreates
  BY DEF RemInv
<1>1. ASSUME NEW r \in Reminders, BeginCreate(r) PROVE LimitInv'
  <2>1. Active' = Active
    BY <1>1 DEF BeginCreate, Active
  <2>2. IsFiniteSet(Active) /\ Cardinality(Active) \in Nat
    BY FS_CardinalityType DEF LimitInv
  <2>3. \A s \in Reminders : s # r => creating'[s] = creating[s]
    BY <1>0, <1>1 DEF BeginCreate, TypeOK
  <2>4. ASSUME ~overlapped'
        PROVE  /\ Cardinality(Active) <= Limit
               /\ \A s \in Reminders : creating'[s] = "insert" => Cardinality(Active) < Limit
               /\ \A s, t \in Reminders : creating'[s] \in InFlight /\ creating'[t] \in InFlight => s = t
    <3>1. ~overlapped /\ \A s \in Reminders : creating[s] \notin InFlight
      BY <2>4, <1>1 DEF BeginCreate, InFlight
    <3>2. \A s \in Reminders : creating'[s] \in InFlight => s = r
      BY <2>3, <3>1
    <3>3. creating'[r] = "insert" => Cardinality(Active) < Limit
      BY <1>0, <1>1, <2>2, BoundsAssumption DEF BeginCreate, TypeOK
    <3>4. QED
      BY <3>1, <3>2, <3>3 DEF LimitInv, InFlight
  <2>5. QED
    BY <2>1, <2>2, <2>4 DEF LimitInv
<1>2. ASSUME NEW r \in Reminders, NEW date \in 0 .. MaxTime, InsertRow(r, date) PROVE LimitInv'
  <2>1. /\ creating[r] = "insert" /\ overlapped' = overlapped
        /\ row' = [row EXCEPT ![r] = [status |-> "ACTIVE", next |-> date]]
        /\ creating' = [creating EXCEPT ![r] = "schedule"]
    BY <1>2 DEF InsertRow
  <2>2. r \notin Active
    BY <1>0, <2>1 DEF RowsOfCreates, Active
  <2>3. Active' = Active \cup {r}
    BY <1>0, <2>1 DEF Active, TypeOK
  <2>4. /\ IsFiniteSet(Active) /\ Cardinality(Active) \in Nat
        /\ IsFiniteSet(Active') /\ Cardinality(Active') = Cardinality(Active) + 1
    BY <2>2, <2>3, FS_AddElement, FS_CardinalityType DEF LimitInv
  <2>5. \A s \in Reminders : creating'[s] = IF s = r THEN "schedule" ELSE creating[s]
    BY <1>0, <2>1 DEF TypeOK
  <2>6. ASSUME ~overlapped'
        PROVE  /\ Cardinality(Active') <= Limit
               /\ \A s \in Reminders : creating'[s] = "insert" => Cardinality(Active') < Limit
               /\ \A s, t \in Reminders : creating'[s] \in InFlight /\ creating'[t] \in InFlight => s = t
    <3>1. /\ Cardinality(Active) < Limit
          /\ \A s, t \in Reminders : creating[s] \in InFlight /\ creating[t] \in InFlight => s = t
      BY <2>1, <2>6 DEF LimitInv
    <3>2. \A s \in Reminders : creating[s] \in InFlight => s = r
      BY <2>1, <3>1 DEF InFlight
    <3>3. \A s \in Reminders : creating'[s] # "insert"
      BY <2>5, <3>2 DEF InFlight
    <3>4. \A s \in Reminders : creating'[s] \in InFlight => s = r
      BY <2>5, <3>2
    <3>5. QED
      BY <2>4, <3>1, <3>3, <3>4, BoundsAssumption
  <2>7. QED
    BY <2>4, <2>6 DEF LimitInv
<1>3. ASSUME NEW r \in Reminders, ScheduleFirst(r) \/ LoseCreate(r) PROVE LimitInv'
  <2>1. Active' = Active /\ overlapped' = overlapped
    BY <1>3 DEF ScheduleFirst, LoseCreate, Active
  <2>2. \A s \in Reminders : creating'[s] \in InFlight => creating'[s] = creating[s]
    BY <1>0, <1>3 DEF ScheduleFirst, LoseCreate, InFlight, TypeOK
  <2>3. QED
    BY <1>0, <2>1, <2>2, FewerActive
<1>4. ASSUME MoveOn PROVE LimitInv'
  <2>1. worker.at = "move" /\ creating' = creating /\ overlapped' = overlapped
    BY <1>4 DEF MoveOn
  <2>2. Mine \in Reminders
    BY <2>1, AtWork
  <2>3. \A r \in Reminders : row'[r].status = "ACTIVE" => row[r].status = "ACTIVE"
    BY <1>0, <1>4, <2>2, SMTT(20) DEF MoveOn, Mine, TypeOK, Row
  <2>4. QED
    BY <1>0, <2>1, <2>3, FewerActive DEF Active
<1>5. ASSUME UNCHANGED <<row, creating, overlapped>> PROVE LimitInv'
  BY <1>0, <1>5, FewerActive DEF Active
<1>6. QED
  <2>1. \/ \E r \in Reminders : CreateStep(r)
        \/ MoveOn
        \/ UNCHANGED <<row, creating, overlapped>>
    BY DEF Next, JobStep, vars, Tick, TakeJob, ReadReminder, CreateNote, SendMessage, MarkSent,
           ScheduleNext, FinishJob, FailJob, CrashWorker
  <2>2. QED
    BY <1>1, <1>2, <1>3, <1>4, <1>5, <2>1 DEF CreateStep

(* Nothing sent is dated beyond the row, and a date is repeated at most as *)
(* often as something failed: the date of an active row less often still,  *)
(* unless the worker has sent it and not moved the row on yet.             *)
Told(r, d) == {m \in sent : m.reminder = r /\ m.date = d}
SentNow(r) == worker # Idle /\ Mine = r /\ worker.at \in {"mark", "move"}
RepeatInv ==
  /\ IsFiniteSet(sent)
  /\ \A m \in sent : creating[m.reminder] = "done" /\ m.date <= row[m.reminder].next
  /\ \A r \in Reminders, d \in Nat : Cardinality(Told(r, d)) <= 1 + faults
  /\ \A r \in Reminders : row[r].status = "ACTIVE" /\ ~SentNow(r) =>
       Cardinality(Told(r, row[r].next)) <= faults

LEMMA ToldFinite ==
  ASSUME RepeatInv
  PROVE  \A r, d : IsFiniteSet(Told(r, d)) /\ Cardinality(Told(r, d)) \in Nat
<1>1. ASSUME NEW r, NEW d PROVE IsFiniteSet(Told(r, d)) /\ Cardinality(Told(r, d)) \in Nat
  <2>1. Told(r, d) \subseteq sent
    BY DEF Told
  <2>2. IsFiniteSet(Told(r, d))
    BY <2>1, FS_Subset DEF RepeatInv
  <2>3. QED
    BY <2>2, FS_CardinalityType
<1>2. QED
  BY <1>1

LEMMA RepeatStart == Init => RepeatInv
<1> SUFFICES ASSUME Init PROVE RepeatInv
  OBVIOUS
<1>1. sent = {} /\ faults = 0 /\ \A r \in Reminders : row[r].status = "ABSENT"
  BY DEF Init, Absent
<1>2. \A r, d : Told(r, d) = {}
  BY <1>1 DEF Told
<1>3. \A r, d : Cardinality(Told(r, d)) = 0
  BY <1>2, FS_EmptySet
<1>4. IsFiniteSet(sent)
  BY <1>1, FS_EmptySet
<1>5. QED
  BY <1>1, <1>3, <1>4 DEF RepeatInv

(* Steps that send nothing and leave the dates alone.                      *)
LEMMA NothingTold ==
  ASSUME TypeOK, RepeatInv, sent' = sent, row' = row,
         \A r \in Reminders : creating[r] = "done" => creating'[r] = "done",
         \/ faults' = faults /\ \A r \in Reminders : SentNow(r) => SentNow(r)'
         \/ faults' = faults + 1
  PROVE  RepeatInv'
<1>1. \A r, d : Told(r, d)' = Told(r, d)
  BY DEF Told
<1>2. faults \in Nat /\ \A r \in Reminders : row[r].next \in Nat
  BY DEF TypeOK, Row
<1>3. \A m \in sent : m.reminder \in Reminders
  BY DEF TypeOK, Message
<1>4. /\ IsFiniteSet(sent')
      /\ \A m \in sent' : creating'[m.reminder] = "done" /\ m.date <= row'[m.reminder].next
  BY <1>3 DEF RepeatInv
<1>5. \A r \in Reminders, d \in Nat : Cardinality(Told(r, d)) <= 1 + faults'
  BY <1>2, ToldFinite DEF RepeatInv
<1>6. ASSUME NEW r \in Reminders, row'[r].status = "ACTIVE", ~SentNow(r)'
      PROVE  Cardinality(Told(r, row[r].next)) <= faults'
  <2>1. CASE faults' = faults + 1
    BY <1>2, <2>1 DEF RepeatInv
  <2>2. CASE faults' = faults /\ ~SentNow(r)
    BY <1>6, <2>2 DEF RepeatInv
  <2>3. QED
    BY <1>6, <2>1, <2>2
<1>7. QED
  BY <1>1, <1>4, <1>5, <1>6 DEF RepeatInv

LEMMA RepeatNext == RemInv /\ RepeatInv /\ [Next]_vars => RepeatInv'
<1> SUFFICES ASSUME RemInv, RepeatInv, [Next]_vars PROVE RepeatInv'
  OBVIOUS
<1>0. TypeOK /\ JobsOfRows /\ WorkerHoldsJob /\ WorkerKnows
  BY DEF RemInv
<1>1. ASSUME NEW r \in Reminders, NEW date \in 0 .. MaxTime, InsertRow(r, date) PROVE RepeatInv'
  <2>1. /\ creating[r] = "insert" /\ UNCHANGED <<worker, sent, faults>>
        /\ row' = [row EXCEPT ![r] = [status |-> "ACTIVE", next |-> date]]
        /\ creating' = [creating EXCEPT ![r] = "schedule"]
    BY <1>1 DEF InsertRow
  <2>2. \A m \in sent : m.reminder # r /\ m.reminder \in Reminders
    BY <1>0, <2>1 DEF RepeatInv, TypeOK, Message
  <2>3. \A s \in Reminders : row'[s] = IF s = r THEN [status |-> "ACTIVE", next |-> date] ELSE row[s]
    BY <1>0, <2>1 DEF TypeOK
  <2>4. date \in Nat
    BY BoundsAssumption
  <2>5. \A s, d : Told(s, d)' = Told(s, d)
    BY <2>1 DEF Told
  <2>6. \A s : SentNow(s)' <=> SentNow(s)
    BY <2>1 DEF SentNow, Mine
  <2>7. \A s \in Reminders : creating[s] = "done" => creating'[s] = "done"
    BY <1>0, <2>1 DEF TypeOK
  <2>8. IsFiniteSet(sent') /\ \A m \in sent' : creating'[m.reminder] = "done" /\ m.date <= row'[m.reminder].next
    BY <2>1, <2>2, <2>3, <2>7 DEF RepeatInv
  <2>9. Told(r, date) = {}
    BY <2>2 DEF Told
  <2>10. Cardinality(Told(r, date)) = 0 /\ faults \in Nat
    BY <1>0, <2>9, FS_EmptySet DEF TypeOK
  <2>11. \A s \in Reminders : row'[s].status = "ACTIVE" /\ ~SentNow(s) =>
           Cardinality(Told(s, row'[s].next)) <= faults
    BY <2>3, <2>10 DEF RepeatInv
  <2>12. \A s \in Reminders, d \in Nat : Cardinality(Told(s, d)) <= 1 + faults
    BY DEF RepeatInv
  <2>13. QED
    BY <2>1, <2>5, <2>6, <2>8, <2>11, <2>12 DEF RepeatInv
<1>2. ASSUME SendMessage PROVE RepeatInv'
  <2>1. worker.at = "send" /\ UNCHANGED <<row, creating, faults>>
    BY <1>2 DEF SendMessage
  <2>2. PICK m : m = [reminder |-> worker.job.reminder, run |-> worker.job.run,
                      attempt |-> Attempt, date |-> worker.seen]
    OBVIOUS
  <2>3. m.reminder = Mine /\ m.date = worker.seen /\ sent' = sent \cup {m}
    BY <1>2, <2>2 DEF SendMessage, Mine
  <2>4. /\ worker \in Work /\ worker # Idle /\ Mine \in Reminders /\ worker.seen \in Nat
        /\ worker.job \in jobs /\ row[Mine].status = "ACTIVE" /\ row[Mine].next = worker.seen
        /\ creating[Mine] = "done"
    BY <1>0, <2>1, AtWork DEF WorkerKnows, Reading, JobsOfRows, Mine
  <2>5. worker'.at = "mark" /\ worker'.job = worker.job /\ worker' # Idle
    <3>1. worker' = [worker EXCEPT !.at = "mark"]
      BY <1>2 DEF SendMessage, GoTo
    <3>2. worker'.at = "mark" /\ worker'.job = worker.job
      BY <2>4, <3>1 DEF Work
    <3>3. QED
      BY <3>2 DEF Idle
  <2>6. ~SentNow(Mine)
    BY <2>1 DEF SentNow
  <2>7. Cardinality(Told(Mine, worker.seen)) <= faults
    BY <2>4, <2>6 DEF RepeatInv
  <2>8. \A r, d : ~(r = Mine /\ d = worker.seen) => Told(r, d)' = Told(r, d)
    BY <2>3 DEF Told
  <2>9. Told(Mine, worker.seen) \cup {m} = {n \in sent' : n.reminder = Mine /\ n.date = worker.seen}
    BY <2>3 DEF Told
  <2>10. /\ IsFiniteSet(Told(Mine, worker.seen) \cup {m})
         /\ Cardinality(Told(Mine, worker.seen) \cup {m}) <= Cardinality(Told(Mine, worker.seen)) + 1
    <3>1. IsFiniteSet(Told(Mine, worker.seen)) /\ Cardinality(Told(Mine, worker.seen)) \in Nat
      BY ToldFinite
    <3>2. QED
      BY <3>1, FS_AddElement, SMTT(20)
  <2>11. PICK r0, d0 : r0 = Mine /\ d0 = worker.seen
    OBVIOUS
  <2>12. Cardinality(Told(r0, d0)') <= 1 + faults
    <3>1. Told(r0, d0)' = Told(Mine, worker.seen) \cup {m}
      BY <2>9, <2>11 DEF Told
    <3>2. Cardinality(Told(Mine, worker.seen)) \in Nat /\ faults \in Nat
      BY <1>0, ToldFinite DEF TypeOK
    <3>3. Cardinality(Told(Mine, worker.seen) \cup {m}) \in Nat
      BY <2>10, FS_CardinalityType
    <3>4. QED
      BY <2>7, <2>10, <3>1, <3>2, <3>3
  <2>13. \A r \in Reminders, d \in Nat : Cardinality(Told(r, d)') <= 1 + faults
    <3> SUFFICES ASSUME NEW r \in Reminders, NEW d \in Nat PROVE Cardinality(Told(r, d)') <= 1 + faults
      OBVIOUS
    <3>1. CASE r = r0 /\ d = d0
      BY <2>12, <3>1
    <3>2. CASE ~(r = r0 /\ d = d0)
      BY <2>8, <2>11, <3>2 DEF RepeatInv
    <3>3. QED
      BY <3>1, <3>2
  <2>14. IsFiniteSet(sent')
    BY <2>3, FS_AddElement DEF RepeatInv
  <2>15. \A n \in sent' : creating[n.reminder] = "done" /\ n.date <= row[n.reminder].next
    BY <2>3, <2>4 DEF RepeatInv
  <2>16. SentNow(r0)'
    BY <2>5, <2>11 DEF SentNow, Mine
  <2>17. ASSUME NEW r \in Reminders, row[r].status = "ACTIVE", ~SentNow(r)'
         PROVE  Cardinality(Told(r, row[r].next)') <= faults
    <3>1. r # r0
      BY <2>16, <2>17
    <3>2. ~SentNow(r)
      BY <2>1 DEF SentNow
    <3>3. Told(r, row[r].next)' = Told(r, row[r].next)
      BY <2>1, <2>8, <2>11, <3>1 DEF Told
    <3>4. QED
      BY <2>17, <3>2, <3>3 DEF RepeatInv
  <2>18. QED
    BY <2>1, <2>13, <2>14, <2>15, <2>17 DEF RepeatInv
<1>3. ASSUME MoveOn PROVE RepeatInv'
  <2>1. worker.at = "move" /\ UNCHANGED <<creating, sent, faults>>
    BY <1>3 DEF MoveOn
  <2>2. /\ worker \in Work /\ worker # Idle /\ Mine \in Reminders /\ worker.seen \in Nat
        /\ row[Mine].next = worker.seen /\ row[Mine] \in Row
    BY <1>0, <2>1, AtWork DEF WorkerKnows, Reading
  <2>3. PICK r : r = Mine
    OBVIOUS
  <2>4. \A s \in Reminders : s # r => row'[s] = row[s]
    BY <1>0, <1>3, <2>2, <2>3 DEF MoveOn, Mine, TypeOK
  <2>5. \/ row'[r].next = worker.seen + 1
        \/ row'[r].next = worker.seen /\ row'[r].status # "ACTIVE"
    BY <1>0, <1>3, <2>2, <2>3 DEF MoveOn, Mine, TypeOK, Row
  <2>6. \A s, d : Told(s, d)' = Told(s, d)
    BY <2>1 DEF Told
  <2>7. \A m \in sent : m.reminder \in Reminders /\ m.date \in Nat
    BY <1>0 DEF TypeOK, Message
  <2>8. \A m \in sent : m.reminder = r => m.date <= worker.seen
    BY <2>2, <2>3 DEF RepeatInv
  <2>9. \A m \in sent : creating[m.reminder] = "done" /\ m.date <= row'[m.reminder].next
    <3> SUFFICES ASSUME NEW m \in sent PROVE creating[m.reminder] = "done" /\ m.date <= row'[m.reminder].next
      OBVIOUS
    <3>1. CASE m.reminder = r
      BY <2>2, <2>5, <2>7, <2>8, <3>1 DEF RepeatInv
    <3>2. CASE m.reminder # r
      BY <2>4, <2>7, <3>2 DEF RepeatInv
    <3>3. QED
      BY <3>1, <3>2
  <2>10. ASSUME NEW s \in Reminders, row'[s].status = "ACTIVE"
         PROVE  Cardinality(Told(s, row'[s].next)) <= faults
    <3>1. CASE s = r
      <4>1. row'[r].next = worker.seen + 1
        BY <2>5, <2>10, <3>1
      <4>2. Told(r, worker.seen + 1) = {}
        BY <2>2, <2>7, <2>8 DEF Told
      <4>3. Cardinality(Told(r, worker.seen + 1)) = 0 /\ faults \in Nat
        BY <1>0, <4>2, FS_EmptySet DEF TypeOK
      <4>4. QED
        BY <3>1, <4>1, <4>3
    <3>2. CASE s # r
      <4>1. ~SentNow(s) /\ row'[s] = row[s]
        BY <2>3, <2>4, <3>2 DEF SentNow
      <4>2. QED
        BY <2>10, <4>1 DEF RepeatInv
    <3>3. QED
      BY <3>1, <3>2
  <2>11. IsFiniteSet(sent) /\ \A s \in Reminders, d \in Nat : Cardinality(Told(s, d)) <= 1 + faults
    BY DEF RepeatInv
  <2>12. QED
    BY <2>1, <2>6, <2>9, <2>10, <2>11 DEF RepeatInv
<1>4. ASSUME sent' = sent, row' = row, faults' = faults, worker' = worker,
             \A r \in Reminders : creating[r] = "done" => creating'[r] = "done"
      PROVE  RepeatInv'
  BY <1>0, <1>4, NothingTold DEF SentNow, Mine
<1>5. ASSUME sent' = sent, row' = row, creating' = creating, faults' = faults + 1
      PROVE  RepeatInv'
  BY <1>0, <1>5, NothingTold
<1>6. ASSUME sent' = sent, row' = row, creating' = creating, faults' = faults,
             worker.at \notin {"mark", "move"} \/ worker = Idle
      PROVE  RepeatInv'
  BY <1>0, <1>6, NothingTold DEF SentNow
<1>7. ASSUME MarkSent PROVE RepeatInv'
  <2>1. worker.at = "mark" /\ worker' = [worker EXCEPT !.at = "move"]
    BY <1>7 DEF MarkSent, GoTo
  <2>2. worker \in Work /\ worker # Idle
    BY <2>1, AtWork
  <2>3. worker'.at = "move" /\ worker'.job = worker.job
    BY <2>1, <2>2 DEF Work
  <2>4. worker' # Idle
    BY <2>3 DEF Idle
  <2>5. \A r \in Reminders : SentNow(r) => SentNow(r)'
    BY <2>3, <2>4 DEF SentNow, Mine
  <2>6. QED
    BY <1>0, <1>7, <2>5, NothingTold DEF MarkSent
<1>8. ASSUME NEW r \in Reminders, BeginCreate(r) \/ ScheduleFirst(r) \/ LoseCreate(r) PROVE RepeatInv'
  <2>1. \A s \in Reminders : creating[s] = "done" => creating'[s] = "done"
    BY <1>0, <1>8 DEF BeginCreate, ScheduleFirst, LoseCreate, TypeOK
  <2>2. QED
    BY <1>4, <1>8, <2>1 DEF BeginCreate, ScheduleFirst, LoseCreate
<1>9. CASE Tick \/ UNCHANGED vars
  BY <1>4, <1>9 DEF Tick, vars
<1>10. CASE FailJob \/ CrashWorker
  BY <1>5, <1>10 DEF FailJob, CrashWorker
<1>11. CASE ReadReminder \/ CreateNote \/ ScheduleNext \/ FinishJob \/ \E j \in jobs : TakeJob(j)
  BY <1>6, <1>11 DEF ReadReminder, CreateNote, ScheduleNext, FinishJob, TakeJob
<1>12. QED
  BY <1>1, <1>2, <1>3, <1>7, <1>8, <1>9, <1>10, <1>11 DEF Next, CreateStep, JobStep

(* A job is named by its reminder and its date, whatever fails.  While     *)
(* nothing has failed, the job that waits is of the date of its row, there *)
(* is none beside the worker's until it schedules the next, and what the   *)
(* worker has read is the date of its job.                                 *)
JobsNamed == \A i, j \in jobs : i.reminder = j.reminder /\ i.run = j.run => i = j
InTime ==
  /\ \A j \in jobs : j.state = "waiting" => j.run = row[j.reminder].next
  /\ worker # Idle /\ worker.at # "finish" =>
       \A j \in jobs : j.state = "waiting" => j.reminder # Mine
  /\ worker # Idle /\ worker.at = "read" => worker.job.run = row[Mine].next
  /\ worker # Idle /\ worker.at \in Reading => worker.seen = worker.job.run
  /\ \A m \in sent : m.date = m.run
OnTimeInv == JobsNamed /\ (faults = 0 => InTime)

LEMMA OnTimeStart == Init => OnTimeInv
BY DEF Init, OnTimeInv, JobsNamed, InTime

(* The job of the worker is put back with another state.                   *)
LEMMA PutBack ==
  ASSUME RemInv, OnTimeInv, worker.at # "idle", worker' = Idle,
         NEW k, k.reminder = Mine, k.run = worker.job.run,
         jobs' = (jobs \ {worker.job}) \cup {k},
         UNCHANGED <<row, sent>>,
         (faults' = faults /\ k.state # "waiting") \/ faults' = faults + 1
  PROVE  OnTimeInv'
<1>1. worker.job \in jobs /\ faults \in Nat
  BY AtWork DEF RemInv, TypeOK
<1>2. JobsNamed'
  BY <1>1 DEF OnTimeInv, JobsNamed, Mine
<1>3. faults' = 0 => InTime'
  <2> SUFFICES ASSUME faults' = 0 PROVE InTime'
    OBVIOUS
  <2>1. faults = 0 /\ k.state # "waiting"
    BY <1>1
  <2>2. InTime
    BY <2>1 DEF OnTimeInv
  <2>3. \A j \in jobs' : j.state = "waiting" => j \in jobs
    BY <2>1
  <2>4. QED
    BY <2>2, <2>3 DEF InTime
<1>4. QED
  BY <1>2, <1>3 DEF OnTimeInv

LEMMA OnTimeNext == RemInv /\ OnTimeInv /\ [Next]_vars => OnTimeInv'
<1> SUFFICES ASSUME RemInv, OnTimeInv, [Next]_vars PROVE OnTimeInv'
  OBVIOUS
<1>0. TypeOK /\ JobsOfRows /\ WorkerHoldsJob /\ WorkerKnows /\ JobsNamed
  BY DEF RemInv, OnTimeInv
<1>1. \A j \in jobs : j.reminder \in Reminders /\ j.run \in Nat /\ j \in Job
  BY <1>0 DEF TypeOK, Job
<1>2. ASSUME NEW r \in Reminders, CreateStep(r) PROVE OnTimeInv'
  <2>0. /\ creating[r] # "done" /\ UNCHANGED <<worker, sent, faults>>
        /\ \A s \in Reminders : s # r => row'[s] = row[s]
    BY <1>0, <1>2 DEF CreateStep, BeginCreate, InsertRow, ScheduleFirst, LoseCreate, TypeOK
  <2>1. \A j \in jobs : j.reminder # r /\ row'[j.reminder] = row[j.reminder]
    BY <1>0, <1>1, <2>0 DEF JobsOfRows
  <2>2. worker # Idle => Mine \in Reminders /\ Mine # r /\ row'[Mine] = row[Mine]
    BY <1>0, <1>1, <2>0, <2>1 DEF WorkerHoldsJob, Mine
  <2>3. CASE jobs' = jobs
    BY <2>0, <2>1, <2>2, <2>3 DEF OnTimeInv, JobsNamed, InTime, Mine
  <2>4. CASE ScheduleFirst(r)
    <3>1. PICK k : k = NewJob(r, row[r].next)
      OBVIOUS
    <3>2. jobs' = jobs \cup {k} /\ k.reminder = r /\ k.run = row[r].next /\ row' = row
      BY <2>1, <2>4, <3>1 DEF ScheduleFirst, Schedule, NewJob
    <3>3. JobsNamed'
      BY <1>0, <2>1, <3>2 DEF JobsNamed
    <3>4. InTime => InTime'
      BY <2>0, <2>1, <2>2, <3>2 DEF InTime, Mine
    <3>5. QED
      BY <2>0, <3>3, <3>4 DEF OnTimeInv
  <2>5. QED
    BY <1>2, <2>3, <2>4 DEF CreateStep, BeginCreate, InsertRow, LoseCreate
<1>3. ASSUME NEW j \in jobs, TakeJob(j) PROVE OnTimeInv'
  <2>1. PICK k : k = [j EXCEPT !.state = "active"]
    OBVIOUS
  <2>2. /\ worker = Idle /\ worker' = [at |-> "read", job |-> k, seen |-> 0] /\ j.state = "waiting"
        /\ jobs' = (jobs \ {j}) \cup {k} /\ UNCHANGED <<row, sent, faults>>
    BY <1>3, <2>1 DEF TakeJob, Replace
  <2>3. k.reminder = j.reminder /\ k.run = j.run /\ k.state = "active"
    BY <1>1, <2>1 DEF Job
  <2>4. JobsNamed'
    BY <1>0, <2>2, <2>3 DEF JobsNamed
  <2>5. worker'.at = "read" /\ worker'.job = k
    BY <2>2
  <2>6. ASSUME InTime PROVE InTime'
    <3>1. \A i \in jobs' : i.state = "waiting" => i \in jobs /\ i # j
      BY <2>2, <2>3
    <3>2. \A i \in jobs' : i.state = "waiting" => i.run = row'[i.reminder].next
      BY <2>2, <2>6, <3>1 DEF InTime
    <3>3. j.run = row[j.reminder].next
      BY <2>2, <2>6 DEF InTime
    <3>4. \A i \in jobs' : i.state = "waiting" => i.reminder # k.reminder
      BY <1>0, <2>2, <2>3, <2>6, <3>1, <3>3 DEF InTime, JobsNamed
    <3>5. \A m \in sent' : m.date = m.run
      BY <2>2, <2>6 DEF InTime
    <3>6. QED
      BY <2>2, <2>3, <2>5, <3>2, <3>3, <3>4, <3>5 DEF InTime, Mine, Reading
  <2>7. QED
    BY <2>2, <2>4, <2>6 DEF OnTimeInv
<1>4. ASSUME ReadReminder PROVE OnTimeInv'
  <2>1. worker.at = "read" /\ UNCHANGED <<jobs, row, sent, faults>>
    BY <1>4 DEF ReadReminder
  <2>2. worker \in Work /\ worker # Idle
    BY <2>1, AtWork DEF RemInv
  <2>3. /\ worker'.job = worker.job
        /\ \/ worker'.at = "note" /\ worker'.seen = row[Mine].next
           \/ worker'.at = "finish"
    BY <1>4, <2>2 DEF ReadReminder, Mine, Work
  <2>4. InTime => InTime'
    BY <2>1, <2>2, <2>3 DEF InTime, Mine, Reading
  <2>5. QED
    BY <1>0, <2>1, <2>4 DEF OnTimeInv, JobsNamed
<1>5. ASSUME CreateNote \/ SendMessage \/ MarkSent PROVE OnTimeInv'
  <2>1. worker.at \in {"note", "send", "mark"} /\ UNCHANGED <<jobs, row, faults>>
    BY <1>5 DEF CreateNote, SendMessage, MarkSent
  <2>2. worker \in Work /\ worker # Idle
    BY <2>1, AtWork DEF RemInv
  <2>3. worker'.job = worker.job /\ worker'.seen = worker.seen /\ worker'.at \in Reading
    BY <1>5, <2>2 DEF CreateNote, SendMessage, MarkSent, GoTo, Work, Reading
  <2>4. InTime => \A m \in sent' : m.date = m.run
    BY <1>5, <2>1, <2>2 DEF InTime, CreateNote, SendMessage, MarkSent, Reading
  <2>5. InTime => InTime'
    BY <2>1, <2>2, <2>3, <2>4 DEF InTime, Mine, Reading
  <2>6. QED
    BY <1>0, <2>1, <2>5 DEF OnTimeInv, JobsNamed
<1>6. ASSUME MoveOn PROVE OnTimeInv'
  <2>1. worker.at = "move" /\ UNCHANGED <<jobs, sent, faults>>
    BY <1>6 DEF MoveOn
  <2>2. worker \in Work /\ worker # Idle /\ Mine \in Reminders
    BY <2>1, AtWork DEF RemInv
  <2>3. worker'.job = worker.job /\ worker'.at \in {"schedule", "finish"}
    BY <1>6, <2>2 DEF MoveOn, GoTo, Work
  <2>4. \A s \in Reminders : s # Mine => row'[s] = row[s]
    BY <1>0, <1>6 DEF MoveOn, Mine, TypeOK
  <2>5. ASSUME InTime PROVE InTime'
    <3>1. \A j \in jobs : j.state = "waiting" => j.reminder # Mine
      BY <2>1, <2>2, <2>5 DEF InTime
    <3>2. \A j \in jobs : j.state = "waiting" => j.run = row'[j.reminder].next
      BY <1>1, <2>4, <2>5, <3>1 DEF InTime
    <3>3. QED
      BY <2>1, <2>3, <2>5, <3>1, <3>2 DEF InTime, Mine, Reading
  <2>6. QED
    BY <1>0, <2>1, <2>5 DEF OnTimeInv, JobsNamed
<1>7. ASSUME ScheduleNext PROVE OnTimeInv'
  <2>1. worker.at = "schedule" /\ UNCHANGED <<row, sent, faults>>
    BY <1>7 DEF ScheduleNext
  <2>2. /\ worker \in Work /\ worker # Idle /\ worker.seen \in Nat
        /\ row[Mine].next = worker.seen + 1
        /\ \A j \in jobs : j.reminder = Mine => j.run <= worker.seen
    BY <1>0, <2>1, AtWork DEF WorkerKnows
  <2>3. PICK k : k = NewJob(Mine, worker.seen + 1)
    OBVIOUS
  <2>4. k.reminder = Mine /\ k.run = worker.seen + 1
    BY <2>3 DEF NewJob
  <2>5. \A j \in jobs : ~(j.reminder = Mine /\ j.run = worker.seen + 1)
    BY <1>1, <2>2
  <2>6. jobs' = jobs \cup {k}
    BY <1>7, <2>3, <2>5 DEF ScheduleNext, Schedule, Mine
  <2>7. worker'.at = "finish" /\ worker'.job = worker.job
    BY <1>7, <2>2 DEF ScheduleNext, GoTo, Work
  <2>8. JobsNamed'
    BY <1>0, <2>4, <2>5, <2>6 DEF JobsNamed
  <2>9. InTime => InTime'
    BY <2>1, <2>2, <2>4, <2>6, <2>7 DEF InTime, Mine, Reading
  <2>10. QED
    BY <2>1, <2>8, <2>9 DEF OnTimeInv
<1>8. ASSUME FinishJob PROVE OnTimeInv'
  <2>1. worker.at = "finish"
    BY <1>8 DEF FinishJob
  <2>2. worker.job \in Job
    BY <2>1, AtWork DEF RemInv
  <2>3. PICK k : k = [worker.job EXCEPT !.state = "completed"]
    OBVIOUS
  <2>4. k.reminder = Mine /\ k.run = worker.job.run /\ k.state # "waiting"
    BY <2>2, <2>3 DEF Job, Mine
  <2>5. QED
    BY <1>8, <2>1, <2>3, <2>4, PutBack DEF FinishJob, Replace
<1>9. ASSUME FailJob PROVE OnTimeInv'
  <2>1. worker.at # "idle"
    BY <1>0, <1>9, WorkerTypes DEF FailJob
  <2>2. worker.job \in Job
    BY <2>1, AtWork
  <2>3. PICK k : k = [worker.job EXCEPT !.tries = @ + 1,
                        !.state = IF worker.job.tries + 1 < Attempts THEN "waiting" ELSE "failed"]
    OBVIOUS
  <2>4. k.reminder = Mine /\ k.run = worker.job.run
    BY <2>2, <2>3 DEF Job, Mine
  <2>5. QED
    BY <1>9, <2>1, <2>3, <2>4, PutBack DEF FailJob, Replace
<1>10. ASSUME CrashWorker PROVE OnTimeInv'
  <2>1. worker.at # "idle"
    BY <1>0, <1>10, WorkerTypes DEF CrashWorker
  <2>2. worker.job \in Job
    BY <2>1, AtWork
  <2>3. PICK k : k = [worker.job EXCEPT !.stalls = @ + 1,
                        !.state = IF worker.job.stalls = 0 THEN "waiting" ELSE "failed"]
    OBVIOUS
  <2>4. k.reminder = Mine /\ k.run = worker.job.run
    BY <2>2, <2>3 DEF Job, Mine
  <2>5. QED
    BY <1>10, <2>1, <2>3, <2>4, PutBack DEF CrashWorker, Replace
<1>11. CASE Tick \/ UNCHANGED vars
  BY <1>11 DEF Tick, vars, OnTimeInv, JobsNamed, InTime, Mine
<1>12. QED
  BY <1>2, <1>3, <1>4, <1>5, <1>6, <1>7, <1>8, <1>9, <1>10, <1>11 DEF Next, JobStep

(* Overlapping creates alone can pass the limit of the free plan; a date   *)
(* is notified again only as often as something failed; and a message is   *)
(* sent by the job of another date only after a failure: for every number  *)
(* of reminders, attempts and faults, whatever the limit.                  *)
THEOREM FaultFreeSafe == Spec => []FaultFree
<1>1. Init => LimitInv /\ RepeatInv /\ OnTimeInv
  BY LimitStart, RepeatStart, OnTimeStart
<1>2. LimitInv => WithinLimit
  BY DEF LimitInv, WithinLimit
<1>3. TypeOK /\ RepeatInv => RepeatNeedsFault
  <2> SUFFICES ASSUME TypeOK, RepeatInv, NEW m \in sent
               PROVE  Cardinality({n \in sent : n.reminder = m.reminder /\ n.date = m.date}) <= 1 + faults
    BY DEF RepeatNeedsFault
  <2>1. m.reminder \in Reminders /\ m.date \in Nat
    BY DEF TypeOK, Message
  <2>2. {n \in sent : n.reminder = m.reminder /\ n.date = m.date} = Told(m.reminder, m.date)
    BY DEF Told
  <2>3. QED
    BY <2>1, <2>2 DEF RepeatInv
<1>4. OnTimeInv => OnTimeWithoutFaults
  BY DEF OnTimeInv, InTime, OnTimeWithoutFaults
<1>5. Spec => [](LimitInv /\ RepeatInv /\ OnTimeInv)
  BY <1>1, LimitNext, RepeatNext, OnTimeNext, RemInvariant, PTL DEF Spec
<1>6. QED
  BY <1>2, <1>3, <1>4, <1>5, TypeCorrect, PTL DEF FaultFree
=============================================================================
