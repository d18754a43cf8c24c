# Birrly backend: TLA+ models, checks and proofs

Birrly is a personal finance service used from a Telegram bot and a Mini App. This directory models its
core in TLA+, model-checks small instances with TLC, and proves theorems about the models with TLAPS.
All paths below are relative to the repository; `src/` is its TypeScript source.

The program is one Express process (`src/app`), one worker process (`src/jobs/worker.ts`), PostgreSQL
through Prisma, and Redis for conversations, counters and the BullMQ queues. Three facts about it shape
every model:

* a request is a chain of awaited calls, so **any two requests interleave between any two calls**;
* Prisma runs at PostgreSQL's default READ COMMITTED, and no code takes a row lock: **a value read is a
  value that may be stale when it is used**, inside `$transaction` as well;
* nothing is retried or resumed by the API process, so **a request may stop after any call**. Telegram
  redelivers updates and BullMQ repeats jobs; both make code run twice.

## 1. Inventory

State is in PostgreSQL unless said otherwise. "Hard" is what a test would hardly reach. The lines at which
each of these bites are the `hazards` of `PROJECT.json`.

| Component (`src/modules/...` unless said) | State | Operations | Hard | Correct means |
|---|---|---|---|---|
| debts | `debts`, `debt_payments` | create, recordPayment, recordNudge | balance read, then written as a value | status agrees with balance; balance = original − payments |
| transactions | `transactions`, unique (user, key) among all rows | create, update, remove | racing creates with one key; deleted rows still hold it; four separate statements | one live row per key; same key, same answer |
| telegram (`src/integrations/telegram`) | `telegram_processed_updates`; Redis conversation; buttons in the chat | webhook claim, text, Confirm, Cancel, Skip, commands | redelivery, double taps, stale pending command, crash after the claim | a record is what was shown and confirmed, at most once; every update answered |
| equb | `equbs`, `equb_members`, `equb_contributions` | create, recordContribution, advanceCycle, join, nudge | no transaction anywhere; pointer written as a value | pot goes round in order, nobody skipped |
| reminders, jobs (`src/jobs`) | `reminders`; Redis jobs | create, processReminderJob | repeat after any failure; row and job are two stores | a due reminder is sent, and not silently lost |
| notifications | `notifications` | notifyTelegram | status written after the message is out | SENT means delivered |
| subscriptions | `subscriptions`, `promo_codes`, `subscription_upgrade_requests` | trial, promo, grant, revoke, upgrade request, review | checks on reads outside the transaction; admin and user at once | paid time is not lost; promo and trial limits |
| savings | `savings_goals`, contributions | create, contribute, remove, pace | total read, then written as a value; limit check then insert; the allowance is rounded every day | total = sum of contributions; following the advice keeps the plan |
| group-savings, group-budgets | goal/budget, members, contributions/expenses, linked chat | create, join, add/remove member, contribute/spend, link chat | limits and roles checked before the write; cascades; totals over the newest rows only | shown totals equal the rows; limits and roles hold |
| budgets | `budgets` with categories, accounts | create, update, remove, progress | limit; period windows | spending counted once, in its period |
| digest (`src/jobs/digest.job.ts`) | Redis jobs | fan-out, send | fan-out repeated half way; no job ids | one digest per user and month |
| ai, llm, speech (`src/integrations/llm`, `speech`) | Redis daily counter; `ai_interactions` | interpret, transcribe, record use, outcome label | quota read before, counted after the call; two providers of each kind with fallbacks; rules tried in order | daily limit; every message answered, and never worse than by the rules |
| users, accounts, categories | `users`, `accounts`, `categories` | ensureFromTelegram, ensureBySlug, resolve | first contact twice at once | one user per Telegram id |
| rate limit (`src/middleware`) | Redis counters | count, expire | counter without expiry; fail-open | bounded requests per window |
| coach, reports | caches of generated text | get, regenerate | stale cache; two generations at once | – |
| feedback, admin, analytics, audit | append-only rows; reads | insert, list | audit after the write can be lost | audit never reports what did not happen |
| auth | web token, held by the client | verify, sign | – | a request reaches its user |
| payments stub, demo seed, i18n, app wiring | none | – | – | – |

Interactions: the Telegram handler calls transactions (with an idempotency key), debts, savings, budgets
and reminders to commit a confirmed command, and group budgets for a linked chat. Reminders and Equb send
through notifications. Limits everywhere ask subscriptions. Most writes are followed by `audit.record`.

## 2. Modules

| Module | Models | Role |
|---|---|---|
| `DebtLedger` | – | what a debt promises its owner, without requests |
| `Debts`, `MCDebts`, `DebtsProofs` | `debt.service.ts`, `debt.repository.ts` | refines `DebtLedger` for clients that wait |
| `Transactions`, `MCTransactions` | `transaction.service.ts`, `transaction.repository.ts` | used by `TelegramChat` |
| `TelegramChat`, `MCTelegramChat`, `TransactionsProofs` | webhook controller, idempotency and conversation stores, update handler | extends `Transactions`: the handler's create *is* a create of that module; the proofs are about both |
| `EqubRotation` | – | the pot goes round in order, once each |
| `Equb`, `MCEqub`, `EqubProofs` | `equb.service.ts`, join flow of the handler | refines `EqubRotation`, overlapping or not |
| `Subscriptions`, `MCSubscriptions`, `SubscriptionsProofs` | `subscription.service.ts` | all five writers of a subscription, promo codes, upgrade requests |
| `Reminders`, `MCReminders`, `RemindersProofs` | `reminder.service.ts`, `reminder.job.ts`, scheduler, queue set-up, `notification.service.ts` | one module: row, queue and worker only make sense together |
| `Membership` | what the two group services share: creator, members, roles, limits, requests in flight | extended by the next two |
| `GroupSavings`, `GroupBudgets`, `MCGroups`, `GroupsProofs` | `group-savings`, `group-budgets`, the `/gs` and `/gb` commands, expenses written in a linked chat | one instance, either of the two |
| `Savings`, `SavingsPace`, `Budgets`, `SignUp`, `MCPlans`, `PlansProofs` | `savings`, `shared/utils/savings-pace.ts`, `budgets`, then `users`, `categories`, `accounts` and what of `auth` finds a user | what concerns one user |
| `SpokenAmounts`, `RuleParser`, `Assistant` | `ai/parsers`, then `ai`, `integrations/llm`, `speech` and the voice note of the handler | the Assistant answers by the rules of `RuleParser`, which reads numbers by `SpokenAmounts` |
| `RateLimit`, `Digest`, `MCMessages`, `MessagesProofs` | `middleware/rate-limit.ts`; `jobs/digest.job.ts`, `digest`, the kept analyses of `coach` and `reports` | with the Assistant, what stands around the chat; the proofs are about the parser, the Assistant, the RateLimit and the Digest |

An `MC` module adds the symmetry sets and sequences to its components; the `.cfg` gives the constants.
`MCGroups`, `MCPlans` and `MCMessages` hold several components that share no state (`MCGroups`: that share
`Membership`). Interleaving those would multiply states and show nothing, so a variable `part` says of which
component a behaviour is; every property is an invariant or a formula of one of them and holds of the other
behaviours because their variables keep their initial values. Definitions called "mutant" stand before the
definition they alter; no specification uses them. They are the plausible bugs each property is tried
against.

### Debts
`debt` and `paid` are the two tables (`paid` is the sum of a debt's payment rows). `recordPayment` is
`BeginPayment` (read and checks, the balance kept in the process) and `CommitPayment` or
`RollbackPayment`; update, insert and COMMIT are one step because none is visible before the last and a
second writer waits for the row lock. A nudge is two steps as well. `auditing` holds requests between the
commit and `audit.record`. Refused requests change nothing and are no steps. `Serial` is the set of debts
whose client waits for one payment before sending the next: the same code, with and without overlap, in one
model.

### Transactions
A create walks through lookup, insert, (on P2002) lookup again, release of a deleted row's key, insert
again, audit; `req[r]` says where it is. A row is named by the request that inserted it. `update` and
`remove` are a read and a write by id. Only the identity, key and deletion of a row matter here, amounts
and categories do not.

### TelegramChat
One user, one chat. `sent` is what the user did, `processed` the claim table, `conv` the pending command in
Redis (named by the text update that made its token), `handler[u]` the place of the handler of update `u`
and the command it read. `Text` is the set of texts: an income or expense, another command, or a question that only answers. A text overwrites `conv`; Confirm and Cancel read it once and act several awaits
later. `Throw` is any call of the handler failing, `Crash` the process, `Expire` the Redis TTL,
`ClaimError` the store that takes every failed insert for a duplicate. Expenses and incomes go through
`Transactions` under the key of the tapped token; other commands insert one record without a key.

### Equb
A member is named by payout position. A contribution is read, lookup, insert; an advance is read, mark the
recipient, write the pointer; `Stop` ends a request anywhere. `overlapped` is a history variable: it turns
true when a request arrives while another is in flight, and lets one model say what holds always and what
holds for an organiser whose app waits.

### Reminders
Time is counted in periods. A job is named by reminder and date, as the job id in the code. The worker
takes a due job and goes through read, notification row, message, mark, move the row on, schedule the next;
`FailJob` is a call that throws (its effect may or may not be there) and puts the job back until
`Attempts` are used, `CrashWorker` is a stalled job, run again once. `sent` is what reached the chat. The
queue itself is external and modelled from how `queues.ts` and `reminder.scheduler.ts` use it: an id it
holds is not added again, one worker process runs one job at a time.

### Subscriptions
`sub[u]` is the row of user `u` (`end = 0` for a null `current_period_end`; no row reads the same as a FREE
one), `promo` and `upgrade` the other two tables. A request that has read what it decides on is in `flight`
and carries **the row it is going to write**; its write, with everything else in the same `$transaction`, is
one step, and `LoseRequest` ends it before. Redeeming reads twice, the code and then the row with the clock;
approving reads the request, then the clock. `revokeSubscription` reads nothing of the row and is one step.
The clock counts days up to `MaxTime`; a code with an expiry beyond it never expires. `overlapped` is the
history variable of `Equb`, `trials` counts a user's trials since the last revocation.

### Membership, GroupSavings, GroupBudgets
A request that has read a group and what the plan of its creator allows is in `flight`; its write is a
second step, and what it decided on may be gone by then. `overlapped` turns true when a request or a change
of plan comes between a read and its write. Refused requests are no steps. `GroupSavings` keeps the total of
a goal twice, as the code does: the column `current`, and what `toDto` sums over the newest `Window` rows
(`Shown`). Times are the caller's, so among rows of one instant any may be the newest. `GroupBudgets` differs
where the code does: adding is an upsert that may change a role, a VIEWER may not spend, every member may
link the chat, and a chat with several linked budgets uses the one updated last (`older`, the order of `updated_at`). An expense
heard in the chat goes through `HearExpense`, `StartChatSpend`, `CommitSpend`, `AnswerSpend`; every throw in
between ends in `FallThrough`, the personal confirmation. `fate[r]` records where a message went.

### Savings, SavingsPace, Budgets, SignUp
`Savings` reads a total and writes the sum (`StartContribute`, `FinishContribute`), and counts goals before
it inserts one; `raced` records what overlapped. `SavingsPace` is `computeSavingsPace` with its rounding,
asked every morning of a month while expenses are written and deleted and the plan changes. `Budgets` has
the calendar arithmetic of luxon (`PlusMonths` clamps to the end of a month) over months of three and one
days, `periodWindow` on top of it, and create, update, remove. `SignUp` takes a request from its identity to
a row of the user, a category and an account, one await at a time, with the unique keys as the only guards,
and accounts that may have been archived.

### SpokenAmounts, RuleParser, Assistant
A word is a record: a class (`taxi` for every word with a category, `name` for one without, one class for
every keyword of a rule) and a number. A rule is a list of patterns over classes with its condition and
confidence, a definition with the name it has in `parseWithFallback`; `AmharicRules`, `EnglishRules` and
`LastRules` are lists of them in the order of the code, and `Parse` takes the first that applies. All that is
assumed of words is that their numbers are natural and a number word is not zero (`VocabularyAssumption`).
`Assistant` takes a call from a text (after the look for a pending conversation) or a voice note (after the
download, through the speech services) past the plan, the quota, the rules and the models to the charge, the
answer and the command saved for confirmation. `SpeechResponses` and `ModelResponses` are the responses
of the services that the code tells apart, and `Transcript`, `Answer`, `Retryable` what it makes of each; what
throws on the way to the rules ends in `Apology`. Redis may answer a command with an error (`fails`), or go away and
return (`RedisGoesAway`, `RedisReturns`): the calls whose next command is one of Redis (`NeedsRedis`) wait
meanwhile, and an increment that was under way may be made twice. The plan is read anew by each call, so it
may be any.

### RateLimit, Digest
`RateLimit` is the counter of one identity: `incr`, and `pexpire` by the first request, each of which may
time out after 400 ms and be carried out all the same. `letIn` is a history variable, the requests that the
counter of this window has let in; one let in because Redis did not answer is none of them. `Digest` has the fan-out job, the job of a user with
the two analyses (kept, generated, refused, off), the message and the mark; `FanoutFails`, `JobFails` and
`WorkerDies` may strike at every await. `texts` numbers the analyses so that a digest can be compared with
what the Mini App shows.

## 3. Runs

Run all with `tlc -config <cfg> <module>` in this directory; none takes longer than four minutes.

| Run | Instance | Shows |
|---|---|---|
| `debts` | 2 debts (one `Serial`), 5 requests, amounts 1 and 2 | under overlap: status agrees with balance (`StatusMatchesBalance`), a balance never falls by more than was paid and audit records are backed (`WritesAreBacked`), it moves only with a payment row; for the serial debt exact balance and settled is final (`BalanceHistory`), and it implements `DebtLedger` |
| `debts_atomic` | 1 debt, 3 requests | **violation**: overlapping payments lose one from the balance |
| `transactions` | 3 creates, 2 keys | answers to one key agree and name that key's row (`KeyedAnswers`), fail only after a deletion; one live row per key |
| `telegram_chat` | any 3 updates of one user, fair | what is saved is what was shown, once per confirmation, and a CONFIRMED label has its expense (`SavedAsConfirmed`); no update is handled twice; every update is answered 200 in the end |
| `telegram_doubletap` | 3 updates | **violation**: two taps store a debt, budget, goal or reminder twice |
| `equb` | 3 members, 4 requests, 1 joining user | nobody skipped and contributions follow payouts (`PayoutsInOrder`), implements `EqubRotation`; without overlap the pointer only moves forward, contributions go to the current cycle, repeats are answered (`SerialRunsInOrder`) |
| `reminders` | 1 single and 1 daily reminder, 2 attempts, 2 faults, clock to 1, fair | no date is left behind unsent and completed means sent (`OnlyLeftWhenSent`), active means scheduled or given up, repeats and early messages need a fault and the limit holds for creates that wait (`FaultFree`); created means sent or given up in the end |
| `subscriptions` | 2 users, 1 code with 1 use, 3 requests, clock to 2 | under overlap: redemptions are counted exactly, paid plans end and FREE has no end, a rejection stands. Without overlap: an approval stands and a code adds its days to what was left (`DecisionsStand`); codes keep their limit, one trial, paid Premium was approved, one pending request per plan (`ChecksHold`) |
| `groups` | 3 people, 2 groups, 4 requests, 2 of them in flight, limits of 1 group and 2 members, windows of 1 and 2 rows | column and rows of a goal tell one total until a member with contributions is removed, and the column the larger one after that (`TotalsAgree`); rows fit the schema and members' shares add up to the total shown (`RowsFit`); an expense heard in a chat goes to one place, to two only when the answer failed after the insert, never to none (`ChatExpenseLandsOnce`); limits and roles hold for requests that do not overlap |
| `plans` | goals under 4 calls; every month of 4 days; one budget over five months with one transaction; 2 entries racing to sign up | overlapping contributions lose amounts and never invent any, so "reached" is true (`SavedWasGiven`); who follows the allowance keeps the plan (`PaceIsSafe`); today's expenses count today and none in two periods (`TodayCounts`, `CountedOnce`); every first contact finds its user and every entry a category and an account (`AlwaysAPlaceToLog`) |
| `messages` | all texts of up to 4 of 8 words; 2 calls; 2 requests; the digest of 1 user with 2 faults, fair | numbers in words are read at their value while scales fall (`SpokenIsValue`); word order and language do not change what a sentence means (`SentencesAgree`); the quota is exceeded only by calls under way together (`QuotaKept`), a model never makes an answer worse (`NothingLostToTheModel`); every message is answered, or waits for a Redis that is away (`EveryMessageAnswered`); who is refused is let in again; one digest per user and fault, and it tells what the Mini App shows (`OneDigestPerFault`); a listed user is told in the end; a window's counter lets in no more than the limit (`LimitKept`), and nobody is refused below it (`RefusedAtLimit`, part of `RefusedIsReadmitted`) |
| `spoken_amounts` | the same texts | **violation**: "hundred thousand" becomes 1100 |

### Bounds, and why they are enough
* **Requests** are consumed: a request serves once. Three are enough for every race here, as each involves
  two writers and one that observes or repeats; `debts` has five so that a debt is created, paid twice with
  overlap, nudged and paid again. Where a component is proved, the proof holds for any number.
* **Equb**: three members give a first, a middle and a last cycle; four requests give three advances and a
  late one, or a repeated contribution around an advance.
* **Telegram**: a text, its tap and a third update (another text, a second tap, Cancel) at every place.
* **Reminders**: the clock reaches 1, dates reach 3, so a daily reminder fires, moves and fires again.
  `Attempts` is 2 in place of 5 and `MaxFaults` 2, so that a job can use up its attempts, be repeated
  successfully, or stall twice. `Limit` is 1 in place of 10: the limit meets its boundary with two creates.
* **Subscriptions**: three requests are a trial, a revocation and a trial; a request, its approval and its
  rejection at once; two users at the one use of a code. Trial and code last a day each and the clock reaches
  2, so that both run out.
* **Groups**: a creator, a member and one more are every relation the checks tell apart; two groups let a
  chat be linked to both. Four requests are create, join, give and remove, or create, link, hear and a change
  of role; two in flight are every race of two. The limit of members is 2 in place of 3 (a group of two is
  full), `Window` 1 in place of 50 and `Details`/`Overview` 2/1 in place of 50/30, so that two or three rows
  exceed them. All times are equal, which lets any row be the newest.
* **Plans**: four calls are a create, two overlapping contributions and one more; target 3 with amounts 1
  and 2 is met exactly, exceeded and missed. A month of four days rounds up and down. Months of 3, 1, 3, 1, 1
  days clamp a budget of the 2nd or 3rd to the 1st and let it return; counts 1 and 2 let the clamped month fall
  inside a period and at its end. One transaction is enough: both properties are about single rows.
* **Messages**: eight words are one of each class that the parsed patterns of four words tell apart, with
  two scales, a ten and a one. `DailyLimit` is 1 and `Calls` two: the last use is raced for; the models answer the free user until two are charged (`MaxServed`), which
  is the quota, the overshoot and a second day. `MaxPerWindow` is
  2, so the first request of a window, the last admitted and the first refused are three.
* **Symmetry** is used over requests, users and groups, which are interchangeable there, and only in runs
  without liveness properties.
* `CHECK_DEADLOCK FALSE` stands where all requests of the instance may be served and the system stops. In
  `groups`, `plans` and `messages` a plan can always change, a day pass or a text be written.

### Fairness
* `telegram_chat`: Telegram keeps delivering an update until it is answered (`WF(Deliver(u))`, its documented
  webhook behaviour) and a process that runs keeps running its handlers (`WF(Handle(u))`: Node runs a settled
  await). Nothing is assumed of the user, and crashes may happen at any time.
* `reminders`: time passes, a worker is running or started again and takes due jobs (BullMQ's polling), and
  only finitely many faults happen. Creating a reminder is under no fairness.
* `messages`, `AssistantFairness`: a handler goes on after its await, unless it waits for a Redis that cannot
  be reached. Model and speech calls are bounded by timeouts in the code, the other calls of `fetch` by those of
  Node; that the database answers or refuses, and that `ffmpeg` ends, is assumed. Of Redis nothing is: its client is
  made with `maxRetriesPerRequest: null` and no command timeout (`redis.ts:9`), and neither `AiUsageService` nor
  the conversations add one, so a command waits for as long as Redis is away. `Step(c)` is not enabled then, and
  no fairness makes Redis return. A call ends also when the process dies.
* `messages`, `LimitFairness`: Redis drops a key that has expired, and a middleware that counted goes on to
  set the expiry, with whatever outcome.
* `messages`, `DigestFairness`: a worker that is alive goes on with the fan-out and with the jobs of a user.
  Faults are bounded; no fairness is asked of the month's end, of plans or of the Mini App.

## 4. Proofs

TLAPS checks these for every value of the constants. All invariants and action properties of the passing runs
are proved. The assumptions are those named in the modules: amounts positive, bounds
natural numbers, an Equb of at least two members (`equb.schema.ts` demands it), `Serial` a set of debts,
`NoKey`, `Nobody` and `NoCategory` none of the things they stand beside, tokens that are keys, the name of a
create that is no goal, finitely many calls at once, the speech services the code has, a limit
of at least one request, a vocabulary whose number words are not zero, and a calendar of
months of at least one day, two months longer than any period of a budget.

* **DebtsProofs.** `TypeInv` adds that an amount in flight is at most the balance it saw, so the
  subtraction stays natural. `BalanceInv` adds what overlap needs: for a payment in flight, the balance *it
  read* plus the payments stored *by now* cover the original amount; payments are only added, so this
  survives everybody else's commits, and gives `ReductionCorrect`. That audit records are backed needs only
  that a request audits after its commit; with the reduction it is `WritesBacked`. `SerialInv` adds, for
  serial debts, that one payment is in flight at a time and has read the current balance; from it follow
  `SerialExact`, `SerialSettledIsFinal`, with `BalanceMoves` the property `HistoryCorrect` of the run, and the
  refinement `SerialRefinement`.
* **TransactionsProofs.** `TxInv` relates every place of a create to the table: who passed the first lookup,
  who met a collision and with which row, which answers name which rows. `Idempotent` and `AnswersMatch`
  (together `KeyedAnswersMatch`), `FailureNeedsDelete`, `OneLiveRow` follow. The second half is about
  `TelegramChat`. Every step of the chat is one of the service or a crash, so `TxInv` survives (`ChatTx`), and
  with it these theorems (`ChatCreates`). `ChatSafe` adds what a handler has in hand: a pending command it
  read is the one its tap names, whose button reached the user; nothing is stored before that; a label waits
  for the create. A label that says CONFIRMED is kept only because it waits: with `TxInv` a finished create
  has a row of its key, deleted or not. From it: `ConfirmedIsSaved` and `HandledOnce`.
* **EqubProofs.** A cycle number is in circulation (in the pointer, a request, a contribution) only once
  all earlier recipients are paid; the invariant has to speak of requests in flight because they carry a
  cycle past any number of later advances. From it: `NoMemberSkipped` and `ContributionsFollow` (together
  `InOrder`) and `RotationRefinement` under any overlap. `SerialInv` (one request in flight, what it read is
  current) gives `SerialForward` and `SerialRepeats`, and with them `SerialInOrder`.
* **RemindersProofs.** `RemInv` says what the worker knows at each place of a job: the row still has the
  date it read, the message for it is out, the notification is marked, and no job is scheduled beyond the
  date of the row, hence the next job is really added. From it: `NoDateSkipped` and `CompletedSent` (together
  `LeftWhenSent`), `ActiveScheduled`, with any number of faults. `FaultFreeSafe` has three more:
  `RepeatInv` counts the messages of a date, at most one more than the faults, and *none more* for the date of
  an active row unless the worker has just sent it, which is what a repeat costs a fault for; `OnTimeInv`, until
  the first fault, that a waiting job is of the date of its row and that its reminder is not at work; `LimitInv`,
  that of creates that wait one at most has counted and not inserted.
* **SubscriptionsProofs.** Three invariants. `EntitlementInv`: plan and end agree in the table *and in
  every row a request is about to write* (`PremiumEnds`). `OnceInv` with `Counted`: a request is fresh, in
  flight or has written, and writes once, so the increment and its audit entry stay one to one
  (`PromoCounted`). `SerialInv`: while nobody has overlapped, the one request in flight has read what still
  holds (`ReadStillHolds`), from which `ChecksCorrect`, `RedemptionsAdd` and the second half of
  `DecisionsFinal` follow (the last two are `DecisionsKept`); that a trial leaves a paid plan behind for good
  (`TrialsArePremium`) is why there is no second one.

* **GroupsProofs.** First what `SumOf` computes, for every finite set of rows: it is the number of pairs of a
  row and a unit of its amount (`SumIsUnits`), so that sums add over disjoint sets and a part is at most the
  whole. `GoalsInv` and `BudgetsInv` say what a request in flight still may write: its id is of no row, the
  member it holds on to is the one it read *or gone*, the creator is not whom it removes. From the first:
  `GoalSchema`, `GoalTotals`: a contribution increments
  the column and inserts a row in one transaction, so that no interleaving separates them and only the cascade
  of a removal does. From the second: `BudgetSchema`, with `updated_at` as a linear order of the live budgets
  (the chat's budget is the last of them) and the members' shares as a partition of what was read; and
  `ChatExpenses`, where a message in flight has not been offered yet and is stored exactly when an answer is
  due. `OneAtATime` holds until the first overlap: what the one request in flight has checked still holds.
  `GoalLimits` and `BudgetChecks` follow; `RowsAlwaysFit` puts the two schemas together for the run.
* **PlansProofs.** Four components; `FourParts` shows that what the run explores is a behaviour of each.
  `SavingsInv`: a contribution in flight has read an amount that was given, the current one unless two
  raced (`SavingsAreGiven`). `PaceInv`: what was spent until this morning and this morning's allowance
  together are within the plan of who follows it; it is inductive because a part of what is left, rounded
  to the nearest, is never more than all of it (`DailyIsPart`), and this is all the rounding there is
  (`PaceKeepsPlan`). `SignUpInv` says what a request has behind it at every await: past the sign-up there is
  a user, past `ensureDefaults` an account of every name, and whoever revives an account revives the one that
  all others would pick, which is why two defaults never meet (`PlaceToLog`). `Budgets`: for any calendar
  `Start` is the number of days before a month (`StartOfMonths`), months follow each other, and `PlusMonths`
  with its clamp never decreases; so `Elapsed` is the largest number of months that fits, windows of
  different periods share no day (`PeriodsApart`), and a budget of a day that every month has contains today
  (`TodayIsCounted`).
* **MessagesProofs.** `PartsApart` as `FourParts`.
  * *Digest.* `DigestInv`: digests sent, jobs that have still to send and a user the fan-out has still to queue
    are together at most one more than the faults; a job carries and has told only what is kept, and, until
    analyses of one user overlap or the Mini App refreshes one, at most one asks for an analysis that is not
    kept (`DigestOnce`).
  * *Assistant.* `AssistantInv`: today's answers and the free calls that were let past the quota, today or on
    an earlier day, and are not charged yet stay together under `DailyLimit` plus the calls there are. Charging
    a call moves it from one to the other, and midnight resets the first; the counter is never behind the
    answers, and an increment made twice only puts it ahead (`QuotaHolds`). What each call has
    heard from the rules goes with it (`RulesAreNotLost`).
  * *RateLimit.* `LimitInv`: the counter is ahead of what it has let in, and a request about to set the expiry
    is alone, at a key that exists, has none and missed none. The converse is what matters: without an expiry
    there is such a request, or the expiry was missed, and then the counter never falls again. From it
    `WindowIsBounded` and, since a verdict is of the count just reached, `RefusedOnlyAtLimit`.
  * *Numbers.* `NumbersKeepTheirValue` is about messages of any length over any vocabulary. The loop's state
    after each word is a function (`LoopOf`). When scales fall, the greatest scale of a part is its first one
    (`FirstIsGreatest`), so `ValueOf` unfolds from the left as the loop adds (`AddsUp`); the words between two
    scales never add up to zero (`PlainStretch`), which is why `current || 1` only ever stands for a scale
    with nothing in front. A word that is no number closes a run, so a message splits there (`Splits`).
  * *Sentences.* `SentencesMeanTheSame` follows the order of the rules. A rule whose own words do not occur
    does not apply (`NamesUnmet`), which leaves few for each form of sentence; each of those is excluded by the
    place of its number (`NeedsTrailing` and the like), its length or its condition; and the rule of the
    sentence itself fits, captures the plain words and reads their category and the amount (`SaysPaidMe` to
    `SaysSavingsTrail`, one lemma for each of the twenty sentences, `SaysNumberBefore` and `SaysNumberAfter`).
    "salary 7" is the one that an English rule takes first (`SaysSalary`).

The attempt to prove these found two definitions that said less than was meant: `CategoryFor` and `AskModel`
were CASE expressions whose guards overlap, where TLC takes the first alternative and TLA+ leaves the choice
open. Their guards now exclude each other.

Induction over data is needed for the sums, for the first or last element of a finite order (the oldest
account, the budget updated last), for the calendar, and for the folds and parts of the parser. The library's
induction theorems take an operator, which the provers here cannot instantiate; these proofs take
a least element of an explicit set instead, by the well-foundedness of `<` and of strict inclusion (`UpTo`: a
set of numbers that has 0 and, with a number, the next one has them all), and show that a function defined by
recursion exists by extending it one argument at a time (`FoldExists`, `PartsExist`).

Model-checked only:

* liveness (`EveryUpdateAnswered`, `EventuallySent`, `EveryMessageAnswered`, the first half of
  `RefusedIsReadmitted`, `EveryDigestSent`), which is out of the prover's reach together with ENABLED.

## 5. What the violations show

1. `debt.service.ts:71`: two overlapping payments, one is lost from the balance (its row is kept).
   `ReductionCorrect` proves the error has one direction: the debtor never gains.
2. `telegram-update.handler.ts:1093`: only expenses and incomes carry the key the comment above speaks of.
3. `spoken-amounts.ts:82`: a scale multiplies what stands since the last scale and is then added to the
   total, so a scale in front of a greater one is added: "hundred thousand" is 1100, "two hundred thousand"
   1200. `NumbersKeepTheirValue` proves that with falling scales ("two thousand five hundred") the value is
   right, wherever in a message the number stands.

## 6. Known behaviours

The models have these cases; the properties are stated so that they are true of the code with them.

* **Cancel after Confirm** (`telegram-update.handler.ts:990`). A Cancel that follows a Confirm whose answer
  failed, or runs beside it, finds the pending command still there and says "Nothing was saved." about a
  record that is saved.
* **Conversations** (`conversation.store.ts:36`). `clear` deletes whatever is pending, also a command newer
  than the one handled; its buttons then answer that it has expired. A label may likewise be overwritten by
  a later tap on the same message. Nothing wrong is saved (`SavedAsConfirmed`).
* **Equb** (`equb.service.ts:150`, `:229`). A late advance moves the pointer back or reopens a completed
  Equb; nobody is skipped or paid twice in order all the same (`RotationRefinement`). Joining overwrites a
  slot taken since it was read, from a user who was told that she is in. Two overlapping records of one
  contribution end in a unique violation that nothing catches, and an advance that stops between its writes
  leaves the pointer at a paid member until the next advance repeats it.
* **Reminders** (`reminder.job.ts:41`). A retried job reads the date that its failed attempt already moved
  on, and sends the next date's message early.
* **Subscriptions.** With overlap two redemptions pass the limit or add the days of one, a trial replaces a
  grant, a rejection is written over an approval. A revocation forgets the trial, so the next one is free
  again without any race.
* **Limits of the free plan** are counted before the insert, everywhere: two creates pass them together.
  `SavingsLimitsKept` and `BudgetChecksHold` therefore except overlap, and `SavedWasGiven` likewise.
* **Group savings** (`group-savings.repository.ts:183`, `:91`). Removing a member deletes her contributions
  and leaves `current_amount`, so the column exceeds the rows from then on; members' shares add up the newest
  50 rows only.
* **Group budgets.** Adding the owner again, as a VIEWER say, is accepted and takes her role away
  (`group-budget.repository.ts:193`). The period of a group budget limits nothing: what is shown as spent is
  the newest 50 expenses ever in the details and the newest 30 in a list, which may be two different totals of
  one budget. An expense whose row is stored and whose answer fails is offered again for the personal books.
* **Budgets** (`budget.service.ts:27`, `:43`). Starts are counted from the origin and ends from the start, so
  for origins on the 29th to 31st a window may end before the next begins: on the days between, the window
  does not contain today and an expense is counted in no period. It is never counted in two. No code creates
  the rows that link a transaction to a budget by hand, so a budget of the kind ADDED_ONLY always shows 0.00;
  the model leaves that kind out.
* **Sign-up** (`category.service.ts:87`). A slug is unique per user and looked up per kind: an entry for a
  category chosen as an expense fails when an own category of the other kind holds the slug.
* **Rules.** "paid taxi 80" is read by the rule for debt payments: Taxi is taken for a person. A name in front
  of a number is a debt ("Abebe 80"), behind it an expense ("80 Abebe").
* **Models and speech.** A model that hangs until its timeout, or answers with a page that is not JSON,
  counts as a failure and not as an outage: the second model is not asked and the rules answer.
* **Redis out of reach** (`redis.ts:11`, `ai-usage.service.ts:41`, `:51`). The client never gives up a command and
  only the rate limiter sets it a time. While Redis is away the `catch` that would count no use, or no charge,
  does not run: every text waits at the look for its conversation (`telegram-update.handler.ts:108`), a voice note
  at the count of a free user or at the prompt hint of anybody, although the rules need none of them (the comment
  at `ai.interpreter.ts:27` has "the core logging path always works"). They go on when Redis returns, or are lost
  with the process. An increment whose answer was lost is sent again and may cost a free user two of the day's
  uses. `EveryMessageAnswered` is stated with this exception and `QuotaKept` as an inequality.
* **Rate limit** (`rate-limit.ts:30`). When the first request of a window does not set the expiry, the key
  stays for good and refuses its identity from the limit on (`missed`). `LimitKept` shows that this is the only
  way to lose an expiry.
* **Digest** (`digest.job.ts:18`). A repeated fan-out queues users twice; a user's two jobs may generate two
  analyses, of which the Mini App shows the later one.

## 7. Not modelled, and the plan

Not modelled: wording and keyboards (`i18n`, `telegram-ui`), the spelling of words and dates in the parsers,
prompts and model options, signatures in auth, the arithmetic of the coach's metrics and of the reports
(sums over rows, no state), admin and analytics reads, feedback (one insert), the payments stub, demo seed,
wiring. Of the categories a budget leaves out, the model has none or all but those it takes, and of the limits
on budgets that of the free plan: what `TodayCounts` compares is whether both lists are replaced together, which
other lists do not change. The slash commands that only read, `nudgeMembers` of the Equb and profile updates change nothing that
a property here is about. Requests on budgets do not overlap in the model: the race there is that of the
limit, which `Savings` has.

What is left:

1. **Rules for money in other words**: sentences with more than one number, and currencies between the number
   and the words, for which neither word order nor language is compared yet.
2. **Budgets with overlapping requests**, the race of the limit that `Savings` shows for goals.
3. **Cancel beside Confirm** as a property of its own: the model has the behaviour (section 6), the answers
   given to Cancel are not kept.
