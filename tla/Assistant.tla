------------------------------ MODULE Assistant ------------------------------
(***************************************************************************)
(* How a text or voice message of one user becomes a command: the          *)
(* transcription services one after the other (SpeechTranscriber), the     *)
(* daily quota of the free plan (AiParseService, AiUsageService), the      *)
(* rules first and the language model when they are not sure               *)
(* (AiInterpreter), the second model when the first is out of quota or     *)
(* down (FallbackLlmProvider), and what the chat answers.  Calls overlap,  *)
(* every call of a service may fail, Redis may answer with an error or be  *)
(* away for as long as it likes, the day and the plan change at any time,  *)
(* and the process may die.                                                *)
(***************************************************************************)
EXTENDS RuleParser

CONSTANTS
  Calls,        \* messages that may be handled at once
  Messages,     \* what a message may say
  DailyLimit,   \* AI_RATE_LIMIT_MAX
  Days,         \* bound on the clock
  Speech,       \* the transcription services with a key, in order
  ModelKeys,    \* the language models with a key
  MaxServed     \* bound on the models' answers to the free user

ASSUME AssistantAssumption ==
  /\ IsFiniteSet(Calls) /\ Calls # {}
  /\ Speech \in Seq({"hasab", "addis", "groq", "gemini"})
  /\ DailyLimit \in Nat /\ Days \in Nat /\ ModelKeys \subseteq {"gemini", "groq"}

VARIABLES
  day,          \* the UTC day
  used,         \* the counter ai-usage:<user>:<day>, per day
  call,         \* what each call is about to do, and what it read
  served,       \* history: answers of a model to the user while free, per day of the charge
  overlapped,   \* history: whether two calls were ever under way together
  redisAway,    \* whether Redis cannot be reached
  redisFailed   \* history: whether Redis answered a quota call with an error

assistantVars == <<day, used, call, served, overlapped, redisAway, redisFailed>>

(* The rules' command for each message.                                    *)
Understood == [text \in Messages |-> Parse(text)]

Threshold == 70
Idle == [at |-> "idle"]
Busy(c) == call[c].at # "idle"
Sure(command) == command.intent # "UNKNOWN" /\ command.conf >= Threshold

AssistantInit ==
  /\ day = 0
  /\ used = [d \in 0..Days |-> 0] /\ served = used
  /\ call = [c \in Calls |-> Idle]
  /\ overlapped = FALSE /\ redisAway = FALSE /\ redisFailed = FALSE

Others(c) == \E d \in Calls \ {c} : Busy(d)
Goto(c, new) == call' = [call EXCEPT ![c] = new]

(* parseForUser begins with canAccess; the plan may have changed since the *)
(* last message.  Whatever throws, here or on the way here, is caught in   *)
(* handle and answered with an apology.                                    *)
Parsing(text, unlimited) == [at |-> "usage", text |-> text, unlimited |-> unlimited]
Apology == [at |-> "reply", reply |-> "apology"]
ParseForUser(c) ==
  \/ \E text \in Messages, unlimited \in BOOLEAN : Goto(c, Parsing(text, unlimited))
  \/ Goto(c, Apology)

ServedSoFar == MapThenSumSet(LAMBDA d : served[d], 0..Days)
Begin(c, first) ==
  /\ ~Busy(c) /\ ServedSoFar < MaxServed
  /\ Goto(c, first)
  /\ overlapped' = (overlapped \/ Others(c))
  /\ UNCHANGED <<day, used, served, redisAway, redisFailed>>

(* A text looks for a conversation that waits for it; one that waits for   *)
(* the monthly income is none of this module's.                            *)
Say(c) == Begin(c, [at |-> "conversation"])
ReadConversation(c) ==
  /\ call[c].at = "conversation"
  /\ ParseForUser(c)
  /\ UNCHANGED <<day, used, served, overlapped, redisAway, redisFailed>>

(* handleVoice: too long a note and a server without keys are answered     *)
(* at once, any other note is fetched from Telegram, which may throw.  What*)
(* is said to a note that is not understood is not told apart.             *)
SendVoice(c, tooLong) ==
  Begin(c, IF tooLong \/ Speech = <<>> THEN Apology
           ELSE [at |-> "download"])
Download(c) ==
  /\ call[c].at = "download"
  /\ Goto(c, [at |-> "hear", service |-> 1]) \/ Goto(c, Apology)
  /\ UNCHANGED <<day, used, served, overlapped, redisAway, redisFailed>>

HasBackup(k) == k < Len(Speech)

(* What the response of a service comes to: Hasab's must have a transcript,*)
(* the others' is taken for silence when it has none.  Hasab's call begins *)
(* with the conversion of the note, and sends it as it is when that fails. *)
SpeechResponses == {"words", "silence", "no transcript", "not JSON", "refused", "timeout"}
Transcript(service, response) ==
  CASE response = "words" -> "text"
    [] response = "silence" -> "empty"
    [] response = "no transcript" /\ service # "hasab" -> "empty"
    [] OTHER -> "error"

(* transcribe: after Hasab and Addis the next service is tried, after Groq *)
(* and Gemini the failure is the answer.                                   *)
Hear(c) ==
  /\ call[c].at = "hear"
  /\ \E response \in SpeechResponses :
     LET k == call[c].service
         outcome == Transcript(Speech[k], response)
     IN  \/ outcome = "text" /\ ParseForUser(c)
         \/ outcome = "empty" /\ Goto(c, Apology)
         \/ /\ outcome = "error"
            /\ Goto(c, IF Speech[k] \in {"hasab", "addis"} /\ HasBackup(k)
                       THEN [call[c] EXCEPT !.service = k + 1]
                       ELSE Apology)
  /\ UNCHANGED <<day, used, served, overlapped, redisAway, redisFailed>>

(* createLlmProvider.                                                      *)
Models == Cardinality(ModelKeys)

(* canUseLlm; mutant: one answer too many.                                 *)
MayUseModelOneMore(unlimited, count) == Models > 0 /\ (unlimited \/ count <= DailyLimit)
MayUseModel(unlimited, count) == Models > 0 /\ (unlimited \/ count < DailyLimit)

(* What the user gets when no model answers: the command of the rules, or  *)
(* nothing, or nothing and the offer to upgrade.                           *)
ByRules(k, useModel, count) ==
  LET none == IF ~k.unlimited /\ ~useModel /\ Models > 0 /\ count >= DailyLimit
              THEN "quota" ELSE "unknown"
  IN  [at |-> "reply", text |-> k.text,
       reply |-> IF Understood[k.text].intent # "UNKNOWN" THEN "rule" ELSE none]

(* getUsedToday, where an error of Redis counts as no use, and the prompt  *)
(* hint; then interpret: rules that are sure answer.  Mutant: the model is *)
(* asked first.                                                            *)
InterpretModelFirst(c, fails) ==
  /\ call[c].at = "usage"
  /\ fails => ~call[c].unlimited
  /\ LET k == call[c]
         count == IF fails \/ k.unlimited THEN 0 ELSE used[day]
     IN  Goto(c, IF MayUseModel(k.unlimited, count)
                 THEN [at |-> "model", text |-> k.text, unlimited |-> k.unlimited, model |-> 1]
                 ELSE ByRules(k, FALSE, count))
  /\ redisFailed' = (redisFailed \/ fails)
  /\ UNCHANGED <<day, used, served, overlapped, redisAway>>
Interpret(c, fails) ==
  /\ call[c].at = "usage"
  /\ fails => ~call[c].unlimited
  /\ LET k == call[c]
         count == IF fails \/ k.unlimited THEN 0 ELSE used[day]
         useModel == MayUseModel(k.unlimited, count)
     IN  Goto(c, IF useModel /\ ~Sure(Understood[k.text])
                 THEN [at |-> "model", text |-> k.text, unlimited |-> k.unlimited, model |-> 1]
                 ELSE ByRules(k, useModel, count))
  /\ redisFailed' = (redisFailed \/ fails)
  /\ UNCHANGED <<day, used, served, overlapped, redisAway>>

(* What the response of a model comes to.  A model that hangs times out,   *)
(* and a page that is not JSON fails to parse: neither counts as an outage.*)
ModelResponses == {"command", "UNKNOWN", "other JSON", "prose", "empty", "not JSON",
                   "refused", "over quota", "down", "timeout"}
Answer(response) ==
  IF response \in {"command", "UNKNOWN", "other JSON"} THEN response ELSE "failed"
Valid(answer) == answer \in {"command", "UNKNOWN"}
Retryable(response) == response \in {"over quota", "down"}

(* The first model's quota or outage is the second one's turn.             *)
(* Mutant: and the second one's the first one's. *)
NextModelInTurn(model, response) == Models = 2 /\ Retryable(response)
NextModel(model, response) == model < Models /\ Retryable(response)

(* A command is the answer; a model's UNKNOWN yields to what the rules     *)
(* found, and so does a failure or an answer that does not fit the schema. *)
AskModel(c) ==
  /\ call[c].at = "model"
  /\ \E response \in ModelResponses :
     LET k == call[c]
         answer == Answer(response)
         charged(reply) == [at |-> IF k.unlimited THEN "reply" ELSE "charge", text |-> k.text, reply |-> reply]
         byRules == ByRules(k, TRUE, 0)
     IN  Goto(c, CASE NextModel(k.model, response) -> [k EXCEPT !.model = 3 - @]
                   [] Valid(answer) /\ answer = "command" -> charged("model")
                   [] Valid(answer) /\ answer # "command" /\ byRules.reply = "unknown" -> charged("unknown")
                   [] OTHER -> byRules)
  /\ UNCHANGED <<day, used, served, overlapped, redisAway, redisFailed>>

(* recordSuccessfulLlmParse, for the free plan only, on the day it is now; *)
(* the first use of a day then sets the expiry of its counter, where an    *)
(* error is no matter.                                                     *)
Charge(c, fails) ==
  /\ call[c].at = "charge"
  /\ used' = IF fails THEN used ELSE [used EXCEPT ![day] = @ + 1]
  /\ served' = [served EXCEPT ![day] = @ + 1]
  /\ redisFailed' = (redisFailed \/ fails)
  /\ Goto(c, [at |-> IF ~fails /\ used'[day] = 1 THEN "expire" ELSE "reply",
              text |-> call[c].text, reply |-> call[c].reply])
  /\ UNCHANGED <<day, overlapped, redisAway>>
Expire(c) ==
  /\ call[c].at = "expire"
  /\ Goto(c, [call[c] EXCEPT !.at = "reply"])
  /\ UNCHANGED <<day, used, served, overlapped, redisAway, redisFailed>>

(* The chat answers; before it asks for a confirmation it saves the command*)
(* (a question, small talk and a command with something missing ask for    *)
(* none).  Or the process dies.                                            *)
Reply(c) ==
  /\ call[c].at = "reply"
  /\ \/ Goto(c, Idle)
     \/ call[c].reply \in {"rule", "model"} /\ Goto(c, [at |-> "save"])
  /\ UNCHANGED <<day, used, served, overlapped, redisAway, redisFailed>>
Save(c) ==
  /\ call[c].at = "save"
  /\ Goto(c, Idle)
  /\ UNCHANGED <<day, used, served, overlapped, redisAway, redisFailed>>
Die ==
  /\ \E c \in Calls : Busy(c)
  /\ call' = [c \in Calls |-> Idle]
  /\ UNCHANGED <<day, used, served, overlapped, redisAway, redisFailed>>

NextDay ==
  /\ day < Days
  /\ day' = day + 1
  /\ UNCHANGED <<used, call, served, overlapped, redisAway, redisFailed>>

(* The client is made with maxRetriesPerRequest null and no timeout, so no *)
(* call rejects while Redis is away: it waits, and is sent again when Redis*)
(* is back.  An increment that Redis had made is then made twice (once the *)
(* limit is reached one more changes nothing, and is left out).            *)
RedisGoesAway ==
  /\ ~redisAway /\ redisAway' = TRUE
  /\ \/ UNCHANGED used
     \/ /\ \E c \in Calls : call[c].at = "charge"
        /\ used[day] < DailyLimit
        /\ used' = [used EXCEPT ![day] = @ + 1]
  /\ UNCHANGED <<day, call, served, overlapped, redisFailed>>
RedisReturns ==
  /\ redisAway /\ redisAway' = FALSE
  /\ UNCHANGED <<day, used, call, served, overlapped, redisFailed>>

(* The calls whose next step is one of Redis: for everybody the conversa-  *)
(* tion, read and saved, and the prompt hint, kept for ten minutes; for    *)
(* the free plan the counter.                                              *)
NeedsRedis(k) ==
  \/ k.at \in {"conversation", "charge", "expire", "save"}
  \/ k.at = "usage" /\ (~k.unlimited \/ Models > 0)
WaitsForRedis(c) == redisAway /\ NeedsRedis(call[c])

(* What the handler of a message under way does.                           *)
Step(c) ==
  /\ Busy(c)
  /\ ~WaitsForRedis(c)
  /\ \/ ReadConversation(c) \/ Download(c)
     \/ Hear(c)
     \/ \E fails \in BOOLEAN : Interpret(c, fails)
     \/ AskModel(c)
     \/ \E fails \in BOOLEAN : Charge(c, fails)
     \/ Expire(c) \/ Reply(c) \/ Save(c)

AssistantNext ==
  \/ \E c \in Calls : Say(c)
  \/ \E c \in Calls, tooLong \in BOOLEAN : SendVoice(c, tooLong)
  \/ \E c \in Calls : Step(c)
  \/ Die \/ NextDay
  \/ RedisGoesAway \/ RedisReturns

(* Every await of a handler returns but one of a Redis that is away: the   *)
(* model and speech calls are bounded by timeouts of the code, the other   *)
(* calls of fetch by Node's; that the database answers or refuses and that *)
(* ffmpeg ends is assumed.  Nothing makes Redis return.                    *)
AssistantFairness == \A c \in Calls : WF_assistantVars(Step(c))
AssistantSpec == AssistantInit /\ [][AssistantNext]_assistantVars /\ AssistantFairness
-----------------------------------------------------------------------------
(* "Free users get AI_RATE_LIMIT_MAX LLM parses per UTC day": unless Redis *)
(* answers with errors, a day's quota is exceeded by no more than the calls*)
(* that were under way together when it ran out, and by none when calls do *)
(* not overlap.  A day boundary inside a call does not give one away, and  *)
(* an increment that is sent again costs the user one and never saves one. *)
QuotaKept ==
  \A d \in 0..Days : ~redisFailed =>
    /\ served[d] <= used[d]
    /\ served[d] < DailyLimit + Cardinality(Calls)
    /\ ~overlapped => served[d] <= DailyLimit

(* Nobody is worse off for the model: a message the rules understood is    *)
(* never answered with "unknown" or with the quota, one they are sure of   *)
(* asks no model and costs nothing, and who is told that the quota is used *)
(* up had used it up that day or the day before.                           *)
NothingLostToTheModel ==
  \A c \in Calls :
    LET k == call[c]
    IN  /\ k.at \in {"model", "charge"} => ~Sure(Understood[k.text])
        /\ k.at = "reply" /\ k.reply \in {"unknown", "quota"} => Understood[k.text].intent = "UNKNOWN"
        /\ k.at = "reply" /\ k.reply = "model" => ~Sure(Understood[k.text])
        /\ k.at = "reply" /\ k.reply = "quota" => \E d \in 0..day : used[d] >= DailyLimit

(* Every message is answered, whatever other service fails and however     *)
(* often Redis comes and goes, unless the process dies: a call is under way*)
(* for good only while it waits for a Redis that stays away, and it never  *)
(* goes round between services.                                            *)
EveryMessageAnswered == \A c \in Calls : Busy(c) ~> (~Busy(c) \/ WaitsForRedis(c))
=============================================================================
