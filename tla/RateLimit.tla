------------------------------ MODULE RateLimit ------------------------------
(***************************************************************************)
(* The rate limiter in front of every route (middleware/rate-limit.ts),    *)
(* for one identity and prefix: a counter in Redis which its first request *)
(* gives an expiry.  Both calls are raced against 400 ms: when the time is *)
(* up the request is let in, whether or not Redis still carries the call   *)
(* out.                                                                    *)
(***************************************************************************)
EXTENDS Integers

CONSTANTS
  Requests,     \* requests that may be in the middleware at once
  MaxPerWindow  \* RATE_LIMIT_MAX

ASSUME RateLimitAssumption == MaxPerWindow \in Nat \ {0}

VARIABLES
  count,        \* the value of the key, 0 when there is none; not counted on above the limit
  expires,      \* whether the key has an expiry
  waiting,      \* requests that are about to set it
  answer,       \* what each request was last told
  missed,       \* history: the key's first request did not set its expiry
  letIn         \* history: the requests of this window that its counter lets in

limitVars == <<count, expires, waiting, answer, missed, letIn>>

LimitInit ==
  /\ count = 0 /\ expires = FALSE
  /\ waiting = {}
  /\ answer = [r \in Requests |-> "none"]
  /\ missed = FALSE
  /\ letIn = 0

Incr == IF count > MaxPerWindow THEN count ELSE count + 1
Tell(r, what) == answer' = [answer EXCEPT ![r] = what]
(* Mutant: one request more than the limit.                                *)
LateVerdict(current) == IF current > MaxPerWindow + 1 THEN "refused" ELSE "admitted"
Verdict(current) == IF current > MaxPerWindow THEN "refused" ELSE "admitted"
LetIn(current) == IF Verdict(current) = "admitted" THEN letIn + 1 ELSE letIn

(* incr answered; mutant: the expiry is set by the second request.         *)
CountedSecond(r) ==
  /\ r \notin waiting
  /\ count' = Incr
  /\ IF count' = 2 THEN waiting' = waiting \cup {r} /\ UNCHANGED answer
                   ELSE Tell(r, Verdict(count')) /\ UNCHANGED waiting
  /\ letIn' = LetIn(count')
  /\ UNCHANGED <<expires, missed>>
Counted(r) ==
  /\ r \notin waiting
  /\ count' = Incr
  /\ IF count' = 1 THEN waiting' = waiting \cup {r} /\ UNCHANGED answer
                   ELSE Tell(r, Verdict(count')) /\ UNCHANGED waiting
  /\ letIn' = LetIn(count')
  /\ UNCHANGED <<expires, missed>>

(* incr timed out: it was carried out late, or never.                      *)
CountTimedOut(r, carriedOut) ==
  /\ r \notin waiting
  /\ count' = IF carriedOut THEN Incr ELSE count
  /\ missed' = (missed \/ (carriedOut /\ count = 0))
  /\ Tell(r, "admitted")
  /\ UNCHANGED <<expires, waiting, letIn>>

(* pexpire, which may also fail or time out; it was the first request.     *)
SetExpiry(r, carriedOut) ==
  /\ r \in waiting
  /\ waiting' = waiting \ {r}
  /\ expires' = (expires \/ (carriedOut /\ count > 0))
  /\ missed' = (missed \/ (~carriedOut /\ ~expires))
  /\ Tell(r, "admitted")
  /\ UNCHANGED <<count, letIn>>

(* The window is over: Redis drops the key.                                *)
WindowEnds ==
  /\ expires
  /\ count' = 0 /\ expires' = FALSE /\ missed' = FALSE /\ letIn' = 0
  /\ UNCHANGED <<waiting, answer>>

LimitNext ==
  \/ \E r \in Requests : Counted(r)
  \/ \E r \in Requests, carriedOut \in BOOLEAN :
       CountTimedOut(r, carriedOut) \/ SetExpiry(r, carriedOut)
  \/ WindowEnds

(* A call of Redis returns or times out, and time passes.                  *)
LimitFairness ==
  /\ WF_limitVars(WindowEnds)
  /\ \A r \in Requests : WF_limitVars(\E carriedOut \in BOOLEAN : SetExpiry(r, carriedOut))
LimitSpec == LimitInit /\ [][LimitNext]_limitVars /\ LimitFairness
-----------------------------------------------------------------------------
(* "bounded requests per window": whatever times out and however requests  *)
(* overlap, the counter lets in no more than the limit before the window   *)
(* ends, and a key without an expiry is about to be given one by a single  *)
(* request, unless its expiry was missed.                                  *)
LimitKept ==
  /\ letIn <= MaxPerWindow
  /\ count > 0 /\ ~expires /\ ~missed => \E r \in Requests : waiting = {r}

(* Nobody is refused before as many requests have come as the limit says.  *)
RefusedAtLimit ==
  [][\A r \in Requests : answer'[r] = "refused" /\ answer[r] # "refused" =>
       count >= MaxPerWindow]_limitVars

(* "Too many requests. Please try again later.": an identity at its limit  *)
(* is under it again some time later, whatever requests come, unless the   *)
(* expiry of this key was missed; and it is only refused at its limit.     *)
RefusedIsReadmitted ==
  /\ (count >= MaxPerWindow /\ ~missed) ~> (count < MaxPerWindow \/ missed)
  /\ RefusedAtLimit
=============================================================================
