------------------------------ MODULE MCMessages ------------------------------
(* TLC instances of what stands between the chat and the rest: the rule    *)
(* parser, the Assistant that uses it, the RateLimit in front of every     *)
(* route, and the Digest.  They share no state; `part` says which of them  *)
(* a behaviour is one of.                                                  *)
EXTENDS Assistant, RateLimit, Digest
VARIABLE part
messageVars == <<part, message, assistantVars, limitVars, digestVars>>

SomeWords == {One(2), Ten(20), Scale(100), Scale(1000), Amount(80),
              Word("taxi"), Word("name"), Word("salary")}
(* Sure of its category, unsure of it, and not understood at all.          *)
SomeMessages == {<<Amount(80), Word("taxi")>>, <<Amount(80), Word("name")>>, <<Word("name")>>}
HasabThenGroq == <<"hasab", "groq">>

Init == /\ part \in {"words", "assistant", "limit", "digest"}
        /\ ParserInit /\ AssistantInit /\ LimitInit /\ DigestInit
        /\ part = "digest" \/ paying = {}
Next == \/ /\ part = "words" /\ ParserNext
           /\ UNCHANGED <<part, assistantVars, limitVars, digestVars>>
        \/ /\ part = "assistant" /\ AssistantNext
           /\ UNCHANGED <<part, message, limitVars, digestVars>>
        \/ /\ part = "limit" /\ LimitNext
           /\ UNCHANGED <<part, message, assistantVars, digestVars>>
        \/ /\ part = "digest" /\ DigestNext
           /\ UNCHANGED <<part, message, assistantVars, limitVars>>

(* In the behaviours of another part nothing of a part is ever under way,  *)
(* so its fairness asks nothing of them.                                   *)
Spec == /\ Init /\ [][Next]_messageVars
        /\ AssistantFairness /\ LimitFairness /\ DigestFairness
=============================================================================
