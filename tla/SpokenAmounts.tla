--------------------------- MODULE SpokenAmounts ---------------------------
(***************************************************************************)
(* replaceSpokenAmounts: runs of number words in a message become digits   *)
(* before the rule parser sees it.  A word is a record: its class `w` and, *)
(* for a number word or an amount, its value `n`.                          *)
(***************************************************************************)
EXTENDS Integers, Sequences, SequencesExt

One(v)   == [w |-> "one", n |-> v]
Ten(v)   == [w |-> "ten", n |-> v]
Scale(v) == [w |-> "scale", n |-> v]
Amount(v) == [w |-> "num", n |-> v]
Word(c)  == [w |-> c, n |-> 0]

IsSpoken(token) == token.w \in {"one", "ten", "scale"}

(* The state of the loop: what was pushed, and the run that is being added *)
(* up: `open` says whether there is one.                                   *)
NoRun == [out |-> <<>>, open |-> FALSE, total |-> 0, current |-> 0]

Closed(run) == IF run.open THEN Append(run.out, Amount(run.total + run.current)) ELSE run.out

(* Mutant: `current || 1` without the 1, so that a bare "thousand" is 0.   *)
AddScaleBare(run, v) ==
  [run EXCEPT !.open = TRUE, !.total = @ + run.current * v, !.current = 0]
AddScale(run, v) ==
  [run EXCEPT !.open = TRUE,
              !.total = @ + (IF run.current = 0 THEN 1 ELSE run.current) * v,
              !.current = 0]

Consume(run, token) ==
  CASE token.w = "scale"         -> AddScale(run, token.n)
    [] token.w \in {"one","ten"} -> [run EXCEPT !.open = TRUE, !.current = @ + token.n]
    [] OTHER                     -> [NoRun EXCEPT !.out = Append(Closed(run), token)]

ReplaceSpokenAmounts(text) == Closed(FoldLeft(Consume, NoRun, text))
-----------------------------------------------------------------------------
(* What a number in words means.  Its greatest scale multiplies all that   *)
(* stands in front of it, which is one when nothing does.  Part gives the  *)
(* value of the words from i to j by the values of shorter parts.          *)
ScalesIn(words, i, j) == {k \in i..j : words[k].w = "scale"}
Greatest(words, at) ==
  LET top == {k \in at : \A m \in at : words[m].n <= words[k].n}
  IN  CHOOSE k \in top : \A m \in top : m >= k
Part(words, value, i, j) ==
  LET at == ScalesIn(words, i, j)
      k  == Greatest(words, at)
  IN  IF i > j THEN 0
      ELSE IF at = {} THEN words[i].n + value[<<i + 1, j>>]
      ELSE (IF k = i THEN 1 ELSE value[<<i, k - 1>>]) * words[k].n + value[<<k + 1, j>>]
ValueOf(words) ==
  LET value[part \in (1..Len(words) + 1) \X (0..Len(words))] == Part(words, value, part[1], part[2])
  IN  value[<<1, Len(words)>>]

(* A number as it is said: scales strictly fall, except that hundreds may  *)
(* count the thousands; tens go before ones, each once between scales.     *)
Rank(token) == CASE token.w = "one" -> 1 [] token.w = "ten" -> 2 [] OTHER -> 3
WellSaid(words) ==
  /\ words # <<>>
  /\ \A i \in DOMAIN words : IsSpoken(words[i])
  /\ \A i \in 1..Len(words) - 1 :
       \/ Rank(words[i]) = 3 /\ Rank(words[i + 1]) < 3
       \/ Rank(words[i]) = 2 /\ Rank(words[i + 1]) # 2
       \/ Rank(words[i]) = 1 /\ Rank(words[i + 1]) = 3
       \/ words[i] = Scale(100) /\ words[i + 1] = Scale(1000)
  /\ \A i, j \in DOMAIN words : i < j /\ words[i].w = "scale" => words[i] # words[j]

(* The form the code adds up: no scale in front of a greater one.          *)
ScalesFall(words) ==
  \A i, j \in DOMAIN words : i < j /\ words[i].w = "scale" /\ words[j].w = "scale" =>
    words[i].n > words[j].n
=============================================================================
