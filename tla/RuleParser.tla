----------------------------- MODULE RuleParser -----------------------------
(***************************************************************************)
(* parseWithFallback: the rule parser that every message goes through.     *)
(* A message is a sequence of words (SpokenAmounts), each a class of words *)
(* that the rules do not tell apart: "paid", "taxi" (an alias of an        *)
(* expense category), "salary" (the income one), "name" (no category).     *)
(* Classes in capitals are the Amharic ones.  A rule is a list of          *)
(* patterns; a pattern is a sequence of sets of classes, with Text for one *)
(* or more words and Rest for any number of them, at most one of the two.  *)
(* The rules are tried in order and the first that applies makes the       *)
(* command.                                                                *)
(***************************************************************************)
EXTENDS SpokenAmounts, FiniteSets

CONSTANTS
  Vocabulary,   \* the words messages are made of
  MaxWords      \* bound: the longest message

ASSUME VocabularyAssumption ==
  \A token \in Vocabulary : token.n \in Nat /\ (IsSpoken(token) => token.n > 0)

VARIABLE message    \* what the user has written or said so far

Num  == {"num"}
Text == {"one or more"}
Rest == {"any"}
IsOpen(element) == element \in {Text, Rest}

(* resolveCategory: the first alias of its table that occurs, where those  *)
(* of the expenses stand before "pay", an alias of salary, and salary      *)
(* itself is no alias but found by its name when no alias is.  The kind of *)
(* the category decides between expense and income (intentForCategory).    *)
CategoryOf(words) ==
  LET classes == {words[i].w : i \in DOMAIN words}
  IN  IF "taxi" \in classes THEN "taxi"
      ELSE IF {"pay", "salary"} \cap classes # {} THEN "salary" ELSE "none"
IntentFor(category) == IF category = "salary" THEN "CREATE_INCOME" ELSE "CREATE_EXPENSE"

(* How many words the open element of the pattern takes from n words.      *)
Spare(pattern, n) == n - (Len(pattern) - 1)
OpenAt(pattern) == CHOOSE k \in DOMAIN pattern : IsOpen(pattern[k])
HasOpen(pattern) == \E k \in DOMAIN pattern : IsOpen(pattern[k])

(* The word of `words` that stands at place k of the pattern.              *)
Place(pattern, words, k) ==
  IF HasOpen(pattern) /\ k > OpenAt(pattern) THEN k + Spare(pattern, Len(words)) - 1 ELSE k

Fits(pattern, words) ==
  /\ IF HasOpen(pattern)
     THEN Spare(pattern, Len(words)) >= (IF pattern[OpenAt(pattern)] = Text THEN 1 ELSE 0)
     ELSE Len(words) = Len(pattern)
  /\ \A k \in DOMAIN pattern :
       ~IsOpen(pattern[k]) => words[Place(pattern, words, k)].w \in pattern[k]

Captured(pattern, words) ==
  IF HasOpen(pattern)
  THEN SubSeq(words, OpenAt(pattern), OpenAt(pattern) + Spare(pattern, Len(words)) - 1)
  ELSE <<>>
AmountOf(pattern, words) ==
  IF \E k \in DOMAIN pattern : pattern[k] = Num
  THEN words[Place(pattern, words, CHOOSE k \in DOMAIN pattern :
         pattern[k] = Num /\ \A j \in 1..k - 1 : pattern[j] # Num)].n
  ELSE 0

(* Where an expression without ^ and $ first matches: leftmost, then       *)
(* shortest, unless it ends in .* and takes all the rest.                  *)
Windows(pattern, words) ==
  {ij \in (1..Len(words)) \X (1..Len(words)) :
     /\ ij[1] <= ij[2]
     /\ Fits(pattern, SubSeq(words, ij[1], ij[2]))
     /\ (pattern[Len(pattern)] = Rest => ij[2] = Len(words))}
Leftmost(windows) ==
  CHOOSE ij \in windows :
    \A kl \in windows : ij[1] < kl[1] \/ (ij[1] = kl[1] /\ ij[2] <= kl[2])
FirstWindow(pattern, words) ==
  LET ij == Leftmost(Windows(pattern, words))
  IN  SubSeq(words, ij[1], ij[2])

(* A rule's patterns, whether they stand for the whole message, its intent,*)
(* what it makes of the category of the captured words ("of message": of   *)
(* all words), and its confidence in percent with a category and without.  *)
Rule(patterns, whole, intent, category, sure, unsure) ==
  [patterns |-> patterns, whole |-> whole, intent |-> intent, category |-> category,
   sure |-> sure, unsure |-> unsure]

(* Amharic.                                                                *)
PaidMe        == Rule(<< <<Text, {"KEFELE"}, Num>> >>, TRUE, "RECORD_DEBT_PAYMENT", "refused", 84, 84)
PaidThem      == Rule(<< <<Text, {"KEFELKU"}, Num>> >>, TRUE, "RECORD_DEBT_PAYMENT", "refused", 84, 84)
AmSpent       == Rule(<< <<{"KEFELKU", "AWETAHU", "WECHI"}, Num, Rest>>,
                         <<Num, {"KEFELKU", "AWETAHU"}, Rest>> >>, TRUE, "CREATE_EXPENSE", "wanted", 84, 70)
AmIncome      == Rule(<< <<{"TEQEBELKU"}, Num, Rest>>, <<Num, {"TEQEBELKU"}, Rest>> >>,
                      TRUE, "CREATE_INCOME", "or other", 82, 82)
OwesMe        == Rule(<< <<Text, {"ABEDEREGN"}, Num>> >>, TRUE, "CREATE_DEBT", "ignored", 86, 86)
IOweAm        == Rule(<< <<Text, {"ALEBIGN"}, Num>> >>, TRUE, "CREATE_DEBT", "refused", 84, 84)
AmBudgetLead  == Rule(<< <<{"BAJET"}, Num, Text>> >>, TRUE, "CREATE_BUDGET", "wanted", 84, 70)
AmBudgetTrail == Rule(<< <<Text, {"BAJET"}, Num>> >>, TRUE, "CREATE_BUDGET", "wanted", 84, 70)
AmSaveLead    == Rule(<< <<{"QUTABA"}, Num, Text>> >>, TRUE, "CREATE_SAVINGS_GOAL", "ignored", 82, 82)
AmSaveTrail   == Rule(<< <<Text, Num, {"QUTABA"}, Num>>, <<Text, Num, {"QUTABA"}>>, <<Text, {"QUTABA"}, Num>> >>,
                      TRUE, "CREATE_SAVINGS_GOAL", "ignored", 80, 80)
AmSpending    == Rule(<< <<{"SINT"}>> >>, FALSE, "QUERY_SPENDING", "of message", 74, 74)
AmharicRules ==
  <<PaidMe, PaidThem, AmSpent, AmIncome, OwesMe, IOweAm, AmBudgetLead, AmBudgetTrail, AmSaveLead,
    AmSaveTrail, AmSpending>>

(* English sentences.                                                      *)
DebtPaidByPerson == Rule(<< <<Text, {"paid", "pay"}, Num>> >>, TRUE, "RECORD_DEBT_PAYMENT", "ignored", 84, 84)
DebtPaidToPerson == Rule(<< <<{"paid", "pay"}, Text, Num>> >>, TRUE, "RECORD_DEBT_PAYMENT", "ignored", 84, 84)
Spent    == Rule(<< <<{"spent", "paid"}, Num, Rest>>, <<{"i"}, {"spent", "paid"}, Num, Rest>> >>,
                 TRUE, "CREATE_EXPENSE", "wanted", 86, 60)
Salary   == Rule(<< <<Num, {"salary"}>>, <<{"salary"}, Num>> >>, TRUE, "CREATE_INCOME", "or salary", 82, 82)
Income   == Rule(<< <<{"got"}, Num, Rest>> >>, FALSE, "CREATE_INCOME", "or salary", 80, 80)
OwedToMe == Rule(<< <<Text, {"owes"}, {"me"}, Num>> >>, FALSE, "CREATE_DEBT", "ignored", 90, 90)
IOwe     == Rule(<< <<{"i"}, {"owe"}, Text, Num>> >>, FALSE, "CREATE_DEBT", "ignored", 90, 90)
EnglishRules == <<DebtPaidByPerson, DebtPaidToPerson, Spent, Salary, Income, OwedToMe, IOwe>>

(* Small talk and questions.                                               *)
Talk(whole, word, intent, sure) == Rule(<< <<{word}>> >>, whole, intent, "ignored", sure, sure)
Spending == Rule(<< <<{"spending"}>> >>, FALSE, "QUERY_SPENDING", "of message", 70, 70)
TalkRules ==
  <<Talk(TRUE, "hi", "GREET", 95), Talk(TRUE, "howareyou", "WELLBEING", 93),
    Talk(TRUE, "thanks", "THANKS", 92), Talk(FALSE, "left", "QUERY_BALANCE", 88),
    Spending, Talk(FALSE, "report", "QUERY_REPORT", 70)>>
DebtWords == {"owes", "owe", "debt"}
QuestionRule == Rule(<< <<DebtWords>> >>, FALSE, "QUERY_DEBT", "question", 60, 60)

(* Budgets, goals and the shorthands; the last one is a name and a number. *)
BudgetLead    == Rule(<< <<{"budget"}, Num, Text>> >>, TRUE, "CREATE_BUDGET", "wanted", 82, 55)
BudgetTrail   == Rule(<< <<Text, {"budget"}, Num>> >>, TRUE, "CREATE_BUDGET", "wanted", 82, 55)
SavingsLead   == Rule(<< <<{"save"}, Num, Text>> >>, TRUE, "CREATE_SAVINGS_GOAL", "ignored", 80, 80)
SavingsTrail  == Rule(<< <<Text, {"save"}, Num>> >>, TRUE, "CREATE_SAVINGS_GOAL", "ignored", 80, 80)
Shorthand     == Rule(<< <<Num, Text>> >>, TRUE, "BY_CATEGORY", "wanted", 75, 50)
CategoryFirst == Rule(<< <<Text, Num>> >>, TRUE, "BY_CATEGORY", "required", 75, 75)
PersonDebt    == Rule(<< <<Text, Num>>, <<Text, Num, {"debt"}>> >>, TRUE, "CREATE_DEBT", "person", 72, 72)
ShorthandRules == <<BudgetLead, BudgetTrail, SavingsLead, SavingsTrail, Shorthand, CategoryFirst, PersonDebt>>
LastRules == TalkRules \o <<QuestionRule>> \o ShorthandRules

(* "remind me to x", with a date when " on " follows.                      *)
IsReminder(words) == \E i \in 1..Len(words) - 1 : words[i].w = "remind"
HasDate(words) == \E i, j \in DOMAIN words :
  words[i].w = "remind" /\ words[j].w = "on" /\ i + 1 < j /\ j < Len(words)

Unknown == [intent |-> "UNKNOWN", amount |-> 0, category |-> "none", conf |-> 0, missing |-> TRUE]

(* The words of the message that the pattern covers.                       *)
Covered(rule, pattern, words) == IF rule.whole THEN words ELSE FirstWindow(pattern, words)
CanMatch(rule, pattern, words) ==
  IF rule.whole THEN Fits(pattern, words) ELSE Windows(pattern, words) # {}

(* The condition a rule adds to its expression.  Mutant: the shorthand     *)
(* "taxi 80" does not ask for a category.                                  *)
AcceptsAnyWords(rule, captured, words) ==
  CASE rule.category = "refused"  -> CategoryOf(captured) = "none"
    [] rule.category = "person"   -> CategoryOf(captured) = "none"
    [] rule.category = "question" -> \A i \in DOMAIN words : words[i].w # "num"
    [] OTHER -> TRUE
Accepts(rule, captured, words) ==
  CASE rule.category = "refused"  -> CategoryOf(captured) = "none"
    [] rule.category = "required" -> CategoryOf(captured) # "none"
    [] rule.category = "person"   ->
         /\ CategoryOf(captured) = "none"
         /\ \A i \in DOMAIN captured : captured[i].w # "num"
         /\ Len(captured) = 1 => captured[1].w \notin {"i", "pay", "spent"}
    [] rule.category = "question" ->
         /\ \A i \in DOMAIN words : words[i].w # "num"
         /\ \A i \in 1..Len(words) - 1 : words[i].w \notin {"paid", "pay"}
    [] OTHER -> TRUE

Matching(rule, words) == {k \in DOMAIN rule.patterns : CanMatch(rule, rule.patterns[k], words)}
PatternFor(rule, words) == rule.patterns[Min(Matching(rule, words))]
CapturedBy(rule, pattern, words) == Captured(pattern, Covered(rule, pattern, words))

Applies(rule, words) ==
  /\ Matching(rule, words) # {}
  /\ Accepts(rule, CapturedBy(rule, PatternFor(rule, words), words), words)

(* The category of a command: the one that is named, or the rule's own;    *)
(* debts, their payments, goals and small talk have none.                  *)
TakesCategory == {"wanted", "required", "or salary", "or other", "of message"}
CategoryFor(rule, named) ==
  IF rule.category \in TakesCategory /\ named # "none" THEN named
  ELSE CASE rule.category = "or salary" -> "salary"
         [] rule.category = "or other"  -> "other-income"
         [] OTHER                       -> "none"
Command(rule, category, amount) ==
  [intent   |-> IF rule.intent = "BY_CATEGORY" THEN IntentFor(category) ELSE rule.intent,
   amount   |-> amount,
   category |-> category,
   conf     |-> IF category = "none" THEN rule.unsure ELSE rule.sure,
   missing  |-> rule.category = "wanted" /\ category = "none"]
Naming(rule, pattern, words) ==
  IF rule.category = "of message" THEN words ELSE CapturedBy(rule, pattern, words)
Reading(rule, pattern, words) ==
  Command(rule, CategoryFor(rule, CategoryOf(Naming(rule, pattern, words))),
          AmountOf(pattern, Covered(rule, pattern, words)))
CommandOf(rule, words) == Reading(rule, PatternFor(rule, words), words)

Hits(rules, words) == {k \in DOMAIN rules : Applies(rules[k], words)}
CommandOfFirst(rules, hits, words) ==
  IF hits = {} THEN Unknown ELSE CommandOf(rules[Min(hits)], words)
FirstOf(rules, words) == CommandOfFirst(rules, Hits(rules, words), words)

ReminderOf(words) ==
  [Unknown EXCEPT !.intent = "CREATE_REMINDER", !.conf = IF HasDate(words) THEN 80 ELSE 55,
                  !.missing = ~HasDate(words)]

Otherwise(sentence, words) ==
  IF sentence # Unknown THEN sentence
  ELSE IF IsReminder(words) THEN ReminderOf(words)
  ELSE FirstOf(LastRules, words)
ParseWords(words) == Otherwise(FirstOf(AmharicRules \o EnglishRules, words), words)

(* spokenCurrency: the word for a currency is left out.                    *)
UnlessCurrency(kept, token) == IF token.w = "birr" THEN kept ELSE Append(kept, token)
SpokenCurrency(words) == FoldLeft(UnlessCurrency, <<>>, words)
Parse(text) == ParseWords(SpokenCurrency(ReplaceSpokenAmounts(text)))
-----------------------------------------------------------------------------
ParserInit == message = <<>>
Write(token) == Len(message) < MaxWords /\ message' = Append(message, token)
SendMessage == message # <<>> /\ message' = <<>>
ParserNext == SendMessage \/ \E token \in Vocabulary : Write(token)
ParserSpec == ParserInit /\ [][ParserNext]_message

(* A number said in words, its scales falling, reaches the rules as its    *)
(* value, whatever stands around it that is not a number.                  *)
SpokenIsValue ==
  \A i, j \in DOMAIN message :
    LET number == SubSeq(message, i, j)
        before == SubSeq(message, 1, i - 1)
        after  == SubSeq(message, j + 1, Len(message))
    IN  /\ WellSaid(number) /\ ScalesFall(number)
        /\ before = <<>> \/ ~IsSpoken(message[i - 1])
        /\ after = <<>> \/ ~IsSpoken(message[j + 1])
        => ReplaceSpokenAmounts(message) =
             ReplaceSpokenAmounts(before) \o <<Amount(ValueOf(number))>> \o ReplaceSpokenAmounts(after)

(* The same without the restriction, as the comment on                     *)
(* replaceSpokenAmounts says it; "two hundred thousand" breaks it.         *)
SpokenAmountIsMeant ==
  WellSaid(message) => ReplaceSpokenAmounts(message) = <<Amount(ValueOf(message))>>

(* Words that no rule but the shorthands knows.                            *)
Plain(words) == words # <<>> /\ \A i \in DOMAIN words : words[i].w \in {"taxi", "salary", "name"}

(* "taxi 80" is "80 taxi": with a category among plain words the two       *)
(* orders make the same sure command, and without one a name in front of a *)
(* number is a person's debt and never an expense.                         *)
SameCommand(words, first, last) ==
  IF CategoryOf(words) = "none"
  THEN first.intent = "CREATE_DEBT" /\ last.intent = "CREATE_EXPENSE" /\ last.missing
  ELSE /\ first.intent = last.intent /\ first.intent = IntentFor(CategoryOf(words))
       /\ first.category = last.category
       /\ first.conf >= 70 /\ last.conf >= 70
OrdersAgree(words) ==
  SameCommand(words, Parse(words \o <<Amount(7)>>), Parse(<<Amount(7)>> \o words))

(* A sentence and its translation; a number stands for the open place.     *)
Twins(words) ==
  LET seven == <<Amount(7)>>
      say(c) == <<Word(c)>>
      person == IF CategoryOf(words) # "none" THEN {}
                ELSE { <<words \o say("KEFELE") \o seven, words \o say("paid") \o seven>>,
                       <<words \o say("KEFELKU") \o seven, say("paid") \o words \o seven>>,
                       <<words \o say("ALEBIGN") \o seven, say("i") \o say("owe") \o words \o seven>> }
  IN  person \cup
      { <<say("AWETAHU") \o seven \o words, say("spent") \o seven \o words>>,
        <<say("TEQEBELKU") \o seven \o words, say("got") \o seven \o words>>,
        <<words \o say("ABEDEREGN") \o seven, words \o say("owes") \o say("me") \o seven>>,
        <<say("BAJET") \o seven \o words, say("budget") \o seven \o words>>,
        <<words \o say("BAJET") \o seven, words \o say("budget") \o seven>>,
        <<say("QUTABA") \o seven \o words, say("save") \o seven \o words>>,
        <<words \o say("QUTABA") \o seven, words \o say("save") \o seven>> }

SameMeaning(am, en) ==
  /\ am.intent = en.intent /\ am.amount = 7 /\ en.amount = 7
  /\ am.missing = en.missing
  /\ am.category = en.category \/ {am.category, en.category} = {"salary", "other-income"}

(* Two families of rules that nothing keeps together in the code: plain    *)
(* words around a number mean the same in either order, and a sentence     *)
(* about them means the same in Amharic and in English: intent, amount,    *)
(* what is missing and the category, but for the one an income has when    *)
(* none is named.  How sure the rules are of it does differ.               *)
SentencesAgree ==
  Plain(message) =>
    /\ OrdersAgree(message)
    /\ \A twin \in Twins(message) : SameMeaning(Parse(twin[1]), Parse(twin[2]))
=============================================================================
