SPECIFICATION Spec
CONSTANTS
  Vocabulary <- SomeWords
  MaxWords = 4
  Calls = {c1, c2}
  Messages <- SomeMessages
  DailyLimit = 1
  Days = 1
  Speech <- HasabThenGroq
  ModelKeys = {"gemini", "groq"}
  MaxServed = 2
  Requests = {q1, q2}
  MaxPerWindow = 2
  Users = {u1}
  Active = {u1}
  Attempts = 2
  Workers = 2
  MaxFaults = 2
  MaxTexts = 2
INVARIANTS SpokenAmountIsMeant
