SPECIFICATION Spec
CONSTANTS
  Goals = {s1, s2}
  Calls = {c1, c2, c3, c4}
  Given = {1, 2}
  Target = 3
  GoalLimit = 1
  DaysTotal = 4
  Incomes = {0, 3, 6}
  Plans = {0, 2, 5}
  MonthLengths <- FiveMonths
  Counts = {1, 2}
  Ids = {b1}
  Categories = {food, rent}
  NoCategory = NoCategory
  MaxRows = 1
  BudgetLimit = 1
  Entries = {e1, e2}
  Names = {1, 2}
  Cash = 2
  Seeded = TRUE
SYMMETRY Symmetry
INVARIANTS SavedWasGiven PaceIsSafe TodayCounts AlwaysAPlaceToLog
PROPERTIES CountedOnce
