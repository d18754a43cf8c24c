SPECIFICATION FairSpec
CONSTANTS
  Reminders = {once, daily}
  Recurring = {daily}
  Limit = 1
  Attempts = 2
  MaxTime = 1
  MaxFaults = 2
INVARIANTS OnlyLeftWhenSent ActiveIsScheduled FaultFree
PROPERTY EventuallySent
CHECK_DEADLOCK FALSE
