SPECIFICATION Spec
CONSTANTS
  NR_TASKS = 4
  PRIORITY_MIN = 1
  PRIORITY_MAX = 1
  MaxPriority = 3
  Calls <- AllCalls
  Disciplined = FALSE
CHECK_DEADLOCK FALSE
INVARIANTS
  ScheduleCovers
