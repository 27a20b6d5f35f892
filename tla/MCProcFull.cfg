SPECIFICATION Spec
CONSTANTS
  NR_TASKS = 4
  PRIORITY_MIN = 1
  PRIORITY_MAX = 2
  MaxPriority = 4
  Calls <- NoWait
  Disciplined = FALSE
CHECK_DEADLOCK FALSE
PROPERTY CloneFailsWhenFull
