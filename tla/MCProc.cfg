SPECIFICATION Spec
CONSTANTS
  NR_TASKS = 4
  PRIORITY_MIN = 1
  PRIORITY_MAX = 2
  MaxPriority = 4
  Calls <- AllCalls
  Disciplined = TRUE
INVARIANTS
  TypeOK
  UserHasSlice
  IdleOnlyAtTheEnd
  HandlesExact
  FreedIsDead
PROPERTIES
  RefillOnlyWhenDrained
  ImplementsProcLife
