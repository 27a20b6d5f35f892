SPECIFICATION Spec
CONSTANTS
  Size = 8
  Kernel = 1
  Requests <- AllRequests
  Calls <- EveryCall
  MaxRef = 2
CHECK_DEADLOCK FALSE
INVARIANTS
  TreeExact
PROPERTY ImplementsPageAlloc
