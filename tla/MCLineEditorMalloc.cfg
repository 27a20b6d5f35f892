SPECIFICATION Spec
CONSTANTS
  BlkSize = 256
  MetaSize = 16
  Chars <- Keys
  NUL = "0"
  Commands <- CommandTable
  Files <- FileTable
  EditCommand <- EditText
  FilePos = 2
  LineSize = 4
  MaxHistory = 2
  HeapBlocks = 2
  LineBytes = 128
  OwnBytes = 256
  StaleLines <- Stale
CHECK_DEADLOCK FALSE
INVARIANTS
  HeapExact
