SPECIFICATION Spec
CONSTANTS
  NAME = 2
  EXT = 2
  Capital <- MCCapital
  Paths <- MCAnyPaths
  Code <- MCCode
  Dirs <- MCDirs
  MAX_FILE_NUMBER = 5
  MAX_DUP = 1
  Pids = {1, 2}
  DupArgs = {0, 4}
  FlagArgs = {0, 1, 2, 8}
  Lens = {1, 2}
  Chars = {"c", "lf"}
  MaxTyped = 2
CHECK_DEADLOCK FALSE
INVARIANTS
  OpensTheNamed
