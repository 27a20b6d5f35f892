SPECIFICATION ShellSpec
CONSTANTS
  hello = hello
  notes = notes
  missing = missing
  none = none
  NoFile = none
  Lines <- Typed
  FileNames <- TwoFiles
  Programs <- OneProgram
  MaxProcs = 3
  MaxParams = 7
  MaxFd = 6
  MaxNumber = 2
CHECK_DEADLOCK FALSE
PROPERTY EditsWhereTyped
