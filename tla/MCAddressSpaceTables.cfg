SPECIFICATION Spec
CONSTANTS
  NrPages = 36
  Sizes <- PowersOf2
  Procs = {p1, p2, p3}
  First = p1
  ImagePages = 1
  StackPages = 1
  ElfPages = 2
  KernelPages = 1
  Calls <- ForkExit
  Values <- Contents
  Unmapped = Unmapped
CHECK_DEADLOCK FALSE
INVARIANT
  CleanTables
