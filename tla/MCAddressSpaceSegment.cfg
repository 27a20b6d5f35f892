SPECIFICATION Spec
CONSTANTS
  NrPages = 34
  Sizes <- PowersOf2
  Procs = {p1, p2}
  First = p1
  ImagePages = 2
  StackPages = 1
  ElfPages = 2
  KernelPages = 1
  Calls <- ForkExit
  Values <- Contents
  Unmapped = Unmapped
CHECK_DEADLOCK FALSE
PROPERTY
  ImplementsUserMemory
