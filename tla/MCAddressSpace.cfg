SPECIFICATION Spec
CONSTANTS
  NrPages = 32
  Sizes <- PowersOf2
  Procs = {p1, p2, p3}
  First = p1
  ImagePages = 1
  StackPages = 1
  ElfPages = 2
  KernelPages = 1
  Calls <- AllCalls
  Values <- Contents
  Unmapped = Unmapped
SYMMETRY Children
CHECK_DEADLOCK FALSE
INVARIANTS
  SharedReadOnly
  RefsCoverMappings
PROPERTY
  ImplementsUserMemory
