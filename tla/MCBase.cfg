SPECIFICATION Spec
CONSTANTS
  TextPages = 3
  RodataPages = 2
  DataPages = 2
  FreePages = 9
  Fan = 4
  PhyIndex = 2
  VirIndex = 3
  NR_TASKS = 4
INVARIANTS KernelReachesItself FinalTableIsTight PagesApart
PROPERTY PrintsOrIsStuck
