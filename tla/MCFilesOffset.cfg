SPECIFICATION Spec
CONSTANTS
  Names = {old, new}
  Old = old
  Absent = Absent
  SectorSize = 2
  SecPerCluster = 1
  NrClusters = 5
  DirSlots = 2
  MAX_FILE_NUMBER = 5
  Bytes <- Bits
  Flags <- Both
  Lens <- OneOrThree
  Offsets <- Start
  MaxOffset = 4
  MaxResets = 0
  Disciplined = FALSE
CHECK_DEADLOCK FALSE
PROPERTY ImplementsFileStore
