SPECIFICATION Spec
CONSTANTS
  Names = {old, new}
  Old = old
  Absent = Absent
  SectorSize = 2
  SecPerCluster = 1
  NrClusters = 5
  DirSlots = 2
  MAX_FILE_NUMBER = 5
  Bytes <- Bits
  Flags <- ReadOrBoth
  Lens <- OneOrThree
  Offsets <- Start
  MaxOffset = 4
  MaxResets = 1
  Disciplined = TRUE
CHECK_DEADLOCK FALSE
INVARIANTS
  ChainsApart
  SizeCovered
  Contained
PROPERTY ImplementsFileStore
