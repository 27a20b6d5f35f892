SPECIFICATION Spec
CONSTANTS
  Slots <- OneSlot
  SectorIds <- SixSectors
  Values <- NewWord
  Layouts <- Disks
  UserSectors <- DataSectors
  FailingSectors <- OneFails
  QueueSize = 3
  IdxMod = 6
  MaxResets = 1
CHECK_DEADLOCK FALSE
INVARIANTS
  NoStrayTransfer
  ChainOfTheCall
  MountFaithful
PROPERTIES
  Answered
  ImplementsDisk
