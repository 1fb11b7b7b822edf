CONSTANTS
  mixed = mixed
  damaged = damaged
  large = large
  Dirs <- MCDirs
  Archives <- MCArchives
  MaxFiles = 2
  MaxOpen = 7
  MaxMat = 3
  FULL <- MCFull
  OutCounts <- MCOutCounts
  PatCounts <- MCPatCounts
SPECIFICATION DispatcherSpec
INVARIANTS DispatcherTypeOK AllPrinted EveryArchive SlotsDefined
CHECK_DEADLOCK FALSE
