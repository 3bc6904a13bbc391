SPECIFICATION FairSpecParts
CONSTANTS
  v1 = v1
  v2 = v2
  v3 = v3
  DataVIOs = {v1, v2, v3}
  NoVIO = NoVIO
  lbn <- MClbn
  LastZone = 0
  Flushes = {f1}
  Bios = {b1}
  NoFlush = NoFlush
  MaxGeneration = 1
  CompressedSize <- MCCompressedSize
  InputBinCount = 1
  OutputBins = {o1}
  BinDataSize = 3
  MaxSlots = 2
  ThreadCount = 4
  ListenerCount <- registeredListeners
  NoError = NoError
  LogicalThreads = {2}
  PhysicalThreads = {3}
  VDOListener = 1
CHECK_DEADLOCK FALSE
INVARIANTS PackerIsConsistent SuspendedIsQuiet TypeOKVDO DisallowedMeansQuiet NoticesAreGivenOnce SuperBlockIsRight
PROPERTIES NothingWaitsForThePacker SuspendCompletes CleanMeansNoError EveryThreadLearns
