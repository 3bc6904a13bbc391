SPECIFICATION Spec
CONSTANTS
  SlabSize = 8
  MaxSlabs = 4
  MaxZones = 2
  JournalSize = 2
  InitialBlocks = 22
  Storage = 31
  LogicalSizes <- MCLogicalSizes
  Stride = 2
  AdminBudgets <- MCAdminBudgets
  Offset = 1
  VolumeBlocks = 3
  MasterIndexBlocks = 2
  PageMapBlocks = 1
  OpenChapterBlocks = 1
  IndexSettings <- MCIndexSettings
  Neighborhood = 3
  MaxProbes = 6
  Capacities = {4}
  Names = {1, 2, 3, 4, 5}
  Hash <- MCHash
  HashRange = 16
  Owners = {1, 2}
  ManagerZones = 2
  MaxCommands = 3
  MaxRequests = 2
  MaxFaults = 1
  Chapters = 3
  IndexPages = 2
  Lists = 3
  Packed <- MCPacked
  CacheEntries = 2
  QueueSize = 2
  ReaderCount = 1
  SessionBudgets <- MCSessionBudgets
  LayerSettings <- MCLayerSettings
  BitCountMinimum = 1
  BitCountIncrement = 1
  RequestSettings <- MCRequestSettings
  ItemPriority <- MCItemPriority
  ThreadCount = 2
  MaxEnqueues = 3
  MaxTime = 1
  Heartbeats = 1
INVARIANTS CrashesAreRecovered ContentsAreFound PartsAgree NobodyWaitsForever KernelBooksBalance NoAssertionFails
PROPERTY ReadOnlyIsKept
CHECK_DEADLOCK FALSE
