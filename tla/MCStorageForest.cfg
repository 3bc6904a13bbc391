SPECIFICATION Spec
CONSTANTS
  JournalSize = 4
  FlushingThreshold = 1
  BlockingThreshold = 2
  ScrubbingThreshold = 2
  EntriesPerBlock = 2
  FullEntriesPerBlock = 1
  RecoveryEntriesPerBlock = 2
  DataBlocks = 3
  CountsPerBlock = 2
  MaximumReferenceCount = 2
  PoolSize = 2
  MaxSlabProvisional = 1
  MaxRecoveryBlocks = 6
  Instances = {}
  SlabBlocks = 3
  MaxSlabs = 3
  MaxProvisional = 2
  MaxWaiters = 1
  MaxChanges = 5
  MaxDrains = 1
  Depots = {}
  MaximumAge = 1
  MaxJournalBlock = 4
  CacheSettings = {}
  BlockMapTreeHeight = 3
  EntriesPerPage = 2
  TreeGenerations = 3
  MaxTreeJournalBlock = 5
  TreeSettings = {}
  LogicalBlocks = {1, 2}
  PhysicalBlocks = {1, 2}
  RecoveryJournalSize = 3
  ReservedBlocks = 1
  SectorsPerBlock = 3
  EntriesPerSector = 2
  EntriesPerLastSector = 1
  Workloads = {}
  EntriesInPage = 2
  MaximumReferences = 3
  Rebuilds = {}
  RootCount = 2
  TreeHeight = 3
  EntriesInTreePage = 2
  EntryCounts = {8}
  MaxGrowths = 3
  StoredTrees <- MCStoredTrees
  DataVIOs = {v1, v2}
  LastZone = 1
  Flushes = {f1, f2}
  Bios = {b1, b2}
  NoFlush = NoFlush
  MaxGeneration = 2
INVARIANT TraversalErasesPastTheEnd
CHECK_DEADLOCK FALSE
