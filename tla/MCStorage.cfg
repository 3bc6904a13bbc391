SPECIFICATION Spec
CONSTANTS
  JournalSize = 4
  FlushingThreshold = 1
  BlockingThreshold = 2
  ScrubbingThreshold = 2
  EntriesPerBlock = 2
  FullEntriesPerBlock = 1
  RecoveryEntriesPerBlock = 2
  DataBlocks = 3
  CountsPerBlock = 2
  MaximumReferenceCount = 2
  PoolSize = 2
  MaxSlabProvisional = 1
  MaxRecoveryBlocks = 6
  Instances <- MCInstances
  SlabBlocks = 3
  MaxSlabs = 3
  MaxProvisional = 2
  MaxWaiters = 1
  MaxChanges = 5
  MaxDrains = 1
  Depots <- MCDepots
  MaximumAge = 1
  MaxJournalBlock = 4
  CacheSettings <- MCCacheSettings
  BlockMapTreeHeight = 3
  EntriesPerPage = 2
  TreeGenerations = 3
  MaxTreeJournalBlock = 5
  TreeSettings <- MCTreeSettings
  LogicalBlocks = {1, 2}
  PhysicalBlocks = {1, 2}
  RecoveryJournalSize = 3
  ReservedBlocks = 1
  SectorsPerBlock = 3
  EntriesPerSector = 2
  EntriesPerLastSector = 1
  Workloads <- MCWorkloads
  EntriesInPage = 2
  MaximumReferences = 3
  Rebuilds <- MCRebuilds
  RootCount = 2
  TreeHeight = 3
  EntriesInTreePage = 2
  EntryCounts = {1, 4, 5, 9, 11, 16}
  MaxGrowths = 3
  StoredTrees <- MCStoredTrees
  DataVIOs = {v1, v2}
  LastZone = 1
  Flushes = {f1, f2}
  Bios = {b1, b2}
  NoFlush = NoFlush
  MaxGeneration = 2
INVARIANTS SlabCountsAreRight AllocatorIsConsistent BlockMapIsWrittenBehindTheJournal BlockMapIsConsistent
  NothingIsStuck RecoveredIsConsistent ForestIsComplete NoAssertionFails
PROPERTY KeepsPromise
CHECK_DEADLOCK FALSE
