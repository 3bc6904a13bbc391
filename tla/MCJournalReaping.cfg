CONSTANTS
  lz1 = lz1
  lz2 = lz2
  pz1 = pz1
  p1 = p1
  p2 = p2
  b1 = b1
  LogicalZones = {lz1, lz2}
  PhysicalZones = {pz1}
  Size = 2
  DataVIOs = {v1, v2}
  Pages = {p1, p2}
  SlabBlocks = {b1}
  PageZone <- MCPageZone
  SlabBlockZone <- MCSlabBlockZone
  EntriesPerBlock = 1
  Synchronous = FALSE
  MaxTail = 4
  NoVIO = NoVIO
SPECIFICATION FairSpec
INVARIANTS TypeOK NoPrematureReap CountsMatchHolders
PROPERTIES ReapingIsOrderly BlocksAreReaped DrainCompletes
CHECK_DEADLOCK FALSE
