SPECIFICATION FairSpec
CONSTANTS
  DataVIOs = {v1, v2}
  Blocks = {b1, b2}
  NoBlock = NoBlock
  Size = 3
  EntriesPerBlock = 2
  WritePolicy = "async"
  Drains = {"suspending"}
  Errors = TRUE
  MaxTail = 4
CHECK_DEADLOCK FALSE
INVARIANTS JournalIsConsistent NoAssertionFails AvailableSpaceIsFree
PROPERTIES JournalMakesProgress
