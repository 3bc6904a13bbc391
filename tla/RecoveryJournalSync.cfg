SPECIFICATION Spec
CONSTANTS
  DataVIOs = {v1, v2, v3}
  Blocks = {b1, b2}
  NoBlock = NoBlock
  Size = 4
  EntriesPerBlock = 2
  WritePolicy = "sync"
  Drains = {"suspending"}
  Errors = FALSE
  MaxTail = 4
INVARIANT WaitersHaveWakeup
