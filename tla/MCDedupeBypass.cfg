SPECIFICATION Spec
CONSTANTS
  dataA = dataA
  dataB = dataB
  dataC = dataC
  DataVIOs = {v1, v2, v3}
  NoVIO = NoVIO
  Blocks = {p1, p2, p3}
  NoBlock = NoBlock
  MaxCompressionSlots = 2
  MaximumReferenceCount = 2
  LockPoolCapacity = 7
  Locks = {l1, l2, l3}
  NoLock = NoLock
  Data = {dataA, dataB, dataC}
  Names = {"n", "m"}
  chunkName <- MCName
  Zero = Zero
  Instances <- MCFaulty
SYMMETRY Symmetry
CHECK_DEADLOCK FALSE
INVARIANT ReturnedLockIsEmpty
