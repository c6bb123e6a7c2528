SPECIFICATION MemorySpec
CONSTANTS
  HeapBlocks = 7
  ObjectBlocks = 4
  Pools = 3
  BlockSize = 16
  SizeBytes = 4
  PoolSize = {16, 20, 48}
  Request = {12, 20}
  MemWidth = 256
  Windows = TRUE
  Nil = Nil
INVARIANT
  HeapIsAllocs
CHECK_DEADLOCK FALSE
