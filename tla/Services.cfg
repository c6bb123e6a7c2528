SPECIFICATION Spec
CONSTANTS
  Parts = {"algorithms", "ids", "crit", "time", "start", "locks", "shell",
           "whole", "ring", "list", "memory", "timers"}
  CrcData <- MCCrcData
  FletcherData <- MCFletcherData
  Buffers <- MCBuffers
  Ticks <- MCTicks
  Numbers = {0, 7, 9, 10, 99, 100, 4096, 999999, 1000000, 16909060, 2139062143}
  Versions = {0, 16, 291, 2457}
  Chars = {"a", " ", "="}
  MaxLine = 7
  TimerHz = 72000000
  TokenCount = 3
  TokenLength = 3
  LineLength = 6
  Commands <- MCCommands
  CommandCount = 3
  Groups = 2
  SeqBits = 2
  IdListSize = 3
  Level <- MCLevel
  MaxDepth = 3
  Period = 2
  Hour = 9
  MaxClock = 16
  MaxBoots = 2
  Caller = {"task", "isr"}
  ReadCountMax = 3
  CountMax = 4
  Typed = {"a", "b", "n"}
  MaxTyped = 4
  Burst = 2
  Life = 2
  BufferLength = 5
  MaxCommand = 3
  WholeLists = {"x", "y"}
  WholeNodes = {1, 2, 3, 4}
  Capacity = 3
  Value = {"a", "b"}
  CountMod = 8
  TaskOps = {"write", "read", "purge"}
  IsrOps = {}
  Careful = TRUE
  MaxLen = 3
  List = {"sorted", "queue"}
  Node = {1, 2, 3, 4}
  Null = Null
  Given = {"queue"}
  Taken = {"queue"}
  Unguarded = {"sorted"}
  Byte = 256
  HeapBlocks = 6
  ObjectBlocks = 3
  Pools = 3
  BlockSize = 16
  SizeBytes = 4
  PoolSize = {16, 20, 48}
  Request = {12, 20}
  MemWidth = 256
  Windows = FALSE
  Nil = Nil
  Timer = {1, 2}
  Interval = {3}
  Parameter <- MCParameters
  Iterations = {1}
  TimerWidth = 5
  HourLength = 4
  MaxLag = 1
  NoTimer = NoTimer
INVARIANTS
  FunctionsRight
  IdsUnique
  SectionsNest
  TimeFits
  StartsSafely
  LocksKept
  NoneStranded
  ListsKept
  IndicesAgree
  CallFits
  Intact
  SortedOrder
  SearchFinds
  NeverHeld
  PoolsSound
  HeapIsAllocs
  HangsWhenFull
  NotTooLate
PROPERTIES
  RefinesFifo
  NotTooEarly
CHECK_DEADLOCK FALSE
