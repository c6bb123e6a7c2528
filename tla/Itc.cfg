SPECIFICATION ItcSpec
CONSTANTS
  Task = {0, 1, 2}
  Idle = 0
  Boot = {0, 1, 2}
  Category <- MCCategory
  Minor <- MCMinor
  NewMinor = {}
  Known = {1}
  Deletable = {}
  e1 = e1
  e2 = e2
  e3 = e3
  e4 = e4
  f1 = f1
  f2 = f2
  Event = {e1, e2, e3, e4}
  Sleep = sleep
  Mock = mock
  Hash <- MCHash
  Timeout = {}
  Inf = inf
  Wrapped = 1
  TickPeriod = 1
  EventLifeTime = 1
  MaxLag = 1
  MaxLock = 0
  None = none
  q1 = q1
  b1 = b1
  b2 = b2
  g1 = g1
  s1 = s1
  Obj = {q1, b1, g1, s1}
  Queue = {q1}
  Mbx = {b1}
  Group = {g1}
  Sem = {s1}
  Setter = {2}
  ReadMax = 63
  Msg = {m}
  Sender = {2}
  MaxSize = 1
  Owner <- MCOwner
  SendEvent <- MCEvent1
  ReceiveEvent <- MCEvent2
  MbxSize = 1
  Width = 1
  MbxOwner = {1, 2}
  Poster = {2}
  Addr = {0, 1}
  PostEvent <- MCAddr1
  PendEvent <- MCAddr2
  PostAny <- MCEvent3
  Mask <- MCMask
  SetEvent <- MCFlag1
  ClearEvent <- MCFlag2
  ReleaseEvent <- MCEvent1
  Kinds = {"message", "mailbox", "group", "semaphore"}
INVARIANTS
  NoWakeupLost
  CountersFit
  Exclusive
  NodesReleased
  QueueSorted
PROPERTY
  NoUnseenExpiry
