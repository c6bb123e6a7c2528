SPECIFICATION Spec
CONSTANTS
  Task = {0, 1}
  Idle = 0
  Boot = {0, 1}
  Category <- MCCategory
  Minor <- MCMinor
  NewMinor = {5}
  Known = {0, 1}
  Deletable = {0}
  e1 = e1
  e2 = e2
  Event = {}
  Sleep = sleep
  Mock = mock
  Hash <- HashInjective
  Timeout = {1}
  Inf = inf
  Wrapped = 2
  TickPeriod = 1
  EventLifeTime = 1
  MaxLag = 2
  MaxLock = 1
  None = none
INVARIANT
  IdleKept
