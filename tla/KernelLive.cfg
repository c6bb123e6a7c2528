SPECIFICATION AgeFairSpec
CONSTANTS
  Task = {0, 1}
  Idle = 0
  Boot = {0, 1}
  Category <- MCCategory
  Minor <- MCMinor
  NewMinor = {}
  Known = {}
  Deletable = {}
  e1 = e1
  e2 = e2
  Event = {e1}
  Sleep = sleep
  Mock = mock
  Hash <- HashColliding
  Timeout = {2}
  Inf = inf
  Wrapped = 2
  TickPeriod = 1
  EventLifeTime = 1
  MaxLag = 2
  MaxLock = 0
  None = none
INVARIANTS
  TypeOK
  NotLate
  
  MockStays
  ParkedByPolls
PROPERTIES
  TimeoutWakes
  EmissionWakes
  DispatchServed
