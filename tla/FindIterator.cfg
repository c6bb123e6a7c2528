SPECIFICATION TimersSpec
CONSTANTS
  Timer = {1, 2}
  Interval = {1, 3}
  Parameter <- SomeParameters
  Iterations = {1}
  TimerWidth = 6
  HourLength = 5
  MaxLag = 1
  NoTimer = NoTimer
INVARIANT
  IteratorLive
CHECK_DEADLOCK FALSE
