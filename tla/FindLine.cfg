SPECIFICATION ShellSpec
CONSTANTS
  Typed = {"a", "b", "n"}
  MaxTyped = 4
  Burst = 2
  Life = 2
  BufferLength = 5
  MaxCommand = 3
INVARIANT
  CommandNamed
CHECK_DEADLOCK FALSE
