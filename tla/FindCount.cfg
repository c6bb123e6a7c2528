SPECIFICATION RingSpec
CONSTANTS
  Capacity = 3
  Value = {"a"}
  CountMod = 8
  TaskOps = {"read"}
  IsrOps = {"write"}
  Careful = TRUE
  MaxLen = 2
INVARIANTS
  CountIsData
