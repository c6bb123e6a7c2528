SPECIFICATION WholeSpec
CONSTANTS
  WholeLists = {"x", "y"}
  WholeNodes = {1, 2, 3, 4}
INVARIANT
  DestroyCompletes
CHECK_DEADLOCK FALSE
