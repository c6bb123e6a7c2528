SPECIFICATION ListsSpec
CONSTANTS
  List = {"tcb", "queue"}
  Node = {1, 2, 3}
  Null = Null
  Given = {"queue"}
  Taken = {"tcb"}
  Unguarded = {"tcb"}
  Byte = 256
INVARIANTS
  AddsInOrder
