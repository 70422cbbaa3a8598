SPECIFICATION Spec
CONSTANTS
  Values = {a, b}
  Uninit = Uninit
  Cap = 2
  CursorRange = 8
INVARIANTS
  SlotsMatchCursors
  DisconnectedAfterLastValue
  DropDestroysExactlyTheRest
PROPERTIES
  ImplementsFifo
CHECK_DEADLOCK FALSE
