CONSTANTS
  Cap = 2
  MaxSends = 4
SPECIFICATION CloseSpec
INVARIANTS OneOwner ReclaimedWithoutSender NothingLeftBehind NoRoomFromClosing
PROPERTIES  LateValuesReclaimed
CHECK_DEADLOCK FALSE
