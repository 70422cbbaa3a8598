SPECIFICATION Spec
CONSTANTS
  Cap = 2
  MaxPushes = 3
INVARIANTS NoWakeLost StreamEndsLast
PROPERTY WakesUp
CHECK_DEADLOCK FALSE
