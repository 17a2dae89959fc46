CONSTANTS
  WINDOW_SIZE = 3
  MAX = 8
SPECIFICATION Spec
INVARIANTS
  TypeOK
  AcceptedOnce
  RefusedOnlyIfOld
CHECK_DEADLOCK FALSE
