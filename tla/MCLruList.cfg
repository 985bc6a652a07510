SPECIFICATION Spec
CONSTANTS
  FRAME_SIZE = 3
  FRAME_STORE_SIZE = 13
  MaxAccess = 6
INVARIANTS
  TypeOK
  WalkIsComplete
  VictimIsOldest
PROPERTY ImplementsOrder
CHECK_DEADLOCK FALSE
