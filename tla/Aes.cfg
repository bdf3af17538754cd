SPECIFICATION Spec
CONSTANTS
  Layout <- Layouts
  SubByte <- LookedUp
  Key <- Keys
  Block <- Blocks
  MaxCalls = 3
INVARIANT NoAlias
PROPERTIES
  ScheduleRight
  CipherRight
CHECK_DEADLOCK FALSE
