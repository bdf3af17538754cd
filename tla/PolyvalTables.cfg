CONSTANTS
  N = 128
  Key <- Keys
  Block <- Blocks
  Nibble <- Nibbles
  Junk <- JunkEntry
  MaxCalls = 3
  Nil = Nil
SPECIFICATION TablesSpec
PROPERTIES TablesRight ImplementsPolyval OraclesAgree
CHECK_DEADLOCK FALSE
