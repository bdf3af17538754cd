CONSTANTS
  N = 128
  Key <- Keys
  Block <- Blocks
  Nibble <- Nibbles
  Junk <- JunkEntry
  MaxCalls = 3
  Nil = Nil
SPECIFICATION Spec
INVARIANT IInv
PROPERTIES ImplementsPolyval NibbleSteps
CHECK_DEADLOCK FALSE
