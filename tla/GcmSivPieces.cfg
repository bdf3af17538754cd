SPECIFICATION FairSpecPieces
CONSTANTS
  Key = {k1, k2}
  Nonce = {n1}
  MaxLen = 1
  Len8 = {0, 1, 2}
  Text <- MCText
  ForeignTag = {t1}
  DerivePiece <- MCDerivePiece
  Polyval <- MCPolyval
  TagCipher <- MCTagCipher
  Stream <- MCStream
  MaxCalls = 2
  Nil = Nil
  a = a
INVARIANTS
  IInv
PROPERTIES
  MasterRestored
  CallReturns
CHECK_DEADLOCK FALSE
