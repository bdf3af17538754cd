SPECIFICATION Spec
CONSTANTS
  Key = {k1, k2}
  Nonce = {n1}
  MaxLen = 2
  Len8 = {1, 3}
  Text <- MCText
  ForeignTag = {t1}
  DerivePiece <- MCDerivePiece
  Polyval <- MCPolyval
  TagCipher <- MCTagCipher
  Stream <- MCStream
  MaxCalls = 3
  Nil = Nil
  a = a
SYMMETRY KeySymmetry
INVARIANTS
  RightSchedule
PROPERTIES
  OnlyVerifiedReleased
  RoundTrip
  ImplementsAead
CHECK_DEADLOCK FALSE
