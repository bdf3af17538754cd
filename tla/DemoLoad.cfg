SPECIFICATION FairSpec
CONSTANTS
  MasterKey = k
  MaxLen = 3
  Text <- MCText
  DerivePiece <- MCDerivePiece
  Polyval <- MCPolyval
  TagByte <- MCTagByte
  Stream <- MCStream
  NonceLen = 1
  TagLen = 2
  Zero = zero
  OtherByte = other
  Drive = {8}
  Online = {8}
  DefaultName <- MCDefaultName
  Digit <- MCDigit
  TypedName <- OneName
  NameMax = 3
  Nul = Nul
  Nil = Nil
  MaxCommands = 5
  MaxFaults = 1
  a = a
  A1 = A1
  B = B
  C = C
  D0 = D0
  D1 = D1
PROPERTY LoadedMeansWhole
CHECK_DEADLOCK FALSE
