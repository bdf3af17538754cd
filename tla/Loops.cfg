SPECIFICATION LoopsSpec
CONSTANTS
  Tags <- MCTags
  Lens = {0, 16, 17, 64}
  Nothing = Nothing
  Key = {k1, k2}
  BufferLen = 127
  Zero = Zero
INVARIANTS
  RightBytes
  NoKeystreamReuse
  OraclesStreamSame
  AbsorbedSoFar
  HashesMessage
  OraclesHashSame
