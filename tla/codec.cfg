SPECIFICATION Spec
CONSTANTS
  FixedPartSize <- MCFixedPartSize
  MaxMessageSize = 64
  Names <- MCNames
  Messages <- MCMessages
  MaxFed = 70
  Contents <- MCContents
INVARIANTS WritesInBuffer NothingSerialized WholeMessages BufferBounded  TokensDecoded CutOffNoticed WholeTokensRead
CHECK_DEADLOCK FALSE
