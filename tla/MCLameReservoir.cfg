CONSTANTS
  ModeGr = 2
  SideBits = 32
  VbrMin = 2
  VbrMax = 3
  FrameBits <- SmallFrames
  FracSpF = 1
  Rate = 3
  Constraint = 128
  MdbMax = 6
  GranuleMax = 60
  HeaderBuf = 6
  TotLimit = 16
  Sizes <- SmallSizes
  TagLimit = 8
SPECIFICATION Spec
INVARIANTS DecoderFindsData ReservoirIsRight HeadersInPlace FlushCompletes
PROPERTIES HeadersFit
