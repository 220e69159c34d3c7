SPECIFICATION HeaderSpec
CONSTANTS
  None = None
  NaN = NaN
  MaxU = 31
  XisfLimits <- Two
  Reading = "TryDecompress"
  ChecksumBuilt = TRUE
  Zero = "zero"
  ValueBytes = 3
  ImagesPerSource = 2
  Docs <- SmallHeaders
INVARIANTS
  MemoIsInvisible
  PropertiesInDocumentOrder
  OnePastTheCap
  GranularityMatchesThePath
  PairsTileTheBlock
