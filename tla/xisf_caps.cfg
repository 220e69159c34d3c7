SPECIFICATION FairSpec
CONSTANTS
  None = None
  NaN = NaN
  Zero = Zero
  MaxU = 255
  Origin = 3
  PREAMBLE = 2
  MIN_HEADER = 3
  MaxFaults = 1
  MaxChannel = 1
  ChecksumBuilt = FALSE
  Reading = "TryDecompress"
  ValueBytes = 3
  ImagesPerSource = 1
  Limits <- Tight
  XisfLimits <- Narrow
  Units <- Sessions
INVARIANTS
  CapsHold
PROPERTIES
  CallReturns
