SPECIFICATION Spec
CONSTANTS
  None = None
  NaN = NaN
  Zero = Zero
  MaxU = 255
  Origin = 3
  PREAMBLE = 2
  MIN_HEADER = 3
  MaxFaults = 1
  MaxChannel = 1
  ChecksumBuilt = TRUE
  Reading = "TryDecompress"
  ValueBytes = 3
  ImagesPerSource = 2
  Limits <- Roomy
  XisfLimits <- Wide
  Units <- Sessions
INVARIANTS
  TypeOK
  StreamIsExact
  WholeImage
  EndMeansVerified
  HeaderIsNeverPixels
  UnverifiedNeverDelivered
PROPERTIES
  KeepsThePromise
