SPECIFICATION SizingSpec
CONSTANTS
  None = None
  MaxU = 254
  BLOCK = 4
  MaxAxis = 8
  Names <- AnyName
  Bitpixes <- AnyBitpix
  Naxes <- AnyNaxis
  AxisValues <- AnyAxis
  Counts <- AnyCount
  Scalings <- AnyScaling
  AxisCards = 3
INVARIANTS
  SizedExactly
  SamplesInsideUnit
  DecodableIsReadable
CHECK_DEADLOCK FALSE
