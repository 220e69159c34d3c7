SPECIFICATION DocumentSpec
CONSTANTS
  None = None
  MaxU = 31
  XmlLimits <- Caps
  Xisf = "xisf"
  Tags <- SmallTags
  MaxPieces = 2
INVARIANTS
  ForeignNeverBare
  TreeIsTheDocument
  AcceptedIsWhole
CHECK_DEADLOCK FALSE
