SPECIFICATION FairSpec
CONSTANTS
  None = None
  MaxU = 255
  Origin = 0
  MaxFaults = 1
  Zero = Zero
  ChecksumBuilt = TRUE
  Limits <- Roomy
  XisfLimits <- RoomyXisf
  Plans <- SmallBlocks
  Lengths <- NearTheEnd
INVARIANTS
  RowsAreTheBlocks
  SameBlockEitherRoute
  CutShortIsNoticed
PROPERTIES
  FailedOpenIsEmpty
  StreamEnds
