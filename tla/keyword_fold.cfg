SPECIFICATION Spec
CONSTANTS
  None = None
  NoText = NoText
  MaxU = 255
  MaxRecords = 5
  ValueBytes = 4
  LogicalRecords <- SmallRecords
INVARIANTS
  FoldsLikeTheStandard
  CapAppliesToBoth
