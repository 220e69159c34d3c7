SPECIFICATION Spec
CONSTANTS
  None = None
  NoText = NoText
  MaxU = 255
  MaxRecords = 3
  ValueBytes = 9
  LogicalRecords <- CommentedRecords
INVARIANTS
  LastCommentElseFirst
