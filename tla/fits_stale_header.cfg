SPECIFICATION Spec
CONSTANTS
  None = None
  MaxU = 255
  BLOCK = 4
  MaxAxis = 63
  Origin = 3
  MaxFaults = 1
  MaxChannel = 1
  Limits <- Roomy
  Files <- Sessions
INVARIANTS
  NoHeaderAfterTheEnd
