SPECIFICATION Spec
CONSTANTS
  None = None
  MaxU = 255
  BLOCK = 4
  MaxAxis = 63
  Origin = 3
  MaxFaults = 0
  MaxChannel = 1
  Limits <- Roomy
  Files <- NoGroups
INVARIANTS
  AlignedWalk
