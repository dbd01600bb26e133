SPECIFICATION Spec
CONSTANTS
  Names <- MCNames
  Image <- MCImage
  Tables <- MCTables
  Disks <- MCDisks
  MaxCalls = 2
  MaxFaults = 1
INVARIANTS
  EveryFileExtracted
CHECK_DEADLOCK FALSE
