SPECIFICATION Spec
CONSTANTS
  Names <- MCNames
  Image <- MCImage
  Tables <- MCTables
  Disks <- MCDisks
  MaxCalls = 2
  MaxFaults = 1
INVARIANTS
  TypeOK
  AnswersAgree
  SuccessIsComplete
  OnlyTargetsTouched
  FailsForReason
CHECK_DEADLOCK FALSE
