SPECIFICATION Spec
CONSTANTS
  Areas <- MCAreas
  TempName <- MCTempName
  Names <- MCNames
  EmptyName = 0
  MaxLines = 6
INVARIANTS HasItsName GetsItsValue
CHECK_DEADLOCK FALSE
