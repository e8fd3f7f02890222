SPECIFICATION Spec
CONSTANTS
  MaxCalls = 2
  MaxText = 7
  LenName = 2
  LenLibrary = 1
  LenMember = 2
  OwnLibraries <- MCOwnLibraries
INVARIANTS KeepsOnlyAfter ReadAsDocumented
PROPERTIES GivesBackItsOwn
CHECK_DEADLOCK FALSE
