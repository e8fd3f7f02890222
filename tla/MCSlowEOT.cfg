SPECIFICATION Spec
CONSTANTS
  Names <- MCNames
  EmptyName <- Nobody
  Transfers <- LateTransfers
  Machines = {TRUE, FALSE}
INVARIANT EverythingIsFine
CHECK_DEADLOCK FALSE
