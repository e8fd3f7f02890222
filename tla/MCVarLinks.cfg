SPECIFICATION Spec
CONSTANTS
  Names = {n1, n2, n3}
  EmptyName = n1
  MaxEntries = 4
  MaxDepth = 2
  Paths <- MCPaths
  NewTypes = {"INTEGER", "GROUP"}
SYMMETRY MCSymmetry
INVARIANTS IsTree FreedOnce CreatedIsFound
PROPERTIES ImplementsVarList NewNameIsNew
CHECK_DEADLOCK FALSE
