SPECIFICATION Spec
CONSTANTS
  Names <- MCNames
  EmptyName = 0
  MaxEntries = 5
  MaxDepth = 4
  Lists <- MCLists
  OldFiles <- MCOldFiles
INVARIANTS RegularIsWhole OthersAreNot
