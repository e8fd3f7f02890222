SPECIFICATION Spec
CONSTANTS
  Nothing = Nothing
  ValuesOf <- MCValuesOf
  Types = {"STRING", "USTRING", "INTEGER", "FLOAT", "BOOLEAN"}
  Lengths <- MCLengths
  Indices <- MCIndices
  Buffers = {1, 3}
INVARIANTS SetIsKept FreedWhole
PROPERTIES OnlyFailureIsRagged
