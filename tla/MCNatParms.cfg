SPECIFICATION Spec
CONSTANTS
  Nothing = Nothing
  BigEndian = TRUE
  Characters <- MCCharacters
  Jobs <- MCJobs
  Strays <- MCStrays
  NNIRets = {"OK", "WARN", "ERR"}
INVARIANTS HoldsElements PutIsComplete FitsIsPut ComesBack
CHECK_DEADLOCK FALSE
