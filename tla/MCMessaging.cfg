SPECIFICATION FairSpec
CONSTANTS
  Names <- MCNames
  EmptyName <- Nobody
  Transfers <- MCTransfers
  Machines = {TRUE, FALSE}
INVARIANTS OnlySentEntries SentMeansRead Transferred
PROPERTIES Ends TransferSpec
CHECK_DEADLOCK FALSE
