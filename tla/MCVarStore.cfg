SPECIFICATION FairSpec
CONSTANTS
  EmptyName = EmptyName
  Names = {EmptyName, n1}
  Forests <- MCForests
  OldFiles <- MCOldFiles
  Quotas <- QuotaSizes
  MaxSize = 5
  LeafTypes = {"INTEGER"}
  OldSizes = {6}
  QuotaSizes = {3, 6}
INVARIANTS TypeOK RoundTrip ReadsOnlyNewRecords NothingIsLost
PROPERTIES LoadEnds
CHECK_DEADLOCK FALSE
