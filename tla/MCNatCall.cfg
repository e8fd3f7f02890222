SPECIFICATION Spec
CONSTANTS
  none = none
  NoRequest = none
  Sizes <- MCSizes
  Requests <- MCRequests
  Earlier <- MCEarlier
  Quotas <- MCQuotas
  Outputs <- MCOutputs
INVARIANTS LoadsABeginning LoadTellsTruth ErrorIsTold SessionIsClosed
CHECK_DEADLOCK FALSE
