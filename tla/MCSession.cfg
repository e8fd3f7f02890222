SPECIFICATION Spec
CONSTANTS
  null = null
  Null = null
  Octets <- MCOctets
  Sessions <- MCSessions
  Chunk = 2
INVARIANTS FieldsArrive SentIsReceived
PROPERTY Ends
CHECK_DEADLOCK FALSE
