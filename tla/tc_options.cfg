SPECIFICATION TcSpec
CONSTANTS
  DEFAULT_PACKET_BUFFER_LIMIT = 3
  Sizes <- MCSizes
  MaxWords = 5
  NoSize = NoSize
INVARIANTS
  TcTypeOK
  ParseCorrect
PROPERTY
  ParseEnds
CHECK_DEADLOCK FALSE
