SPECIFICATION IdealSpec
CONSTANTS
  N = 4
  Sizes <- MCSizes
  PAYLOAD = 2
INVARIANTS
  IdealTypeOK
  NoPreemption
  ShortestFirst
  CompletionTimes
PROPERTY
  AllScheduled
CHECK_DEADLOCK FALSE
