SPECIFICATION Spec
CONSTANTS
  NUM_BANDS = 4
  BANDS_IN_BITMAP = 2
  DEFAULT_LIMIT = 1
  ETH_HEADER_LEN = 1
  IP_HEADER_LEN = 1
  U32 = 8
  MaxArrivals = 4
  NoSkb = NoSkb
  Frames <- MCFrames
  Opts <- MCOpts
INVARIANTS
  TypeOK
  BitmapCoversQueues
  OwnedOnce
  QlenAccounting
  BacklogExact
  FifoPerBand
  LimitUpToPhantom
  StatsReflectQdisc
PROPERTIES
  CountersBalance
  MostUrgentFirst
  LeastUrgentLost
  ImplementsPrioBuffer
