SPECIFICATION FlushSpec
CONSTANTS
  Subnet <- MCSubnet
  DumpSize = 2
  SeqLimit = 12
  FlushSize = 2
  MAX_ROUNDS = 2
  Loops = {0, 2}
  Tables <- MCTables
  Deselected = {"c"}
  Volatile = {"a1"}
  MaxDeleted = 1
INVARIANTS
  FlushComplete
  PromotedKept
  FlushFails
  TalkTruthful
PROPERTY
  FlushEnds
CHECK_DEADLOCK FALSE
