SPECIFICATION ReportSpec
CONSTANTS
  q1 = q1
  q2 = q2
  b0 = b0
  b1 = b1
  None = None
  Qdiscs <- MCQdiscs
  Bands <- MCBands
  U32 = 3
  MaxFrames = 3
SYMMETRY Symmetry
VIEW RelevantState
INVARIANTS
  CountersBounded
  ReportAddsUp
