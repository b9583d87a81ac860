SPECIFICATION ProcSpec
CONSTANTS
  q1 = q1
  q2 = q2
  q3 = q3
  Handles <- MCQdiscs
  Devices = {d1, d2}
  Names = {eth0, eth1, eth2}
  NoDevice = NoDevice
  CsvMayFail = TRUE
  MaxFailures = 1
  MaxRenames = 0
SYMMETRY QdiscSymmetry
INVARIANT
  StatsReadable
