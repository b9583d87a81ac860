SPECIFICATION ExpSpec
CONSTANTS
  Loads <- MCLoads
  n_hosts = 2
  n_runs = 2
  NUM_BUCKETS = 2
  MaxFailed = 1
VIEW RelevantState
INVARIANTS
  SchemeInForce
  FlowsUndisturbed
  EvaluationComplete
CHECK_DEADLOCK FALSE
