SPECIFICATION ArgSpec
CONSTANTS
  Parsers <- MCParsers
  Base <- MCBase
  Commands <- MCCommands
INVARIANTS OwnKeyword OrderIrrelevant
CHECK_DEADLOCK FALSE
