SPECIFICATION Spec
CONSTANTS
  Tables <- MCTables
  Variables <- MCVariables
  Words <- MCWords
  NULL = null
INVARIANTS WordsReachCommands HelpAgrees DeletedOnce OnlyVariablesLeft
CHECK_DEADLOCK FALSE
