SPECIFICATION FairSpec
CONSTANTS
  Lines <- MCLines
  MaxLines = 3
  BufferSize = 10
  CharIsSigned = TRUE
  ArgsMax = 2
  Env <- MCEnv
  Addr = {1, 2}
  NULL = null
INVARIANTS AcceptedToTheEnd ShortLinesFit
PROPERTIES SameLineSameOutcome ParseReturns
CHECK_DEADLOCK FALSE
