SPECIFICATION FairSpec
CONSTANTS
  Alphabet <- LineAlphabet
  MaxChars = 3
  LongAlphabet = {}
  NumberAlphabet = {}
  LongChars = 0
  Lines <- MCLines
  MaxLines = 2
  BufferSize = 4
  IntMod = 64
  LongMax = 511
  CharIsSigned = FALSE
INVARIANT ReadyBetweenTokens
PROPERTIES TokenGetReturns ImplementsTokenStream
CHECK_DEADLOCK FALSE
