SPECIFICATION Spec
CONSTANTS
  Alphabet <- AllClasses
  MaxChars = 4
  LongAlphabet <- StringClasses
  NumberAlphabet <- NumberClasses
  LongChars = 5
  Lines <- MCLines
  MaxLines = 1
  BufferSize = 6
  IntMod = 64
  LongMax = 511
  CharIsSigned = TRUE
INVARIANTS TypeOK BufferSuffices NulIsLast EveryTokenTakes LiteralsDenote
PROPERTY ImplementsTokenStream
CHECK_DEADLOCK FALSE
