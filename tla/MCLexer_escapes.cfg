SPECIFICATION Spec
CONSTANTS
  Alphabet <- EscapeAlphabet
  MaxChars = 4
  LongAlphabet = {}
  NumberAlphabet = {}
  LongChars = 0
  Lines <- MCLines
  MaxLines = 1
  BufferSize = 5
  IntMod = 64
  LongMax = 511
  CharIsSigned = TRUE
INVARIANT EscapesAreThoseOfC
CHECK_DEADLOCK FALSE
