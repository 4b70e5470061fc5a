SPECIFICATION Spec
CONSTANTS
  MAX_WIDTH = 3
  Arguments <- MCArguments
  MaxArgs = 2
  MaxSize = 3
  Path = path
  Name = name
  NULL = null
INVARIANT VariadicTakesAny
CHECK_DEADLOCK FALSE
