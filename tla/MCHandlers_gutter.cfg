SPECIFICATION Spec
CONSTANTS
  MAX_WIDTH = 3
  Arguments <- MCArguments
  MaxArgs = 2
  MaxSize = 4
  Path = path
  Name = name
  NULL = null
INVARIANT GutterShowsItsRow
CHECK_DEADLOCK FALSE
