SPECIFICATION FairSpec
CONSTANTS
  MAX_WIDTH = 3
  Arguments <- MCArguments
  MaxArgs = 3
  MaxSize = 8
  Path = path
  Name = name
  NULL = null
INVARIANTS ArgumentsReadExist CallsAsDocumented DumpShowsMemory DeviceReleased
PROPERTY HandlerReturns
CHECK_DEADLOCK FALSE
