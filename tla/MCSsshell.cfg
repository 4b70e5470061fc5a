SPECIFICATION FairSpec
CONSTANTS
  MaxChars = 3
  Typed <- MCTyped
  Meaning <- MCMeaning
  Blank = " "
  Nul = "NUL"
  NULL = null
  Platforms = {"posix", "windows"}
  MaxSignals = 2
  MaxReads = 3
INVARIANTS BufferFits LineIsTyped HandlerInstalled LeavesAsFound HistoryOfCommands
PROPERTY QuitExits
CHECK_DEADLOCK FALSE
