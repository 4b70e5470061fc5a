SPECIFICATION Spec
CONSTANTS
  ArgsMax = 3
  Tokens <- MCTokens
  Env <- MCEnv
  Addr = {a1, a2, a3, a4}
  NULL = null
  MaxParses = 2
  Command = "command"
  Variable = "variable"
  Unbound = "unbound"
SYMMETRY Symmetry
INVARIANTS TypeOK ArgumentsOwned ParsesGrammar CommandValueUsable OnlyArgumentTokensKept StopsAtLast
CHECK_DEADLOCK FALSE
