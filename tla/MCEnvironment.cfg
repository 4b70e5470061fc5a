SPECIFICATION FairSpec
CONSTANTS
  Symbols = {s1, s2, s3}
  Values = {v1, v2}
  Addr = {a1, a2, a3}
  NULL = null
  HEAD = head
  MaxCalls = 6
INVARIANTS TypeOK QueueLinked EntriesOwned SymbolsUnique
PROPERTIES CallReturns ImplementsEnvMap
CHECK_DEADLOCK FALSE
