SPECIFICATION Spec
CONSTANTS
  Files = {new, old}
  Legacy = {old}
  Sizes <- MCSizes
  Handlers = {h1, h2}
  Recalcs = {q}
  None = None
  MaxOvertakes = 1
  MaxCalls = 4
  MaxRetries = 1
  MaxRecalcs = 1
INVARIANTS TypeOK NoLostUpdate FilesAreCounted
PROPERTIES BalanceIsKept
SYMMETRY Interchangeable
CHECK_DEADLOCK FALSE
