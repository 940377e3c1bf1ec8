SPECIFICATION FairSpec
CONSTANTS
  Stops = {s}
  Checks = {c}
  Restores = {r}
  Purges = {d}
  Main = Main
  None = None
INVARIANTS TypeOK NamedIsStored
PROPERTIES ExportEnds
CHECK_DEADLOCK FALSE
