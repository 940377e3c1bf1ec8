SPECIFICATION Spec
CONSTANTS
  Stops = {s}
  Checks = {}
  Restores = {}
  Purges = {}
  Main = Main
  None = None
PROPERTIES StoppedIsFinal
CHECK_DEADLOCK FALSE
