SPECIFICATION FairSpec
CONSTANTS
  Admins = {a}
  Nobody = nobody
  Requests = {r1}
  Firsts <- AnyFirst
  EmbargoRows = 0
  TerminationRows = 1
  RetractionRows = 1
  MaxRows <- MCMaxRows
PROPERTIES EmbargoIsLifted RetractionIsDecided
CHECK_DEADLOCK FALSE
