SPECIFICATION Spec
CONSTANTS
  Admins = {a, b}
  Nobody = nobody
  Requests = {r1}
  Firsts <- AnyFirst
  EmbargoRows = 0
  TerminationRows = 1
  RetractionRows = 1
  MaxRows <- MCMaxRows
INVARIANTS TypeOK NoMinorityApproval
PROPERTIES EmbargoHolds NoResurrection PublishedEmbargoIsKept
SYMMETRY Interchangeable
CHECK_DEADLOCK FALSE
