SPECIFICATION Spec
ACTION_CONSTRAINT Serializable
CONSTANTS
  Admins = {a, b}
  Nobody = nobody
  Requests = {r1}
  Firsts <- AnyFirst
  EmbargoRows = 2
  TerminationRows = 1
  RetractionRows = 1
  MaxRows <- MCMaxRows
INVARIANTS DatedWithdrawalIsComplete
PROPERTIES ImplementsLifecycle RejectedIsFinal PublicIsKept
SYMMETRY Interchangeable
CHECK_DEADLOCK FALSE
