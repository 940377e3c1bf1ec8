SPECIFICATION Spec
CONSTANTS
  WebThreads = {w}
  ApiThreads = {a}
  Web = {page, manage}
  Manual = {manage}
  Api = {v}
  Tasks = {mail}
  Functions = {ban}
  Deferred = {checkin}
  None = None
ACTION_CONSTRAINT OneAtATime
INVARIANTS TypeOK NothingLeaks AnswerIsKept
PROPERTIES HandedAfterCommit
CHECK_DEADLOCK FALSE
