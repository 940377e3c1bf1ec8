SPECIFICATION Spec
CONSTANTS
  FirstFlows = {"none", "pre", "post"}
  Handlers = {h1, h2}
  Creators = {a, b}
  Requests = {r1, r2}
  NoRequest = none
INVARIANTS TypeOK PublishedIsPublic NothingUnmoderated OneRequestEach
PROPERTIES AcceptedIsWithdrawn OnlyUnseenIsTakenBack HistoryIsKept
SYMMETRY Interchangeable
