SPECIFICATION Spec
CONSTANTS
  FirstFlows = {"pre"}
  Handlers = {h1}
  Creators = {a}
  Requests = {r1}
  NoRequest = none
INVARIANTS TombstoneIsPublic
