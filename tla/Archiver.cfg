SPECIFICATION SerialSpec
CONSTANTS
  Nodes <- MCNodes
  Root = "root"
  ParentOf <- MCParentOf
  Chain <- MCChain
  Addons <- MCAddons
  Targets <- MCTargets
INVARIANTS TypeOK AskedIsCopied
PROPERTIES NoFalseAlarm VerdictIsReached
CHECK_DEADLOCK FALSE
