SPECIFICATION FairSpec
CONSTANTS
  Nodes <- PairNodes
  Root = "root"
  ParentOf <- PairParentOf
  Chain <- PairChain
  Addons <- MCAddons
  Targets <- PairTargets
PROPERTIES VerdictIsReached
CHECK_DEADLOCK FALSE
