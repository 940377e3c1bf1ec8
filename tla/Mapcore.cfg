SPECIFICATION FairSpec
CONSTANTS
  Views <- MCViews
  Edits <- MCEdits
  Manages <- MCManages
  Users <- MCUsers
  Registered = {"ann", "bob"}
  Titles <- MCTitles
  Everywhere = {"ann"}
  Creator = "ann"
  FirstTitle = "old"
  Keys <- MCKeys
  None = None
  MaxEdits = 1
  MaxMapEdits = 2
  MaxFailures = 1
INVARIANTS TypeOK OneTransactionTalks
PROPERTIES Converges
CHECK_DEADLOCK FALSE
