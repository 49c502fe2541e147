SPECIFICATION AddSpec
CONSTANTS
  File = {"page", "extra", "conf", "menu"}
  Record = "record"
  Part <- MCPart
  Word <- MCWord
  Version = {1, 2, 3, 4}
  Scaffolds <- MCScaffolds
  Template <- MCTemplate
  Owned <- MCOwned
  Shared <- MCShared
  Declared <- MCDeclared
  Repo = "repo"
  Others <- MCOthers
  OthersOwned <- MCOthersOwned
  Together = {"other"}
  Loose <- MCLoose
  Mine = "mine"
  Gone = Gone
  Torn = Torn
  MaxOperations = 2
  MaxEdits = 1
  MaxFaults = 2
PROPERTY
  RecordsAreKept
CHECK_DEADLOCK FALSE
