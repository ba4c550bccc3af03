CONSTANTS
  Author = "author"
  DemoAdmin = "demo"
  Accounts = {"author", "demo"}
  Tracks = {1, 2, 3, 4}
  Modules = {1, 2, 3, 4}
  Items = {1, 2, 3, 4, 5, 6}
  Titles <- AllTitles
  KeyOf <- TitleKey
  ObjectiveOf <- TextObjective
  NoTitle = NoTitle
  NoOwner = NoOwner
  Commands <- EditorCommands
  MaxRevision = 20
  MaxOrder = 20
  Documents <- Releases
  Expected <- ExpectedTracks
  Demo <- DemoTracks
  MaxLoads = 2
  MaxEdits = 0
SPECIFICATION DeploySpec
PROPERTIES PublishedVersionsFrozen
CHECK_DEADLOCK FALSE
