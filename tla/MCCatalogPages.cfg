CONSTANTS
  Accounts = {a1}
  Tracks = {1, 2, 3}
  Modules = {1, 2}
  Items = {}
  Titles = {"x", "y", "z"}
  KeyOf <- SameKey
  NoTitle = NoTitle
  NoOwner = NoOwner
  Commands <- OtherCommands
  MaxRevision = 6
  MaxOrder = 6
  MaxChanges = 3
SPECIFICATION BuiltSpec
INVARIANTS LearnerReadsPublishedText EmptyPageOnlyWhenRetired
PROPERTIES AcceptedMeansSeen
VIEW WithoutLog
CHECK_DEADLOCK FALSE
