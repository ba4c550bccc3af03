CONSTANTS
  Accounts = {a1}
  Tracks = {t1}
  Modules = {m1, m2}
  Items = {}
  Titles = {x, y}
  KeyOf <- SameKey
  NoTitle = NoTitle
  NoOwner = NoOwner
  Commands <- AllCommands
  MaxRevision = 5
  MaxOrder = 3
SPECIFICATION Spec
INVARIANTS TypeOK ActiveTrackHasActiveModule LiveContentIsPublished HistoryNumbered
PROPERTIES HistoryAppendOnly AuditAttributesChange
VIEW WithoutLog
SYMMETRY Symmetry
CHECK_DEADLOCK FALSE
