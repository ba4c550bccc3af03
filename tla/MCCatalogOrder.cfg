CONSTANTS
  Accounts = {a1}
  Tracks = {t1, t2, t3}
  Modules = {m1}
  Items = {i1, i2}
  Titles = {x, y, z}
  KeyOf <- SameKey
  NoTitle = NoTitle
  NoOwner = NoOwner
  Commands <- OrderCommands
  MaxRevision = 3
  MaxOrder = 4
SPECIFICATION Spec
INVARIANTS PositionsContiguous LiveContentIsPublished
PROPERTIES TokensIdentify
VIEW WithoutLog
SYMMETRY Symmetry
CHECK_DEADLOCK FALSE
