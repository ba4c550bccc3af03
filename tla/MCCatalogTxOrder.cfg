CONSTANTS
  Accounts = {a1, a2}
  Tracks = {1, 2, 3}
  Modules = {1, 2, 3}
  Items = {1, 2}
  Titles = {"x", "y", "z"}
  KeyOf <- SameKey
  NoTitle = NoTitle
  NoOwner = NoOwner
  Commands <- OrderCommands
  MaxRevision = 20
  MaxOrder = 20
  Workers = {w1, w2}
  MaxCommands = 3
SPECIFICATION OrderSpec
INVARIANTS ReadsStayCurrent
PROPERTIES CommandsAreAtomic
CHECK_DEADLOCK FALSE
VIEW WithoutLog
SYMMETRY Symmetry
