CONSTANTS
  Accounts = {a1, a2}
  Tracks = {1}
  Modules = {1, 2}
  Items = {1}
  Titles = {"x", "y", "z"}
  KeyOf <- SameKey
  NoTitle = NoTitle
  NoOwner = NoOwner
  Commands <- StatusCommands
  MaxRevision = 20
  MaxOrder = 20
  Workers = {w1, w2}
  MaxCommands = 3
SPECIFICATION StatusSpec
INVARIANTS ReadsStayCurrent NoWaitCircle
PROPERTIES CommandsAreAtomic
CHECK_DEADLOCK FALSE
VIEW WithoutLog
SYMMETRY Symmetry
