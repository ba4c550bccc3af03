CONSTANTS
  none = none
  Accounts = {1, 2, 3}
  NoTarget = none
  Workers = {w1, w2}
  Founders = {1, 2}
  DemoAdmin = 3
  MaxCalls = 2
  MaxEdits = 2
SPECIFICATION Spec
INVARIANTS TypeOK LogTellsTheRole
PROPERTIES AuthorityIsCurrent CallsEnd
CHECK_DEADLOCK FALSE
