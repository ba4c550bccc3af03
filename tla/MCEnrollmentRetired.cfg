CONSTANTS
  Accounts = {u1, u2}
  Tracks = {t1, t2}
  Workers = {w1, w2}
  Nothing = none
  MaxRequests = 3
SPECIFICATION Spec
SYMMETRY Symmetry
CHECK_DEADLOCK FALSE
PROPERTY RetiredTrackNeverEnrolled
