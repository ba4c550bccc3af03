CONSTANTS
  a1 = a1  a2 = a2  o1 = o1  o2 = o2
  Emails = {a1, a2}
  Origins = {o1, o2}
  Workers = {w1, w2}
  LockId <- Ids
  MaxDelay = 2
  Window = 3
  Batch = 2
  MaxTime = 4
  MaxAttempts = 3
SPECIFICATION Spec
INVARIANTS TypeOK CredentialsOnlyWhenUnblocked
PROPERTIES BucketsVanishOnlyWhenStale BlocksNeverShorten AttemptsEnd
CHECK_DEADLOCK FALSE
