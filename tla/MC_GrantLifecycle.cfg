SPECIFICATION MCSpec
CONSTANTS
  Logins = {l1, l2}
  Disconnects = {d1}
  Deletions = {}
  Workers = {w1}
  Reader = reader
  None = None
  Crashable = {w1}
  LockTimeouts = FALSE
  UnlockedRevocations = FALSE
  MaxFaults = 2
  Visits = {v1, v2}
  Callbacks = {c1, c2}
  NoVisit = novisit
  NoCode = nocode
INVARIANTS StoredGrantIsLive GrantsAreAccountedFor SignInHolds
PROPERTIES RevocationEnds
CHECK_DEADLOCK FALSE
