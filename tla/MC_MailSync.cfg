SPECIFICATION MCSpec
CONSTANTS
  MailWorkers = {w1, w2}
  Message = {1, 2}
  Initially = {1}
  PageOf <- Apart
  Pages = 2
  MaxHistory = 3
  MaxScans = 2
  SyncFaults = 1
  StaleRestart = FALSE
  Conversations = {t1, t2}
  BatchSize = 1
  MaxGen = 8
  ImportFaults = 2
  Logins = {w1, w2}
  Disconnects = {d1}
  Deletions = {a1}
  Workers = {r1}
  Reader = reader
  None = None
  Crashable = {w1, w2, d1, a1, r1, reader}
  LockTimeouts = TRUE
  UnlockedRevocations = TRUE
  MaxFaults = 2
INVARIANTS NothingLost NoLoginSurvivesItsFence SetupIsTrue
PROPERTIES RowsOutliveScans WindowStands
SYMMETRY MCSymmetry
CHECK_DEADLOCK FALSE
