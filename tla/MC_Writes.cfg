SPECIFICATION MCSpec
CONSTANTS
  a1 = a1
  a2 = a2
  Actions = {a1, a2}
  Kind <- ArchiveAndRead
  Workers = {w1, w2}
  NoWorker = NoWorker
  NoAction = NoAction
  InitialLabels = {"INBOX", "UNREAD"}
  OutsideLabels = {"STARRED"}
  MaxOutside = 1
  MaxAttempts = 2
  ActionFaults = 1
  MaxFaults = 3
  Overlap = FALSE
  ActionAttempts = 2
  MaxAsks = 2
  MaxMishaps = 2
  DraftRequests = {w1, w2, r3, r4}
  NoDraft = NoDraft
INVARIANTS AppliedViewsAgree LoneFailureLeavesNoTrace AccountSendHolds ActionSettles DraftSentOnce
SYMMETRY MCSymmetry
CHECK_DEADLOCK FALSE
