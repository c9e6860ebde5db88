SPECIFICATION MCSpec
CONSTANTS
  Requests = {r1, r2, r3}
  Contents = {c1, c2}
  Seen = Seen
  None = None
  MaxDrafts = 2
  MaxRequests = 3
  MaxFaults = 2
  LostUpdates = FALSE
  Users = {c1, c2}
  NoUser = nouser
  Subjects = {c1, c2}
  NoSubject = nosubject
  Setups = {s1, s2}
  Workers = {w1}
  MaxAccounts = 1
INVARIANTS OneDraft RowTellsGmail NoWaitCycle AccountsHold
SYMMETRY Symmetry
CHECK_DEADLOCK FALSE
