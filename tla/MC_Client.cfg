SPECIFICATION MCSpec
CONSTANTS
  Callers = {s1, s2}
  Workers = {w1}
  NoWorker = NoWorker
  MaxFaults = 1
  StaleRejection = FALSE
  Threads <- MCThreads
  LastDate = 2
  LastOrder = 3
  PageSize = 1
  Messages <- MCMessages
  Undocumented <- MCUndocumented
  PageLimit = 1
  BatchLimit = 2
  Mails = {m1}
  Devices = {d1}
  Sessions = {s1, s2}
  Tokens = {t1, t2}
  NoToken = none
  MaxAttempts = 2
  MaxCrashes = 1
  PageTokens = {t1, t2, t3}
  First = first
  NoPage = nopage
  PageBudget = 2
  MaxContinuations = 1
  MaxRequests = 2
INVARIANTS FailedIsConclusive ListedOnceEach ReadAsItIs NoticesHold FreshTokenStaysEnabled SearchIsComplete
PROPERTIES ImplementsAtMostOnce
SYMMETRY MCSymmetry
CHECK_DEADLOCK FALSE
