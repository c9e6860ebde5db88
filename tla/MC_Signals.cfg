SPECIFICATION MCSpec
CONSTANTS
  Writers = {w1, w2}
  Orders = {w2}
  Poll = poll
  MaxLog = 1
  Workers = {w1}
  LastMessage = 2
  Recent = {2}
  PageSize = 1
  MaxGen = 2
  MaxRequests = 2
  MaxFaults = 1
PROPERTIES MailIsShown RebuildEnds
CHECK_DEADLOCK FALSE
