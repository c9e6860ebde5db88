SPECIFICATION MCSpec
CONSTANTS
    Workers = {w1, w2}
    Message = {m1, m2}
    NoMessage = none
    LateFailures = FALSE
    MaxMatters = 3
    MaxEvents = 2
    MaxFaults = 1
    Names = {n1}
    TodoEvents = 3
    LastMessage = 2
    Recent = {2}
    PageSize = 1
    MaxGen = 2
    MaxRequests = 3
    MaxGenFaults = 0
SYMMETRY MCSymmetry
CHECK_DEADLOCK FALSE
INVARIANTS EveryMessageIsPlaced FinishedLeaves EveryMessageOrganised
PROPERTIES CorrectionsHold ChoicesStand NeverReturns
