SPECIFICATION Spec
CONSTANTS
    Workers = {w1}
    LastMessage = 2
    Recent = {2}
    PageSize = 1
    MaxGen = 2
    MaxRequests = 3
    MaxFaults = 1
CHECK_DEADLOCK FALSE
INVARIANTS EnabledMeansConsent
