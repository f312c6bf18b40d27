SPECIFICATION Spec
CONSTANTS
    MaxTime = 0
    Workers = {w1, w2}
    NoOne = NoOne
    Intents <- MC_Intents
    LastFollowup = 1
    MaxRetries = 1
    MaxRuns = 3
    EnterAt = "EMAIL_READY"
    MaxCalls = 0
    MaxReplies = 1
    MaxPauses = 0
    Requests = {r1}
    MaxRequests = 0
    MaxFaults = 0
INVARIANT HandoffCheckSuffices
CHECK_DEADLOCK FALSE
