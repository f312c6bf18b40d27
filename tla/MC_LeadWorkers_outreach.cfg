SPECIFICATION Spec
CONSTANTS
    MaxTime = 0
    Workers = {w1, w2}
    NoOne = NoOne
    Intents <- MC_Intents
    LastFollowup = 1
    MaxRetries = 1
    MaxRuns = 4
    EnterAt = "LEAD_FOUND"
    MaxCalls = 2
    MaxReplies = 0
    MaxPauses = 0
    Requests = {r1}
    MaxRequests = 1
    MaxFaults = 1
SYMMETRY Symmetry
INVARIANTS
    MailedOncePerRun
    
PROPERTY NoStaleMail
CHECK_DEADLOCK FALSE
