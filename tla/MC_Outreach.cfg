SPECIFICATION OutreachSpec
CONSTANTS
    MaxTime = 3
    Scores = {49, 50}
    CooldownDays = {0, 1}
    DefaultCooldown = 2
    MinLength = 0
    Procs = {x1, x2}
    Beats = {y1, y2}
    FirstStatus = "EMAIL_READY"
    MaxPerRun = 1
    MaxRuns = 4
    MaxFailures = 2
    MaxRequests = 1
    Senders = {x1, x2}
    Domains = {d1}
    Campaigns = {k1}
    NoCampaign = NoCampaign
    HourlyLimit = 2
    SenderLimit = 2
    DomainLimit = 1
    CampaignLimit = 1
    MinSample = 1
    HoursPerDay = 1
    MaxHour = 1
    MaxBounces = 1
    MaxLost = 1
    HandoffIds = {x1, x2}
    ManagerCalls = {y1, y2}
    MaxReopens = 2
    Managers = {x1, x2}
    DeskCalls = {y1, y2}
    MaxActions = 3
    MaxStages = 5
    MaxDeskLosses = 1
    LeadCount = 2
    BulkCalls = {y1, y2}
SYMMETRY Symmetry
INVARIANTS
    OutreachTypeOK
    HandoffIsWarm OptOutIsForever CooldownHonoured
    SendsBounded PauseOvershoot
    RecoveriesBounded TouchRepeatedOnlyWhenTorn TracesAreTrue 
    CompletionsConvert
    ResolvedLeavesQueue DealIsPossible
    CircleNeedsAList
CHECK_DEADLOCK FALSE
