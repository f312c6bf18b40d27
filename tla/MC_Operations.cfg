SPECIFICATION OperationsSpec
CONSTANTS
    Actors = {x1, x2}
    GateCalls = {y1, y2}
    Cooldown = 1
    MaxClock = 2
    MaxDecisions = 4
    Governors = {y1, y2}
    ApprovalTypes = {"single"}
    MaxEntries = 1
    MaxVersion = 5
    MaxAsked = 1
    MaxChecks = 1
    GuardCount = 2
    GuardCalls = {y1, y2}
    MaxViolations = 1
    MaxToggles = 3
    Deployers = {y1, y2}
    MaxPlans = 3
    MaxApprovals = 2
    HistoryLimit = 3
    JobCalls = {y1, y2}
    MaxRetries = 3
    MaxRecords = 1
    MaxCancels = 1
    Drillers = {y1, y2}
    DrillTypes = {x1, x2}
    MaxDrills = 3
    MaxDrillCrashes = 1
    BackupCalls = {y1, y2}
    MaxBackups = 2
    MaxBackupCrashes = 1
    MaxAltered = 1
SYMMETRY Symmetry
INVARIANTS
    OperationsTypeOK
    ApprovedByEnough DecisionOverwrittenBounded CooldownOvershoot
    HistoryIsAPath PastReviewWasApproved PromotedPassedGates
    GuardOffOnlyByHand
    ApprovedPlansPassed
    RetriesBounded
    NothingLeftBehind
    ManifestsAreTrue
CHECK_DEADLOCK FALSE
