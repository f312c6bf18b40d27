SPECIFICATION Spec
CONSTANTS
    MaxTime = 3
    Scores <- MC_Scores
    CooldownDays <- MC_CooldownDays
    DefaultCooldown = 2
    MinLength = 5
INVARIANT DraftCheckedLater
