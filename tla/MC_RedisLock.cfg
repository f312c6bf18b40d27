SPECIFICATION FairSpec
CONSTANTS
    Procs = {p1, p2, p3}
    LockValue <- MC_LockValue
    Absent = Absent
    Nobody = Nobody
    Ttl = 2
    MaxHold = 4
    MaxTries = 2
INVARIANTS
    SectionBounded
    OwnKeyDeletedUntilLapse
PROPERTIES
    KeyGoes
    Answered
    IsLease

