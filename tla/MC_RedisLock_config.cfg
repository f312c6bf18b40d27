SPECIFICATION Spec
CONSTANTS
    Procs = {p1, p2, p3}
    LockValue <- MC_OwnValue
    Absent = Absent
    Nobody = Nobody
    Ttl = 1
    MaxHold = 2
    MaxTries = 2
INVARIANT OnlyOwnKeyDeleted

