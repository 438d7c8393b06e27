SPECIFICATION FairSpec
CONSTANTS
    Targets = {t1, t2}
    Packages = {p1, p2}
    Mutants = {m1, m2}
    NoBase = NoBase
    Damaged = Damaged
    Malformed = Malformed
    Nothing = Nothing
    MaxStarts = 3
    MaxFaults = 2
    AllowMismatch = TRUE
    AllowDamage = TRUE
INVARIANTS
    AlwaysRecoverable
    CrashIsAtomic
    DiskFollowsMemory
PROPERTIES
    ImplementsResumableWork
    Terminates
CHECK_DEADLOCK FALSE
