CONSTANTS
    Runs = {r1, p1}
    Plans = {p1}
    Collectors = {gc}
    Shared = {native}
    native = native
    gc = gc
    p1 = p1
    r1 = r1
    MaxFaults = 1
    None = None
SPECIFICATION MCSpec
INVARIANTS LiveIsSafe OwnIsFree KeptIsSpared RecordsAreNotLost LiveSharedIsSafe
PROPERTY AbandonedIsCollected
CONSTRAINT Apart
CHECK_DEADLOCK FALSE
