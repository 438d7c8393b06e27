SPECIFICATION Spec
CONSTANTS
    Mutants = {m1, m2}
    MaxTime = 2
    MaxStarts = 3
    None = None
INVARIANT WrittenHonoursExpiry
INVARIANT OnlyExpiryBlocks
CHECK_DEADLOCK FALSE
