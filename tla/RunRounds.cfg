SPECIFICATION MCSafety
CONSTANTS
    Processes = {p1, p2}
    None = None
    MaxTree = 2
    MaxRounds = 2
    MaxStarts = 2
SYMMETRY Symmetry
INVARIANTS
    ClosesWhatItOpened
    AssuredIsTrue
CHECK_DEADLOCK FALSE
