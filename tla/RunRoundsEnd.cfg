SPECIFICATION MCLiveness
CONSTANTS
    Processes = {p1, p2}
    None = None
    MaxTree = 2
    MaxRounds = 2
    MaxStarts = 2
PROPERTIES
    Terminates
CHECK_DEADLOCK FALSE
