CONSTANTS
    Mutants = {m1, m2}
    Groups = {g1, g2}
    Suites = {}
    m1 = m1
    m2 = m2
    g1 = g1
    g2 = g2
    Jobs = 2
    Ceiling = 2
    MaxProcesses = 2
    None = None
SPECIFICATION MCSpec
INVARIANTS VerdictIsEarned RunsAreControlled SecondRunIsVouched ExpiryIsWeighed SiblingsAreSaved
PROPERTIES SavedIsSettled Terminates
CHECK_DEADLOCK FALSE
