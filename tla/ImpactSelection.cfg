SPECIFICATION MCSpec
CONSTANTS
    P = P
    Q = Q
    p1 = p1
    p2 = p2
    pt = pt
    q = q
    qt = qt
    Packages = {P, Q}
    Files = {p1, p2, pt, q, qt}
    Tests = {pt, qt}
    Parts <- TheParts
    Home <- TheHome
    Links <- TheLinks
    MaxEdits = 2
INVARIANTS
    LeftOutIsUntouched
    MutantsMeetTheirTargets
CHECK_DEADLOCK FALSE
