SPECIFICATION RepairSpec
CONSTANTS
    Processes = {p1, p2}
    Nobody = Nobody
    MaxPath = 3
    MaxBegun = 2
    MaxEdits = 2
SYMMETRY Symmetry
INVARIANTS
    NoResidue
PROPERTIES
    EditsSurvive
CHECK_DEADLOCK FALSE
