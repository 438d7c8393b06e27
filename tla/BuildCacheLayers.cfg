CONSTANTS
    Programs = {p1}
    Actions = {a1, a2}
    Outputs = {o1, o2}
    Compilations <- MCCompilations
    None = None
    Touch <- MCTouch
    MaxObjects = 1
    TTL = 4
    MaxCollections = 1
SYMMETRY Symmetry
SPECIFICATION Spec
INVARIANTS ServedStays
PROPERTIES KeptIsServed BoundIsSoft
