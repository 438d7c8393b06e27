SPECIFICATION NativeSpec
CONSTANTS
    Executions = {e1, e2, e3}
    Actions = {a1, a2}
    NoCommand = NoCommand
    Replay = FALSE
    MaxObjects = 1
    MaxGeneration = 1
    MaxRuns = 2
INVARIANTS
    PathsStay
PROPERTIES
    AdmittedSeesPersisted
    DrainEnds
