CONSTANTS
    Targets = {t1, t2}
    Own = {t1}
    t1 = t1
    t2 = t2
SPECIFICATION Spec
INVARIANTS NoKillIsMissed SkippedSuiteIsHarmless PositiveDefeatsSilence
CHECK_DEADLOCK FALSE
