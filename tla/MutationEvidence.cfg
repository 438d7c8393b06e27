CONSTANTS
    Runs = {r1, r2}
    Targets = {t1, t2}
    Suite = Suite
    Mutants = {m1}
    Original = Original
    Files = {src, data}
    Closure <- MCClosure
    Behaviours <- MCBehaviours
    None = None
    Damaged = Damaged
    RacingEdits = FALSE
    MaxStarts = 2
    MaxEvents = 1
    t1 = t1
    t2 = t2
    src = src
    data = data
    r1 = r1
    r2 = r2
SYMMETRY Symmetry
SPECIFICATION Spec
INVARIANTS KillIsCurrent SurvivalIsCurrent UnreachedIsCurrent
PROPERTY SaveForgetsNothing
CHECK_DEADLOCK FALSE
