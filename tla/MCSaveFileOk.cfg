\* One process that saves twice.
CONSTANTS
    p1 = p1
    t1 = t1
    NULL = NULL
    Process = {p1}
    Tmp = {t1}
    Chunks = 1
    MaxSaves = 2
SPECIFICATION Spec
INVARIANT OkSurvives
