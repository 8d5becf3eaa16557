\* Two processes, three saves of two writes each, and loads at any time.
CONSTANTS
    p1 = p1
    p2 = p2
    t1 = t1
    t2 = t2
    NULL = NULL
    Process = {p1, p2}
    Tmp = {t1, t2}
    Chunks = 2
    MaxSaves = 3
SPECIFICATION Spec
INVARIANTS
    TypeOK
    PathWhole
    TmpOwned
    NoLitter
    SettledSurvives
PROPERTY KeepsPromise
SYMMETRY ProcessesAndSuffixes
