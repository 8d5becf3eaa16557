\* Two processes and one temporary name, two saves: do calls come to an end?
\* No symmetry: it is unsound for liveness.
CONSTANTS
    p1 = p1
    p2 = p2
    t1 = t1
    NULL = NULL
    Process = {p1, p2}
    Tmp = {t1}
    Chunks = 2
    MaxSaves = 2
SPECIFICATION FairSpec
PROPERTY CallsEnd
