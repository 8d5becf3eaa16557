\* Two vaults that need up to eight pages share five, four of which can be
\* locked: a re-key succeeds alone, and both running out of pages and running
\* out of quota happen.  No symmetry: it is unsound for liveness.
SPECIFICATION FairSpec
CONSTANTS
    Inst = {i1, i2}
    Page = {g1, g2, g3, g4, g5}
    LockLimit = 4
    NULL = NULL
INVARIANTS
    TypeOK
    KeysStayLocked
    NoKeyUnlocked
    PagesAccounted
PROPERTIES
    CallsReturn
