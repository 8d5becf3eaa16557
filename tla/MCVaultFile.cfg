\* Two vault objects on one path, three saves: who loses what, and when.
SPECIFICATION SpecFile
CONSTANTS
    NULL = NULL
    Inst = {i1, i2}
    Name = {n1}
    Value = {x1}
    Password = {p1}
    NameLen <- MCNameLen
    DataLen <- MCDataLen
    PasswordLen <- MCPasswordLen
    MIN_PASSWORD_LEN = 8
    MAX_ENTRY_NAME_LEN = 2
    MAX_ENTRY_DATA_SIZE = 40
    MAX_INDEX_ENTRIES = 2
    MAX_VAULT_FILE_SIZE = 500
    MAX_U64 = 3
    HeaderJsonLen = 150
    LegacyFiles <- MCNoLegacyFiles
    LegacyDraws = 0
    MaxDraws = 6
    MaxExports = 3
SYMMETRY Objects
VIEW WithoutResult
INVARIANTS
    TypeFileOK
    NoLostUpdate
    CounterTellsGenerations
