\* One vault object at a time, three saves: what a reload must not repeat.
SPECIFICATION SpecFile
CONSTANTS
    NULL = NULL
    Inst = {i1}
    Name = {n1}
    Value = {x1}
    Password = {p1}
    NameLen <- MCNameLen
    DataLen <- MCDataLen
    PasswordLen <- MCPasswordLen
    MIN_PASSWORD_LEN = 8
    MAX_ENTRY_NAME_LEN = 2
    MAX_ENTRY_DATA_SIZE = 40
    MAX_INDEX_ENTRIES = 2
    MAX_VAULT_FILE_SIZE = 500
    MAX_U64 = 4
    HeaderJsonLen = 150
    LegacyFiles <- MCNoLegacyFiles
    LegacyDraws = 0
    MaxDraws = 9
    MaxExports = 3
VIEW WithoutAnswers
INVARIANTS
    AadFreshOnPath
