\* One vault object at every limit: names, values and passwords on both sides
\* of the bounds, a full map, a full file, counters that run out.
SPECIFICATION Spec
CONSTANTS
    Inst = {i1}
    Name = {n1, n2, LongName}
    Value = {x1, BigValue, LongValue}
    Password = {p1, p2, ShortPassword}
    NULL = NULL
    LongName = LongName
    LongValue = LongValue
    BigValue = BigValue
    ShortPassword = ShortPassword
    OldPassword = p1
    PadName = PadName
    NameLen <- MCNameLen
    DataLen <- MCDataLen
    PasswordLen <- MCPasswordLen
    MIN_PASSWORD_LEN = 8
    MAX_ENTRY_NAME_LEN = 2
    MAX_ENTRY_DATA_SIZE = 40
    MAX_INDEX_ENTRIES = 1
    MAX_VAULT_FILE_SIZE = 356
    MAX_U64 = 2
    HeaderJsonLen = 150
    LegacyFiles <- MCNoLegacyFiles
    LegacyDraws = 0
    MaxDraws = 10
    MaxExports = 1
SYMMETRY NamesAndPasswords
VIEW WithoutResult
INVARIANTS
    EveryExportReopens
    RekeyNeverRefused
PROPERTIES
    KeepsPromise
