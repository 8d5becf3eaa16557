\* One vault object and a file of format version 1: migration, its failures
\* and crashes, and what can be done with the vault afterwards.
SPECIFICATION Spec
CONSTANTS
    Inst = {i1}
    Name = {n1, n2}
    Value = {x1, x2}
    Password = {p1, ShortPassword}
    NULL = NULL
    LongName = LongName
    LongValue = LongValue
    BigValue = BigValue
    ShortPassword = ShortPassword
    OldPassword = p1
    PadName = PadName
    NameLen <- MCNameLen
    DataLen <- MCDataLen
    PasswordLen <- MCPasswordLen
    MIN_PASSWORD_LEN = 8
    MAX_ENTRY_NAME_LEN = 2
    MAX_ENTRY_DATA_SIZE = 40
    MAX_INDEX_ENTRIES = 3
    MAX_VAULT_FILE_SIZE = 500
    MAX_U64 = 3
    HeaderJsonLen = 150
    LegacyFiles <- MCLegacyFiles
    LegacyDraws = 6
    MaxDraws = 13
    MaxExports = 2
VIEW WithoutResult
INVARIANTS
    EveryExportReopens
    RekeyNeverRefused
    AlwaysCurrentFormat
PROPERTIES
    KeepsPromise
