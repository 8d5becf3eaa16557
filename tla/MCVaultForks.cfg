\* Two forks of one vault whose exports and reopenings interleave freely. One
\* name and one value are enough: two ciphertexts differ in their nonces.
SPECIFICATION Spec
CONSTANTS
    Inst = {i1, i2}
    Name = {n1}
    Value = {x1}
    Password = {p1}
    NULL = NULL
    LongName = LongName
    LongValue = LongValue
    BigValue = BigValue
    ShortPassword = ShortPassword
    OldPassword = p1
    PadName = PadName
    NameLen <- MCNameLen
    DataLen <- MCDataLen
    PasswordLen <- MCPasswordLen
    MIN_PASSWORD_LEN = 8
    MAX_ENTRY_NAME_LEN = 2
    MAX_ENTRY_DATA_SIZE = 40
    MAX_INDEX_ENTRIES = 2
    MAX_VAULT_FILE_SIZE = 500
    MAX_U64 = 2
    HeaderJsonLen = 150
    LegacyFiles <- MCNoLegacyFiles
    LegacyDraws = 0
    MaxDraws = 8
    MaxExports = 3
SYMMETRY Forks
VIEW WithoutResult
INVARIANTS
    TypeOK
    CounterAhead
    EveryEntryOpens
    NonceUnique
    NoAadReissued
    CountersMonotonic
