\* Cells in place of bytes: two for a header's length, two for a header, two
\* for a nonce, two for the counter of version 1, three for a ciphertext.
SPECIFICATION Spec
CONSTANTS
    p1 = p1
    p2 = p2
    Password = {p1, p2}
    Source <- MCSource
    File <- MCFile
    NULL = NULL
    BASE = 4
    XCHACHA20_NONCE_LEN = 2
    LEGACY_COUNTER_LEN = 2
    MAX_HEADER_JSON_LEN = 5
    MAX_VAULT_FILE_SIZE = 11
    MIN_KDF_MEMORY = 32
    MAX_KDF_MEMORY = 256
    MEMORY_COST = 128
    MIN_KDF_ITERATIONS = 3
    MAX_KDF_ITERATIONS = 10
    ITERATIONS = 4
    KEY_LEN = 32
INVARIANTS
    OnlyWholeFilesOpen
    ErrorsNameTheCause
    BoundedCost
