\* Three entries at most, of every size around the limits, in an input of every
\* length; 32 * 128 wraps to 0 modulo USIZE.
SPECIFICATION Spec
CONSTANTS
    EntryKey = {k1, k2, k3}
    Counter = {c1, c2}
    Version = {1, 2}
    Count = {0, 1, 2, 3, 4, 32}
    CtLen = {39, 40, 41, 42}
    InputLen <- MCInputLen
    LongestInput = 410
    NULL = NULL
    MAX_ENTRY_NAME_LEN = 0
    MAX_ENTRY_DATA_SIZE = 1
    MAX_INDEX_ENTRIES = 3
    USIZE = 4096
SYMMETRY KeysAndCounters
INVARIANTS
    WithinInput
    AcceptsOnlyEncodings
    AcceptsEveryEncoding
