\* Documents of up to three members under three names; two entries are allowed.
SPECIFICATION Spec
CONSTANTS
    NULL = NULL
    HexKey = {"ab12", "cd34"}
    Document <- MCDocument
    MAX_ENTRY_NAME_LEN = 1
    MAX_ENTRY_DATA_SIZE = 2
    MAX_INDEX_ENTRIES = 2
INVARIANTS
    NoEntryLost
    RejectedForACause
