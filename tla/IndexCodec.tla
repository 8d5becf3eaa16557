------------------------------ MODULE IndexCodec ------------------------------
(***************************************************************************)
(* The binary index of format version 2 (src/vault/index_codec.rs): what   *)
(* encode_index writes, and the cursor of decode_index over any input.     *)
(*                                                                         *)
(* An input is a number of bytes.  The fields in it get a value when the   *)
(* decoder reads them, so the decoder meets every input of that length     *)
(* whose fields hold the values of the instance.  Of a ciphertext only the *)
(* length matters here.                                                    *)
(*                                                                         *)
(* A definition whose name begins with Slip is the one below it with a     *)
(* mistake in it; no action uses it.                                       *)
(***************************************************************************)
EXTENDS SequencesExt

CONSTANTS
    EntryKey,       \* raw HMAC keys of 32 bytes
    Counter,        \* values of a u64 counter
    Version,        \* values that may stand in the version field
    Count,          \* values that may stand in the entry count
    CtLen,          \* values that may stand in a ciphertext length
    InputLen,       \* lengths of the input
    NULL,
    MAX_ENTRY_NAME_LEN, MAX_ENTRY_DATA_SIZE, MAX_INDEX_ENTRIES,
    USIZE           \* usize counts modulo this: 2^32 or 2^64

VAULT_INDEX_VERSION == 2
ENTRY_KEY_LEN == 32
XCHACHA20_NONCE_LEN == 24
POLY1305_OUTSIZE == 16
MIN_ENCRYPTED_LEN == XCHACHA20_NONCE_LEN + POLY1305_OUTSIZE
MAX_ENCRYPTED_NAME_LEN == MIN_ENCRYPTED_LEN + MAX_ENTRY_NAME_LEN
MAX_ENCRYPTED_DATA_LEN == MIN_ENCRYPTED_LEN + MAX_ENTRY_DATA_SIZE
INDEX_PREAMBLE_LEN == 2 + 8 + 8 + 4
ENTRY_FIXED_LEN == ENTRY_KEY_LEN + 8 + 4 + 4
MIN_ENTRY_LEN == ENTRY_FIXED_LEN + 2 * MIN_ENCRYPTED_LEN

\* The entry count may be anything a u32 holds, so the product in
\* decode_index can wrap; up to the cap it does not.
ASSUME CodecAssumption ==
    /\ {USIZE, MAX_ENTRY_NAME_LEN, MAX_ENTRY_DATA_SIZE, MAX_INDEX_ENTRIES} \subseteq Nat
    /\ Count \cup CtLen \cup InputLen \subseteq 0..(USIZE - 1)
    /\ MAX_INDEX_ENTRIES * MIN_ENTRY_LEN < USIZE
    /\ VAULT_INDEX_VERSION \in Version
    /\ NULL \notin {"Ok", "truncated", "version", "entry_count", "entry_name_length",
                    "entry_data_length", "duplicate_entry_key", "trailing_bytes"}

NameLens == MIN_ENCRYPTED_LEN..MAX_ENCRYPTED_NAME_LEN
DataLens == MIN_ENCRYPTED_LEN..MAX_ENCRYPTED_DATA_LEN

-----------------------------------------------------------------------------
(***************************************************************************)
(* encode_index.  A field is written as its name and its value; entries    *)
(* come in the arbitrary order of the map.                                 *)
(***************************************************************************)
Field(name, value) == [name |-> name, value |-> value]

EncodeEntry(e) ==
    << Field("entry_key", e.key), Field("entry_data_counter", e.data_counter),
       Field("entry_name_length", e.name_len), Field("entry_name", e.name_len),
       Field("entry_data_length", e.data_len), Field("entry_data", e.data_len) >>

EncodeIndex(nonce_counter, data_nonce_counter, entries) ==
    << Field("version", VAULT_INDEX_VERSION),
       Field("nonce_counter", nonce_counter),
       Field("data_nonce_counter", data_nonce_counter),
       Field("entry_count", Len(entries)) >>
    \o FlattenSeq([k \in DOMAIN entries |-> EncodeEntry(entries[k])])

\* The bytes of the preamble and the first k entries.
LenUpTo(entries) ==
    LET upTo[k \in 0..Len(entries)] ==
            IF k = 0 THEN INDEX_PREAMBLE_LEN
            ELSE upTo[k - 1] + ENTRY_FIXED_LEN + entries[k].name_len + entries[k].data_len
    IN upTo

EncodedLen(entries) == LenUpTo(entries)[Len(entries)]

\* The indexes a vault can hold: store and insert_by_key keep these limits.
Entry == [key : EntryKey, data_counter : Counter,
          name_len : NameLens, data_len : DataLens]

WritableEntries ==
    UNION {{es \in [1..n -> Entry] :
                \A a, b \in 1..n : es[a].key = es[b].key => a = b} :
             n \in 0..MAX_INDEX_ENTRIES}

-----------------------------------------------------------------------------
VARIABLES
    len,        \* bytes in the input
    pos,        \* the cursor
    at,         \* the field that is read next
    entry_count,
    files,      \* the map under construction
    capacity,   \* what HashMap::with_capacity was asked for
    result,     \* "Ok", or why the input is corrupted, or NULL
    read        \* the fields read so far, with their values

vars == <<len, pos, at, entry_count, files, capacity, result, read>>

Init ==
    /\ len \in InputLen
    /\ pos = 0
    /\ at = "version"
    /\ entry_count = 0
    /\ files = [k \in {} |-> NULL]
    /\ capacity = 0
    /\ result = NULL
    /\ read = <<>>

Remaining == len - pos

\* The values of the entry being read, the last of the fields read.
LastValue(name) ==
    read[CHOOSE k \in DOMAIN read :
            /\ read[k].name = name
            /\ \A m \in DOMAIN read : m > k => read[m].name # name].value

Fits(n) == n <= Remaining

\* Reader::take: n bytes that hold the given field.
Take(name, n, value) ==
    /\ result = NULL
    /\ at = name
    /\ Fits(n)
    /\ pos' = pos + n
    /\ read' = Append(read, Field(name, value))
    /\ UNCHANGED len

Rejects(why) ==
    /\ result' = why
    /\ UNCHANGED <<at, entry_count, files, capacity>>

Continues(field) ==
    /\ at' = field
    /\ UNCHANGED result

\* After the preamble and after every entry.
NextEntry(n) == IF n = entry_count' THEN "end" ELSE "entry_key"

FieldLen ==
    CASE at = "version" -> 2
      [] at \in {"nonce_counter", "data_nonce_counter", "entry_data_counter"} -> 8
      [] at \in {"entry_count", "entry_name_length", "entry_data_length"} -> 4
      [] at = "entry_key" -> ENTRY_KEY_LEN
      [] at = "entry_name" -> LastValue("entry_name_length")
      [] at = "entry_data" -> LastValue("entry_data_length")
      [] at = "end" -> 0

Truncated ==
    /\ result = NULL
    /\ ~Fits(FieldLen)
    /\ Rejects("truncated")
    /\ UNCHANGED <<len, pos, read>>

ReadVersion ==
    \E v \in Version :
        /\ Take("version", 2, v)
        /\ IF v # VAULT_INDEX_VERSION
           THEN Rejects("version")
           ELSE Continues("nonce_counter")
                /\ UNCHANGED <<entry_count, files, capacity>>

ReadCounter ==
    /\ \E c \in Counter :
        \/ Take("nonce_counter", 8, c) /\ Continues("data_nonce_counter")
        \/ Take("data_nonce_counter", 8, c) /\ Continues("entry_count")
        \/ Take("entry_data_counter", 8, c) /\ Continues("entry_name_length")
    /\ UNCHANGED <<entry_count, files, capacity>>

\* Slip: multiplies before the count is known to be small.
SlipCountPlausible(n) == (n * MIN_ENTRY_LEN) % USIZE <= Remaining - 4

\* The bytes left after the count can hold that many entries.
CountPlausible(n) ==
    /\ n <= MAX_INDEX_ENTRIES
    /\ (n * MIN_ENTRY_LEN) % USIZE <= Remaining - 4

ReadEntryCount ==
    \E n \in Count :
        /\ Take("entry_count", 4, n)
        /\ IF ~CountPlausible(n)
           THEN Rejects("entry_count")
           ELSE /\ entry_count' = n
                /\ capacity' = n
                /\ Continues(NextEntry(0))
                /\ UNCHANGED files

ReadEntryKey ==
    /\ \E k \in EntryKey : Take("entry_key", ENTRY_KEY_LEN, k)
    /\ Continues("entry_data_counter")
    /\ UNCHANGED <<entry_count, files, capacity>>

ReadNameLen ==
    \E n \in CtLen :
        /\ Take("entry_name_length", 4, n)
        /\ IF n \notin NameLens
           THEN Rejects("entry_name_length")
           ELSE Continues("entry_name")
                /\ UNCHANGED <<entry_count, files, capacity>>

ReadName ==
    /\ at = "entry_name"
    /\ LET n == LastValue("entry_name_length") IN Take("entry_name", n, n)
    /\ Continues("entry_data_length")
    /\ UNCHANGED <<entry_count, files, capacity>>

\* Slip: takes the bound of the other ciphertext.
SlipReadDataLen ==
    \E n \in CtLen :
        /\ Take("entry_data_length", 4, n)
        /\ IF n \notin NameLens
           THEN Rejects("entry_data_length")
           ELSE Continues("entry_data")
                /\ UNCHANGED <<entry_count, files, capacity>>

ReadDataLen ==
    \E n \in CtLen :
        /\ Take("entry_data_length", 4, n)
        /\ IF n \notin DataLens
           THEN Rejects("entry_data_length")
           ELSE Continues("entry_data")
                /\ UNCHANGED <<entry_count, files, capacity>>

\* The last field of an entry, and its insertion in the map.
ReadData ==
    /\ at = "entry_data"
    /\ LET n == LastValue("entry_data_length")
           key == LastValue("entry_key")
           entry == [data_counter |-> LastValue("entry_data_counter"),
                     name_len |-> LastValue("entry_name_length"), data_len |-> n]
       IN /\ Take("entry_data", n, n)
          /\ IF key \in DOMAIN files
             THEN Rejects("duplicate_entry_key")
             ELSE /\ files' = [k \in DOMAIN files \cup {key} |->
                                 IF k = key THEN entry ELSE files[k]]
                  /\ UNCHANGED <<entry_count, capacity>>
                  /\ Continues(NextEntry(Cardinality(DOMAIN files')))

\* Slip: does not look behind the last entry.
SlipFinish ==
    /\ result = NULL
    /\ at = "end"
    /\ result' = "Ok"
    /\ UNCHANGED <<len, pos, at, entry_count, files, capacity, read>>

Finish ==
    /\ result = NULL
    /\ at = "end"
    /\ result' = IF Remaining # 0 THEN "trailing_bytes" ELSE "Ok"
    /\ UNCHANGED <<len, pos, at, entry_count, files, capacity, read>>

\* decode_index has returned.
Returned == result # NULL /\ UNCHANGED vars

Next ==
    \/ Truncated
    \/ ReadVersion
    \/ ReadCounter
    \/ ReadEntryCount
    \/ ReadEntryKey
    \/ ReadNameLen
    \/ ReadName
    \/ ReadDataLen
    \/ ReadData
    \/ Finish
    \/ Returned

Spec == Init /\ [][Next]_vars

-----------------------------------------------------------------------------
\* The cursor never passes the end of the input, and before anything is
\* allocated for the entries the input is known to be long enough for them
\* (DESIGN.md section 7: "before the map is allocated"), whatever the count
\* says and however it multiplies.
WithinInput ==
    /\ pos <= len
    /\ capacity * MIN_ENTRY_LEN <= len
    /\ Cardinality(DOMAIN files) <= capacity

\* The inputs encode_index can produce, with their lengths.
Encodings ==
    UNION {{[fields |-> EncodeIndex(c, d, es), len |-> EncodedLen(es),
             entries |-> es] : c \in Counter, d \in Counter} :
             es \in WritableEntries}

\* What decode_index accepts is byte for byte what encode_index writes for
\* the map it returns, in one order or another: no truncation, extension,
\* repeated key or length out of bounds gets through.
AcceptsOnlyEncodings ==
    result = "Ok" =>
        \E x \in Encodings :
            /\ x.fields = read
            /\ x.len = len
            /\ Len(x.entries) = Cardinality(DOMAIN files)
            /\ \A k \in DOMAIN x.entries :
                LET e == x.entries[k] IN
                files[e.key] = [data_counter |-> e.data_counter,
                                name_len |-> e.name_len,
                                data_len |-> e.data_len]

\* Nothing encode_index can write is rejected, at whatever field.
AcceptsEveryEncoding ==
    result \notin {NULL, "Ok"} =>
        ~\E x \in Encodings : x.len = len /\ IsPrefix(read, x.fields)
=============================================================================
