----------------------------- MODULE LegacyIndex ------------------------------
(***************************************************************************)
(* decode_index_v1 (src/vault/index_codec.rs): the JSON index of releases  *)
(* up to 0.2.1, read into the map the current decoder produces.            *)
(*                                                                         *)
(* A document is what serde_json accepts as an Index: a version and the    *)
(* members of the object "files" in the order of the text.  The same name  *)
(* may come twice in a JSON object; of a ciphertext only the length        *)
(* matters.  The loop takes the entries in the arbitrary order of a        *)
(* HashMap and stops at the first that breaks a rule.                      *)
(*                                                                         *)
(* A definition whose name begins with Slip is the one below it with a     *)
(* mistake in it; no action uses it.                                       *)
(***************************************************************************)
EXTENDS SequencesExt

CONSTANTS
    Document,       \* the inputs: [version, members]
    HexKey,         \* names of 64 lower-case hex digits
    NULL,
    MAX_ENTRY_NAME_LEN, MAX_ENTRY_DATA_SIZE, MAX_INDEX_ENTRIES

LEGACY_INDEX_VERSION_1 == 1
MIN_ENCRYPTED_LEN == 24 + 16
MAX_ENCRYPTED_NAME_LEN == MIN_ENCRYPTED_LEN + MAX_ENTRY_NAME_LEN
MAX_ENCRYPTED_DATA_LEN == MIN_ENCRYPTED_LEN + MAX_ENTRY_DATA_SIZE

\* The members of a document are a sequence of entries under their names.
ASSUME DocumentAssumption ==
    /\ MAX_INDEX_ENTRIES \in Nat
    /\ \A d \in Document : d.members \in Seq(Range(d.members))
    /\ NULL \notin {"Ok", "CorruptedData"}

VARIABLES
    doc,        \* the argument
    parsed,     \* the map serde made of its members, or NULL
    todo,       \* the names the loop has not taken yet
    files,      \* the map built so far
    result      \* what decode_index_v1 returns, or NULL

vars == <<doc, parsed, todo, files, result>>

Init ==
    /\ doc \in Document
    /\ parsed = NULL
    /\ todo = {}
    /\ files = <<>>
    /\ result = NULL

\* serde fills the map from the front, so the last of two members stays.
FromMembers(members) ==
    [key \in {m.key : m \in Range(members)} |->
        members[Max({k \in DOMAIN members : members[k].key = key})].meta]

Rejects ==
    /\ result' = "CorruptedData"
    /\ UNCHANGED <<doc, todo, files>>

FromSlice ==
    /\ parsed = NULL
    /\ parsed' = FromMembers(doc.members)
    /\ IF \/ doc.version # LEGACY_INDEX_VERSION_1
          \/ Cardinality(DOMAIN parsed') > MAX_INDEX_ENTRIES
       THEN Rejects
       ELSE todo' = DOMAIN parsed' /\ UNCHANGED <<doc, files, result>>

EntrySizesOk(meta) ==
    /\ meta.encrypted_name \in MIN_ENCRYPTED_LEN..MAX_ENCRYPTED_NAME_LEN
    /\ meta.encrypted_data \in MIN_ENCRYPTED_LEN..MAX_ENCRYPTED_DATA_LEN

\* Slip: skips what is incomplete.
SlipSkips(meta) == NULL \in {meta.encrypted_name, meta.encrypted_data}

\* Padding, dropped before anything else of it is looked at.
Skips(meta) == meta.is_dummy

EntryOk(key, meta) ==
    /\ key \in HexKey
    /\ NULL \notin {meta.encrypted_name, meta.encrypted_data}
    /\ EntrySizesOk(meta)

IndexEntry(meta) ==
    [data_counter |-> meta.data_counter, encrypted_name |-> meta.encrypted_name,
     encrypted_data |-> meta.encrypted_data]

Running == parsed # NULL /\ result = NULL

\* Slip: checks an entry before it looks whether it is padding.
SlipTakeEntry ==
    /\ Running
    /\ \E key \in todo :
        LET meta == parsed[key] IN
        IF EntryOk(key, meta)
        THEN /\ todo' = todo \ {key}
             /\ files' = IF Skips(meta) THEN files
                         ELSE [k \in DOMAIN files \cup {key} |->
                                  IF k = key THEN IndexEntry(meta) ELSE files[k]]
             /\ UNCHANGED <<doc, result>>
        ELSE Rejects
    /\ UNCHANGED parsed

TakeEntry ==
    /\ Running
    /\ \E key \in todo :
        LET meta == parsed[key] IN
        IF Skips(meta) \/ EntryOk(key, meta)
        THEN /\ todo' = todo \ {key}
             /\ files' = IF Skips(meta) THEN files
                         ELSE [k \in DOMAIN files \cup {key} |->
                                  IF k = key THEN IndexEntry(meta) ELSE files[k]]
             /\ UNCHANGED <<doc, result>>
        ELSE Rejects
    /\ UNCHANGED parsed

Finish ==
    /\ Running
    /\ todo = {}
    /\ result' = "Ok"
    /\ UNCHANGED <<doc, parsed, todo, files>>

Returned == result # NULL /\ UNCHANGED vars

Next == FromSlice \/ TakeEntry \/ Finish \/ Returned

Spec == Init /\ [][Next]_vars

-----------------------------------------------------------------------------
(***************************************************************************)
(* Properties, in terms of the members as they stand in the document.      *)
(***************************************************************************)
Members == Range(doc.members)
Superseded(k) == \E l \in DOMAIN doc.members : l > k /\ doc.members[l].key = doc.members[k].key
Effective == {doc.members[k] : k \in {k \in DOMAIN doc.members : ~Superseded(k)}}
Real == {m \in Effective : ~m.meta.is_dummy}

\* The current format can hold the entry: encode_index can write its key and
\* decode_index will read it back.
Storable(m) ==
    /\ m.key \in HexKey
    /\ m.meta.encrypted_name # NULL /\ m.meta.encrypted_data # NULL
    /\ EntrySizesOk(m.meta)

\* An accepted index has lost no entry: each real one is in the map, with its
\* counter and its ciphertexts, padding is not, and all of it can be written
\* in the current format ("rather than silently losing an entry", doc comment
\* of decode_index_v1 and DESIGN.md section 12).  Only of two members of one
\* name the first is dropped, without a word.
NoEntryLost ==
    result = "Ok" =>
        /\ DOMAIN files = {m.key : m \in Real}
        /\ \A m \in Real : Storable(m) /\ files[m.key] = IndexEntry(m.meta)
        /\ Cardinality(DOMAIN files) <= MAX_INDEX_ENTRIES

\* An index is rejected for its version, its size or a real entry, whatever
\* the order in which the loop met them; what padding carries is no reason.
RejectedForACause ==
    result = "CorruptedData" =>
        \/ doc.version # LEGACY_INDEX_VERSION_1
        \/ Cardinality({m.key : m \in Members}) > MAX_INDEX_ENTRIES
        \/ \E m \in Real : ~Storable(m)
=============================================================================
