------------------------------ MODULE VaultData ------------------------------
(***************************************************************************)
(* The data of a memseal vault: keys, sealed ciphertexts, index entries,   *)
(* the encrypted index and the exported blob, with the limits that every   *)
(* operation checks.                                                       *)
(*                                                                         *)
(* Cryptography is symbolic.  A key is the pair (password, header) it is   *)
(* derived from, an entry key is the pair (key, name) it is the HMAC of,   *)
(* and a ciphertext is the record of what was sealed: it opens exactly     *)
(* under the key, nonce and associated data it was sealed with.  A value   *)
(* of the system's random number generator is a natural number, and no two *)
(* draws return the same number.                                           *)
(*                                                                         *)
(* A definition whose name begins with Slip is the one below it with a     *)
(* mistake in it; nothing uses it.                                         *)
(***************************************************************************)
EXTENDS FiniteSetsExt

CONSTANTS
    Name,       \* entry names
    Value,      \* plaintexts
    Password,   \* passwords
    NULL,       \* no vault, no pending call, no value
    NameLen,    \* byte length of each name
    DataLen,    \* byte length of each plaintext
    PasswordLen,            \* byte length of each password
    MIN_PASSWORD_LEN,       \* 8 in the code
    MAX_ENTRY_NAME_LEN,     \* 255
    MAX_ENTRY_DATA_SIZE,    \* 64 MiB
    MAX_INDEX_ENTRIES,      \* 1024
    MAX_VAULT_FILE_SIZE,    \* 256 MiB
    MAX_U64,                \* 2^64 - 1
    HeaderJsonLen           \* length of the header's JSON, about 150 bytes

ASSUME LengthsAssumption ==
    /\ NameLen \in [Name -> Nat]
    /\ DataLen \in [Value -> Nat]
    /\ PasswordLen \in [Password -> Nat]
    /\ HeaderJsonLen \in Nat

\* A vault that is re-keyed numbers its entries from 0 again, so the counter
\* has to count at least as far as a full map holds entries.
ASSUME LimitsAssumption ==
    /\ {MIN_PASSWORD_LEN, MAX_ENTRY_NAME_LEN, MAX_ENTRY_DATA_SIZE} \subseteq Nat
    /\ {MAX_INDEX_ENTRIES, MAX_VAULT_FILE_SIZE, MAX_U64} \subseteq Nat
    /\ MAX_INDEX_ENTRIES <= MAX_U64

VAULT_VERSION == 2
LEGACY_VAULT_VERSION_1 == 1
SUPPORTED_VAULT_VERSIONS == {LEGACY_VAULT_VERSION_1, VAULT_VERSION}
VAULT_INDEX_VERSION == 2
LEGACY_INDEX_VERSION_1 == 1

XCHACHA20_NONCE_LEN == 24
POLY1305_OUTSIZE == 16
INDEX_PREAMBLE_LEN == 2 + 8 + 8 + 4
ENTRY_FIXED_LEN == 32 + 8 + 4 + 4

U64 == 0..MAX_U64
Random == Nat

-----------------------------------------------------------------------------
(***************************************************************************)
(* Keys and ciphertexts.                                                   *)
(***************************************************************************)

\* The KDF parameters are the same in every header the library generates.
Header == [version : SUPPORTED_VAULT_VERSIONS, kdf_salt : Random]

\* Argon2 and HKDF.  The version selects the KDF, so it is part of the key;
\* the encryption and the HMAC subkey come from the same master key and are
\* told apart by where they are used.
Key == [password : Password, header : Header]
DeriveKey(password, header) == [password |-> password, header |-> header]

HmacKey == [key : Key, name : Name]
HmacKeyForName(key, name) == [key |-> key, name |-> name]

EntryAad == [hmac_key : HmacKey, data_counter : U64]
BuildEntryAad(hmac_key, data_counter) ==
    [hmac_key |-> hmac_key, data_counter |-> data_counter]

\* A ciphertext is kept together with the nonce it was sealed under (the
\* 24-byte prefix of an entry's blobs, the nonce field of the envelope).
SealWithAad(key, nonce, text, aad) ==
    [key |-> key, nonce |-> nonce, text |-> text, aad |-> aad]

OpensWithAad(key, nonce, sealed, aad) ==
    /\ sealed.key = key
    /\ sealed.nonce = nonce
    /\ sealed.aad = aad

-----------------------------------------------------------------------------
(***************************************************************************)
(* Index entries.  The map from HMAC keys to entries is a function whose   *)
(* domain is the set of keys present.                                      *)
(***************************************************************************)

IndexEntry ==
    [data_counter   : U64,
     encrypted_name : [key : Key, nonce : Random, text : Name, aad : EntryAad],
     encrypted_data : [key : Key, nonce : Random, text : Value, aad : EntryAad]]

IsFiles(files) ==
    /\ DOMAIN files \subseteq HmacKey
    /\ files \in [DOMAIN files -> IndexEntry]

NoFiles == [t \in {} |-> NULL]

InsertByKey(files, hmac_key, entry) ==
    [t \in DOMAIN files \cup {hmac_key} |->
        IF t = hmac_key THEN entry ELSE files[t]]

RemoveByKey(files, hmac_key) == Restrict(files, DOMAIN files \ {hmac_key})

\* Slip: an overwrite at the cap is refused too.
SlipMapFull(files, hmac_key) == Cardinality(DOMAIN files) >= MAX_INDEX_ENTRIES

\* An overwrite is allowed at the cap: the map does not grow.
MapFull(files, hmac_key) ==
    /\ hmac_key \notin DOMAIN files
    /\ Cardinality(DOMAIN files) >= MAX_INDEX_ENTRIES

\* Both ciphertexts of the entry at hmac_key open under the vault's key.
EntryOpens(key, hmac_key, entry) ==
    LET aad == BuildEntryAad(hmac_key, entry.data_counter) IN
    /\ OpensWithAad(key, entry.encrypted_name.nonce, entry.encrypted_name, aad)
    /\ OpensWithAad(key, entry.encrypted_data.nonce, entry.encrypted_data, aad)

EncryptedNameLen(entry) ==
    XCHACHA20_NONCE_LEN + NameLen[entry.encrypted_name.text] + POLY1305_OUTSIZE
EncryptedDataLen(entry) ==
    XCHACHA20_NONCE_LEN + DataLen[entry.encrypted_data.text] + POLY1305_OUTSIZE

\* The decoders' bounds on the two ciphertexts, in terms of the plaintexts.
EntrySizesOk(entry) ==
    /\ NameLen[entry.encrypted_name.text] <= MAX_ENTRY_NAME_LEN
    /\ DataLen[entry.encrypted_data.text] <= MAX_ENTRY_DATA_SIZE

-----------------------------------------------------------------------------
(***************************************************************************)
(* The plaintext index inside an exported blob, in the current format and  *)
(* in the format of releases up to 0.2.1, and the decoders' verdicts.      *)
(***************************************************************************)

\* The four bytes of header length, header, nonce, and the sealed index.
ExportLen(files) ==
    4 + HeaderJsonLen + XCHACHA20_NONCE_LEN
      + INDEX_PREAMBLE_LEN
      + SumFunction([t \in DOMAIN files |-> ENTRY_FIXED_LEN
                                              + EncryptedNameLen(files[t])
                                              + EncryptedDataLen(files[t])])
      + POLY1305_OUTSIZE

\* Slip: writes the number of entries in place of the counter.
SlipEncodeIndex(index) ==
    [version            |-> VAULT_INDEX_VERSION,
     nonce_counter      |-> index.nonce_counter,
     data_nonce_counter |-> Cardinality(DOMAIN index.files),
     files              |-> index.files]

EncodeIndex(index) ==
    [version            |-> VAULT_INDEX_VERSION,
     nonce_counter      |-> index.nonce_counter,
     data_nonce_counter |-> index.data_nonce_counter,
     files              |-> index.files]

DecodeIndexAccepts(data) ==
    /\ data.version = VAULT_INDEX_VERSION
    /\ Cardinality(DOMAIN data.files) <= MAX_INDEX_ENTRIES
    /\ \A t \in DOMAIN data.files : EntrySizesOk(data.files[t])

\* Format 1: padding entries are counted against the cap, then dropped.
RealEntriesV1(files) == {t \in DOMAIN files : ~files[t].is_dummy}

DecodeIndexV1Accepts(data) ==
    /\ data.version = LEGACY_INDEX_VERSION_1
    /\ Cardinality(DOMAIN data.files) <= MAX_INDEX_ENTRIES
    /\ \A t \in RealEntriesV1(data.files) : EntrySizesOk(data.files[t])

DecodeIndexV1Files(files) ==
    [t \in RealEntriesV1(files) |->
        [data_counter   |-> files[t].data_counter,
         encrypted_name |-> files[t].encrypted_name,
         encrypted_data |-> files[t].encrypted_data]]

DecoderAccepts(version, data) ==
    IF version = LEGACY_VAULT_VERSION_1
        THEN DecodeIndexV1Accepts(data)
        ELSE DecodeIndexAccepts(data)

DecodedFiles(version, data) ==
    IF version = LEGACY_VAULT_VERSION_1
        THEN DecodeIndexV1Files(data.files)
        ELSE data.files

\* The counter is ahead of every entry that was numbered from it.
CounterAheadOf(data_nonce_counter, files) ==
    \A t \in DOMAIN files : files[t].data_counter < data_nonce_counter

-----------------------------------------------------------------------------
(***************************************************************************)
(* What a map of entries says under a key: the names it holds and their    *)
(* plaintexts.  An entry that does not open has the value NULL.            *)
(***************************************************************************)
Contents(key, files) ==
    [n \in {m \in Name : HmacKeyForName(key, m) \in DOMAIN files} |->
        LET t == HmacKeyForName(key, n) IN
        IF EntryOpens(key, t, files[t]) THEN files[t].encrypted_data.text
                                        ELSE NULL]
=============================================================================
