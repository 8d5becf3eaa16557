-------------------------------- MODULE Vault --------------------------------
(***************************************************************************)
(* Vault objects and the bytes they export (src/vault/facade.rs and        *)
(* src/vault/vault_index.rs).                                              *)
(*                                                                         *)
(* Inst is the set of places a vault object can live: a variable of one    *)
(* process or of several.  Two of them opened from the same exported bytes *)
(* are forks that do not know of each other.  A call takes &mut self, so   *)
(* calls on one object do not overlap and a call on one object reads       *)
(* nothing of another: a call is one action.  The exception is re-keying,  *)
(* whose loop over the entries may fail half way: it has a step for every  *)
(* entry, and the process may die between two of them.                     *)
(*                                                                         *)
(* exports is every blob that was ever returned by a call: files are       *)
(* copied, kept as backups and reopened in any order.  It starts with      *)
(* LegacyFiles, vaults written by releases up to 0.2.1.                    *)
(*                                                                         *)
(* A definition whose name begins with Slip is the one below it with a     *)
(* mistake in it.  No action uses it: it is there to show that the         *)
(* properties tell the two apart.                                          *)
(***************************************************************************)
EXTENDS VaultData

CONSTANTS
    Inst,
    LegacyFiles,    \* blobs of format version 1 that exist at the start
    LegacyDraws,    \* the random values those blobs use are 1..LegacyDraws
    MaxDraws,       \* bound: random values drawn in a behaviour
    MaxExports      \* bound: blobs in a behaviour

VARIABLES
    vault,      \* vault[i]: the open vault of i, or NULL
    rekey,      \* rekey[i]: the loop of a pending rekey call of i, or NULL
    exports,    \* the blobs exported so far
    drawn,      \* the random values 1..drawn have been drawn
    ret,        \* the result of the last call that returned
    seen,       \* history: the blobs i's vault was read from or written to
    ancestry    \* history: for every blob, the blobs it descends from

vars == <<vault, rekey, exports, drawn, ret, seen, ancestry>>

\* A 0.2.1 vault is whole: it was sealed under the key of its header, its
\* real entries open under that key, and its counter is ahead of them.
IsLegacyFile(b) ==
    LET c == b.encrypted_index
        d == c.text
        real == DecodeIndexV1Files(d.files)
    IN /\ b.len \in Nat
       /\ b.header \in Header
       /\ b.header.version = LEGACY_VAULT_VERSION_1
       /\ b.nonce \in 1..LegacyDraws
       /\ c.key \in Key
       /\ c.key.header = b.header
       /\ OpensWithAad(c.key, b.nonce, c, b.header)
       /\ d.nonce_counter \in U64
       /\ d.data_nonce_counter \in U64
       /\ b.len <= MAX_VAULT_FILE_SIZE
       /\ DecodeIndexV1Accepts(d)
       /\ IsFiniteSet(DOMAIN d.files)
       /\ IsFiles(real)
       /\ CounterAheadOf(d.data_nonce_counter, real)
       /\ \A t \in DOMAIN real :
            /\ t = HmacKeyForName(c.key, real[t].encrypted_name.text)
            /\ EntryOpens(c.key, t, real[t])
            /\ real[t].encrypted_name.nonce \in 1..LegacyDraws
            /\ real[t].encrypted_data.nonce \in 1..LegacyDraws

ASSUME LegacyAssumption ==
    /\ \A b \in LegacyFiles : IsLegacyFile(b)
    /\ LegacyDraws \in Nat

-----------------------------------------------------------------------------
(***************************************************************************)
(* The vault as a value.                                                   *)
(***************************************************************************)

\* Vault::create and the first half of rekey: a fresh salt and a fresh index
\* nonce, both counters at 0, no entries.
NewVault(password, salt, nonce) ==
    LET header == [version |-> VAULT_VERSION, kdf_salt |-> salt] IN
    [header |-> header, key |-> DeriveKey(password, header), nonce |-> nonce,
     nonce_counter |-> 0, data_nonce_counter |-> 0, files |-> NoFiles]

\* Slip: continues after the largest stored counter, not where the file says.
SlipOpenedVault(password, b) ==
    LET data  == b.encrypted_index.text
        files == DecodedFiles(b.header.version, data)
    IN [header |-> b.header, key |-> DeriveKey(password, b.header),
        nonce |-> b.nonce,
        nonce_counter |-> data.nonce_counter,
        data_nonce_counter |->
            IF files = NoFiles THEN 0
            ELSE 1 + Max({files[t].data_counter : t \in DOMAIN files}),
        files |-> files]

\* The vault Vault::open reconstructs from a blob that passed every check.
OpenedVault(password, b) ==
    LET data == b.encrypted_index.text IN
    [header |-> b.header, key |-> DeriveKey(password, b.header),
     nonce |-> b.nonce,
     nonce_counter |-> data.nonce_counter,
     data_nonce_counter |-> data.data_nonce_counter,
     files |-> DecodedFiles(b.header.version, data)]

\* Slip: binds the entry to the counter after it was advanced.
SlipSealEntry(v, n, x, data_nonce, name_nonce) ==
    LET aad == BuildEntryAad(HmacKeyForName(v.key, n), v.data_nonce_counter + 1) IN
    [data_counter   |-> v.data_nonce_counter,
     encrypted_name |-> SealWithAad(v.key, name_nonce, n, aad),
     encrypted_data |-> SealWithAad(v.key, data_nonce, x, aad)]

\* The entry `store' builds: both ciphertexts bound to the entry's key and
\* to the counter value it took.
SealEntry(v, n, x, data_nonce, name_nonce) ==
    LET aad == BuildEntryAad(HmacKeyForName(v.key, n), v.data_nonce_counter) IN
    [data_counter   |-> v.data_nonce_counter,
     encrypted_name |-> SealWithAad(v.key, name_nonce, n, aad),
     encrypted_data |-> SealWithAad(v.key, data_nonce, x, aad)]

\* Slip: takes the counter without advancing it.
SlipStoredIn(v, n, x, data_nonce, name_nonce) ==
    [v EXCEPT !.files = InsertByKey(@, HmacKeyForName(v.key, n),
                            SealEntry(v, n, x, data_nonce, name_nonce))]

\* next_data_nonce_counter and insert_by_key, when both succeed.
StoredIn(v, n, x, data_nonce, name_nonce) ==
    [v EXCEPT !.data_nonce_counter = @ + 1,
              !.files = InsertByKey(@, HmacKeyForName(v.key, n),
                            SealEntry(v, n, x, data_nonce, name_nonce))]

\* Slip: the counter is incremented without checked_add.
SlipStoreVerdict(v, n, x) ==
    IF NameLen[n] > MAX_ENTRY_NAME_LEN \/ DataLen[x] > MAX_ENTRY_DATA_SIZE
        THEN "InvalidInput"
    ELSE "Ok"

\* What the checks at the start of store return, before anything changes.
StoreVerdict(v, n, x) ==
    IF NameLen[n] > MAX_ENTRY_NAME_LEN \/ DataLen[x] > MAX_ENTRY_DATA_SIZE
        THEN "InvalidInput"
    ELSE IF v.data_nonce_counter >= MAX_U64 THEN "CryptoError"
    ELSE "Ok"

\* The bytes export returns for a vault whose nonce has just been advanced.
ExportedBlob(v) ==
    [len |-> ExportLen(v.files), header |-> v.header, nonce |-> v.nonce,
     encrypted_index |-> SealWithAad(v.key, v.nonce, EncodeIndex(v), v.header)]

\* Slip: measures the part after the header only.
SlipValidExportSize(b) == b.len - HeaderJsonLen <= MAX_VAULT_FILE_SIZE

ValidExportSize(b) == b.len <= MAX_VAULT_FILE_SIZE

\* Vault::open's verdict, in the order of its checks.
OpenResult(password, b) ==
    LET key == DeriveKey(password, b.header)
        c   == b.encrypted_index
    IN IF ~(b.len <= MAX_VAULT_FILE_SIZE)
          \/ b.header.version \notin SUPPORTED_VAULT_VERSIONS
          THEN "CorruptedData"
       ELSE IF ~OpensWithAad(key, b.nonce, c, b.header)
          THEN "InvalidPassword"
       ELSE IF ~DecoderAccepts(b.header.version, c.text)
               \/ ~CounterAheadOf(c.text.data_nonce_counter,
                                  DecodedFiles(b.header.version, c.text))
          THEN "CorruptedData"
       ELSE "Ok"

LongEnough(password) == PasswordLen[password] >= MIN_PASSWORD_LEN

-----------------------------------------------------------------------------
Init ==
    /\ vault = [i \in Inst |-> NULL]
    /\ rekey = [i \in Inst |-> NULL]
    /\ exports = LegacyFiles
    /\ drawn = LegacyDraws
    /\ ret = NULL
    /\ seen = [i \in Inst |-> {}]
    /\ ancestry = [b \in LegacyFiles |-> {}]

Returns(i, call, result, value) ==
    ret' = [inst |-> i, call |-> call, result |-> result, value |-> value]

Idle(i) == rekey[i] = NULL
Open(i) == vault[i] # NULL /\ Idle(i)
Absent(i) == vault[i] = NULL /\ Idle(i)

\* k calls of secure_bytes_fill return drawn + 1 .. drawn + k.
Draw(k) == drawn' = drawn + k /\ drawn + k <= MaxDraws

\* The call returns an error and leaves everything as it found it.
Fails(i, call, error) ==
    /\ Returns(i, call, error, NULL)
    /\ UNCHANGED <<vault, rekey, exports, drawn, seen, ancestry>>

-----------------------------------------------------------------------------
(***************************************************************************)
(* create and open.                                                        *)
(***************************************************************************)
Create(i, password) ==
    /\ Absent(i)
    /\ LongEnough(password)
    /\ Draw(2)
    /\ vault' = [vault EXCEPT ![i] = NewVault(password, drawn + 1, drawn + 2)]
    /\ Returns(i, <<"create", password>>, "Ok", NULL)
    /\ UNCHANGED <<rekey, exports, seen, ancestry>>

CreateRefused(i, password) ==
    /\ Absent(i)
    /\ ~LongEnough(password)
    /\ Fails(i, <<"create", password>>, "InvalidInput")

\* The generator, the KDF, or the locked memory for the two subkeys fails in
\* create, in open, or before the loop of a rekey.
KeySetupFails(i, p, q) ==
    \/ Absent(i) /\ LongEnough(p) /\ Fails(i, <<"create", p>>, "CryptoError")
    \/ Absent(i) /\ exports # {} /\ Fails(i, <<"open", p>>, "CryptoError")
    \/ /\ Open(i)
       /\ LongEnough(q)
       /\ Fails(i, <<"change_password", p, q>>, "CryptoError")

\* Slip: uses a version 1 file as it is.
SlipOpenCurrent(i, password, b) ==
    /\ Absent(i)
    /\ OpenResult(password, b) = "Ok"
    /\ vault' = [vault EXCEPT ![i] = OpenedVault(password, b)]
    /\ seen' = [seen EXCEPT ![i] = {b} \cup ancestry[b]]
    /\ Returns(i, <<"open", password>>, "Ok", NULL)
    /\ UNCHANGED <<rekey, exports, drawn, ancestry>>

OpenCurrent(i, password, b) ==
    /\ Absent(i)
    /\ OpenResult(password, b) = "Ok"
    /\ b.header.version = VAULT_VERSION
    /\ vault' = [vault EXCEPT ![i] = OpenedVault(password, b)]
    /\ seen' = [seen EXCEPT ![i] = {b} \cup ancestry[b]]
    /\ Returns(i, <<"open", password>>, "Ok", NULL)
    /\ UNCHANGED <<rekey, exports, drawn, ancestry>>

OpenRefused(i, password, b) ==
    /\ Absent(i)
    /\ OpenResult(password, b) # "Ok"
    /\ Fails(i, <<"open", password>>, OpenResult(password, b))

-----------------------------------------------------------------------------
(***************************************************************************)
(* store, retrieve and remove.                                             *)
(***************************************************************************)
Store(i, n, x) ==
    /\ Open(i)
    /\ StoreVerdict(vault[i], n, x) = "Ok"
    /\ ~MapFull(vault[i].files, HmacKeyForName(vault[i].key, n))
    /\ Draw(2)
    /\ vault' = [vault EXCEPT ![i] = StoredIn(@, n, x, drawn + 1, drawn + 2)]
    /\ Returns(i, <<"store", n, x>>, "Ok", NULL)
    /\ UNCHANGED <<rekey, exports, seen, ancestry>>

StoreRefused(i, n, x) ==
    /\ Open(i)
    /\ StoreVerdict(vault[i], n, x) # "Ok"
    /\ Fails(i, <<"store", n, x>>, StoreVerdict(vault[i], n, x))

\* The counter has advanced when the generator fails or the map turns out to
\* be full: the call fails and the counter value it took is never used.
StoreWastesCounter(i, n, x) ==
    /\ Open(i)
    /\ StoreVerdict(vault[i], n, x) = "Ok"
    /\ vault' = [vault EXCEPT ![i].data_nonce_counter = @ + 1]
    /\ \/ Returns(i, <<"store", n, x>>, "CryptoError", NULL)
       \/ /\ MapFull(vault[i].files, HmacKeyForName(vault[i].key, n))
          /\ Returns(i, <<"store", n, x>>, "InvalidInput", NULL)
    /\ UNCHANGED <<rekey, exports, drawn, seen, ancestry>>

\* NULL is Ok(None).
Retrieve(i, n) ==
    /\ Open(i)
    /\ LET t == HmacKeyForName(vault[i].key, n)
           files == vault[i].files
           c == files[t].encrypted_data
           aad == BuildEntryAad(t, files[t].data_counter)
       IN IF t \notin DOMAIN files THEN Returns(i, <<"retrieve", n>>, "Ok", NULL)
          ELSE IF OpensWithAad(vault[i].key, c.nonce, c, aad)
               THEN Returns(i, <<"retrieve", n>>, "Ok", c.text)
          ELSE Returns(i, <<"retrieve", n>>, "CryptoError", NULL)
    /\ UNCHANGED <<vault, rekey, exports, drawn, seen, ancestry>>

Remove(i, n) ==
    /\ Open(i)
    /\ LET t == HmacKeyForName(vault[i].key, n) IN
       /\ vault' = [vault EXCEPT ![i].files = RemoveByKey(@, t)]
       /\ Returns(i, <<"remove", n>>, "Ok", t \in DOMAIN vault[i].files)
    /\ UNCHANGED <<rekey, exports, drawn, seen, ancestry>>

-----------------------------------------------------------------------------
(***************************************************************************)
(* export.  The counter and the nonce advance before anything can fail for *)
(* another reason, so a failed export leaves them advanced.                *)
(***************************************************************************)
\* Slip: advances the counter only.
SlipStaleNonce(v, nonce) == [v EXCEPT !.nonce_counter = @ + 1]

\* Slip: advances the nonce only.
SlipStaleCounter(v, nonce) == [v EXCEPT !.nonce = nonce]

AdvanceNonce(v, nonce) ==
    [v EXCEPT !.nonce_counter = @ + 1, !.nonce = nonce]

Export(i) ==
    /\ Open(i)
    /\ vault[i].nonce_counter < MAX_U64
    /\ Cardinality(exports) < MaxExports
    /\ Draw(1)
    /\ LET v == AdvanceNonce(vault[i], drawn + 1)
           b == ExportedBlob(v)
       IN /\ ValidExportSize(b)
          /\ vault' = [vault EXCEPT ![i] = v]
          /\ exports' = exports \cup {b}
          /\ ancestry' = [c \in exports \cup {b} |->
                            IF c = b THEN seen[i] ELSE ancestry[c]]
          /\ seen' = [seen EXCEPT ![i] = @ \cup {b}]
    /\ Returns(i, <<"export">>, "Ok", NULL)
    /\ UNCHANGED rekey

ExportTooLarge(i) ==
    /\ Open(i)
    /\ vault[i].nonce_counter < MAX_U64
    /\ Draw(1)
    /\ LET v == AdvanceNonce(vault[i], drawn + 1)
       IN /\ ~ValidExportSize(ExportedBlob(v))
          /\ vault' = [vault EXCEPT ![i] = v]
    /\ Returns(i, <<"export">>, "SerializationError", NULL)
    /\ UNCHANGED <<rekey, exports, seen, ancestry>>

ExportOverflows(i) ==
    /\ Open(i)
    /\ vault[i].nonce_counter >= MAX_U64
    /\ Fails(i, <<"export">>, "CryptoError")

ExportWastesCounter(i) ==
    /\ Open(i)
    /\ vault[i].nonce_counter < MAX_U64
    /\ vault' = [vault EXCEPT ![i].nonce_counter = @ + 1]
    /\ Returns(i, <<"export">>, "CryptoError", NULL)
    /\ UNCHANGED <<rekey, exports, drawn, seen, ancestry>>

-----------------------------------------------------------------------------
(***************************************************************************)
(* Re-keying: change_password, and open on a file of format version 1.  A  *)
(* new vault is built beside the old one, entry by entry in the arbitrary  *)
(* order of the map, and takes its place once every entry is in it.        *)
(***************************************************************************)
\* Slip: the new vault goes on counting where the old one stood.
SlipBeginRekey(i, call, old, password) ==
    /\ Draw(2)
    /\ rekey' = [rekey EXCEPT ![i] =
                    [call |-> call, old |-> old,
                     new  |-> [NewVault(password, drawn + 1, drawn + 2) EXCEPT
                                  !.data_nonce_counter = old.data_nonce_counter],
                     todo |-> DOMAIN old.files]]

BeginRekey(i, call, old, password) ==
    /\ Draw(2)
    /\ rekey' = [rekey EXCEPT ![i] =
                    [call |-> call, old |-> old,
                     new  |-> NewVault(password, drawn + 1, drawn + 2),
                     todo |-> DOMAIN old.files]]

OpenLegacy(i, password, b) ==
    /\ Absent(i)
    /\ OpenResult(password, b) = "Ok"
    /\ b.header.version = LEGACY_VAULT_VERSION_1
    /\ BeginRekey(i, <<"open", password>>, OpenedVault(password, b), password)
    /\ seen' = [seen EXCEPT ![i] = {b} \cup ancestry[b]]
    /\ UNCHANGED <<vault, exports, ret, ancestry>>

VerifyPassword(v, password) == DeriveKey(password, v.header) = v.key

ChangePasswordRefused(i, current, new) ==
    /\ Open(i)
    /\ \/ ~LongEnough(new) /\ Fails(i, <<"change_password", current, new>>, "InvalidInput")
       \/ /\ LongEnough(new)
          /\ ~VerifyPassword(vault[i], current)
          /\ Fails(i, <<"change_password", current, new>>, "InvalidPassword")

ChangePassword(i, current, new) ==
    /\ Open(i)
    /\ LongEnough(new)
    /\ VerifyPassword(vault[i], current)
    /\ BeginRekey(i, <<"change_password", current, new>>, vault[i], new)
    /\ UNCHANGED <<vault, exports, ret, seen, ancestry>>

RekeyEntry(i) ==
    /\ ~Idle(i)
    /\ \E t \in rekey[i].todo :
        LET old == rekey[i].old
            new == rekey[i].new
            n == old.files[t].encrypted_name.text
            x == old.files[t].encrypted_data.text
        IN /\ EntryOpens(old.key, t, old.files[t])
           /\ StoreVerdict(new, n, x) = "Ok"
           /\ ~MapFull(new.files, HmacKeyForName(new.key, n))
           /\ Draw(2)
           /\ rekey' = [rekey EXCEPT
                           ![i].new = StoredIn(@, n, x, drawn + 1, drawn + 2),
                           ![i].todo = @ \ {t}]
    /\ UNCHANGED <<vault, exports, ret, seen, ancestry>>

\* How the call that tries the entry at t may fail: the generator at any
\* entry, the ciphertext that does not open, the store into the new vault.
RekeyErrors(r, t) ==
    LET n == r.old.files[t].encrypted_name.text
        x == r.old.files[t].encrypted_data.text
    IN {"CryptoError"} \cup
       {e \in {"InvalidInput"} :
            /\ EntryOpens(r.old.key, t, r.old.files[t])
            /\ \/ StoreVerdict(r.new, n, x) = e
               \/ MapFull(r.new.files, HmacKeyForName(r.new.key, n))}

RekeyAborts(i) ==
    /\ ~Idle(i)
    /\ \E t \in rekey[i].todo : \E e \in RekeyErrors(rekey[i], t) :
            Returns(i, rekey[i].call, e, NULL)
    /\ rekey' = [rekey EXCEPT ![i] = NULL]
    /\ seen' = [seen EXCEPT ![i] = IF vault[i] = NULL THEN {} ELSE @]
    /\ UNCHANGED <<vault, exports, drawn, ancestry>>

\* Slip: the new vault takes over before every entry is in it.
SlipRekeyCommit(i) ==
    /\ ~Idle(i)
    /\ vault' = [vault EXCEPT ![i] = rekey[i].new]
    /\ rekey' = [rekey EXCEPT ![i] = NULL]
    /\ Returns(i, rekey[i].call, "Ok", NULL)
    /\ UNCHANGED <<exports, drawn, seen, ancestry>>

RekeyCommit(i) ==
    /\ ~Idle(i)
    /\ rekey[i].todo = {}
    /\ vault' = [vault EXCEPT ![i] = rekey[i].new]
    /\ rekey' = [rekey EXCEPT ![i] = NULL]
    /\ Returns(i, rekey[i].call, "Ok", NULL)
    /\ UNCHANGED <<exports, drawn, seen, ancestry>>

-----------------------------------------------------------------------------
\* The object is dropped, or its process dies in the middle of a call.
Crash(i) ==
    /\ vault[i] # NULL \/ ~Idle(i)
    /\ vault' = [vault EXCEPT ![i] = NULL]
    /\ rekey' = [rekey EXCEPT ![i] = NULL]
    /\ seen' = [seen EXCEPT ![i] = {}]
    /\ UNCHANGED <<exports, drawn, ret, ancestry>>

Next ==
    \E i \in Inst :
        \/ \E p \in Password :
            \/ Create(i, p)
            \/ CreateRefused(i, p)
            \/ \E b \in exports : \/ OpenCurrent(i, p, b)
                                  \/ OpenLegacy(i, p, b)
                                  \/ OpenRefused(i, p, b)
            \/ \E q \in Password : \/ ChangePassword(i, p, q)
                                   \/ ChangePasswordRefused(i, p, q)
                                   \/ KeySetupFails(i, p, q)
        \/ \E n \in Name :
            \/ Retrieve(i, n)
            \/ Remove(i, n)
            \/ \E x \in Value : \/ Store(i, n, x)
                                \/ StoreRefused(i, n, x)
                                \/ StoreWastesCounter(i, n, x)
        \/ Export(i)
        \/ ExportTooLarge(i)
        \/ ExportOverflows(i)
        \/ ExportWastesCounter(i)
        \/ RekeyEntry(i)
        \/ RekeyAborts(i)
        \/ RekeyCommit(i)
        \/ Crash(i)

Spec == Init /\ [][Next]_vars

-----------------------------------------------------------------------------
(***************************************************************************)
(* Properties.                                                             *)
(***************************************************************************)
IsVault(v) ==
    /\ v \in [header : Header, key : Key, nonce : Random, nonce_counter : U64,
               data_nonce_counter : U64, files : {v.files}]
    /\ IsFiles(v.files)

IsRekey(r) ==
    /\ r \in [call : {r.call}, old : {r.old}, new : {r.new}, todo : SUBSET DOMAIN r.old.files]
    /\ IsVault(r.old)
    /\ IsVault(r.new)

\* A blob that export returned.
IsExport(b) ==
    LET c == b.encrypted_index
        d == c.text
    IN /\ b \in [len : {b.len}, header : Header, nonce : Random,
                  encrypted_index : {c}]
       /\ ValidExportSize(b)
       /\ c \in [key : Key, nonce : Random, text : {d}, aad : Header]
       /\ d \in [version : {VAULT_INDEX_VERSION}, nonce_counter : U64,
                  data_nonce_counter : U64, files : {d.files}]
       /\ IsFiles(d.files)

\* Type correctness: in particular no counter passes u64::MAX, in a vault, in
\* a half re-keyed one, or in a blob (checked_add in vault_index.rs).
TypeOK ==
    /\ DOMAIN vault = Inst
    /\ DOMAIN rekey = Inst
    /\ \A i \in Inst : vault[i] = NULL \/ IsVault(vault[i])
    /\ \A i \in Inst : rekey[i] = NULL \/ IsRekey(rekey[i])
    /\ \A b \in exports : b \in LegacyFiles \/ IsExport(b)
    /\ drawn \in Nat
    /\ seen \in [Inst -> SUBSET exports]
    /\ ancestry \in [exports -> SUBSET exports]

LiveVaults ==
    {vault[i] : i \in {j \in Inst : vault[j] # NULL}}
    \cup UNION {{rekey[i].old, rekey[i].new} : i \in {j \in Inst : ~Idle(j)}}

\* data_nonce_counter is past every entry that is stored, in memory and in
\* every blob: the check from_subkeys_and_data makes on the way in.
CounterAhead ==
    /\ \A v \in LiveVaults : CounterAheadOf(v.data_nonce_counter, v.files)
    /\ \A b \in exports :
        LET d == b.encrypted_index.text IN
        CounterAheadOf(d.data_nonce_counter, DecodedFiles(b.header.version, d))

\* Every entry of every vault is filed under the HMAC key of its own name and
\* opens under the vault's key with the counter stored beside it, however far
\* a re-key has come.
WellSealed(key, files) ==
    \A t \in DOMAIN files :
        /\ t = HmacKeyForName(key, files[t].encrypted_name.text)
        /\ EntryOpens(key, t, files[t])

EveryEntryOpens ==
    /\ \A v \in LiveVaults : v.key.header = v.header /\ WellSealed(v.key, v.files)
    /\ \A b \in exports :
        WellSealed(b.encrypted_index.key,
                   DecodedFiles(b.header.version, b.encrypted_index.text))

\* Whatever export returned, in this life of the process or an earlier one,
\* opens with the password it was sealed under and is refused as a wrong
\* password, never as corrupted, with any other (export's size check and the
\* bounds of open agree; DESIGN.md section 10).
EveryExportReopens ==
    \A b \in exports :
        \A p \in Password :
            OpenResult(p, b) = IF p = b.encrypted_index.key.password
                                   THEN "Ok" ELSE "InvalidPassword"

SealedIn(files) ==
    UNION {{files[t].encrypted_name, files[t].encrypted_data} : t \in DOMAIN files}

AllSealed ==
    (UNION {SealedIn(v.files) : v \in LiveVaults})
    \cup {b.encrypted_index : b \in exports}
    \cup (UNION {SealedIn(DecodedFiles(b.header.version, b.encrypted_index.text)) :
                     b \in exports})

\* No nonce serves two ciphertexts under one key: not in forks opened from
\* the same blob, whose counters advance in step, and not after a failed
\* export (the reason advance_nonce and store draw random nonces).  Keys of
\* version 1 files are left out: before 0.1.6 nonces were derived from the
\* counters (CHANGELOG.md), and nothing is sealed under those keys any more.
NonceUnique ==
    \A c, d \in AllSealed :
        /\ c.key.header.version = VAULT_VERSION
        /\ c.key = d.key
        /\ c.nonce = d.nonce
        => c = d

\* Two maps that hold an entry under the same key with the same counter hold
\* the same entry.
SameAadSameEntry(files1, files2) ==
    \A t \in DOMAIN files1 \cap DOMAIN files2 :
        files1[t].data_counter = files2[t].data_counter => files1[t] = files2[t]

\* Along one history of exports and reopenings, store never issues a
\* (name, counter) pair under which an older ciphertext of that name exists:
\* the replay that the check in from_subkeys_and_data is there to prevent.
NoAadReissued ==
    /\ \A i \in Inst : vault[i] # NULL =>
        \A b \in seen[i] :
            SameAadSameEntry(vault[i].files,
                DecodedFiles(b.header.version, b.encrypted_index.text))
    /\ \A c \in exports : \A b \in ancestry[c] :
        SameAadSameEntry(
            DecodedFiles(c.header.version, c.encrypted_index.text),
            DecodedFiles(b.header.version, b.encrypted_index.text))

\* Under one header the counters are monotonic: a blob's nonce counter is
\* above that of every blob it descends from, and no counter of an open vault
\* is below the blob it came from.
CountersMonotonic ==
    /\ \A i \in Inst : Open(i) =>
        \A b \in seen[i] : b.header = vault[i].header =>
            LET d == b.encrypted_index.text IN
            /\ d.nonce_counter <= vault[i].nonce_counter
            /\ d.data_nonce_counter <= vault[i].data_nonce_counter
    /\ \A c \in exports : \A b \in ancestry[c] : b.header = c.header =>
        LET d == b.encrypted_index.text
            e == c.encrypted_index.text
        IN /\ d.nonce_counter < e.nonce_counter
           /\ d.data_nonce_counter <= e.data_nonce_counter

\* Once a re-key has begun, only the machine can make it fail: the fresh
\* vault has room and counters for every entry of the old one, and every old
\* entry opens and is within the limits of store.
RekeyNeverRefused ==
    \A i \in Inst : ~Idle(i) =>
        \A t \in rekey[i].todo :
            /\ EntryOpens(rekey[i].old.key, t, rekey[i].old.files[t])
            /\ RekeyErrors(rekey[i], t) = {"CryptoError"}
            /\ StoreVerdict(rekey[i].new,
                            rekey[i].old.files[t].encrypted_name.text,
                            rekey[i].old.files[t].encrypted_data.text) = "Ok"

\* A vault in memory is always in the current format, and so is everything
\* it exports: migration leaves no way to write version 1 again.
AlwaysCurrentFormat ==
    /\ \A i \in Inst : vault[i] # NULL => vault[i].header.version = VAULT_VERSION
    /\ \A b \in exports \ LegacyFiles : b.header.version = VAULT_VERSION

-----------------------------------------------------------------------------
(***************************************************************************)
(* The inductive invariant behind CounterAhead, EveryEntryOpens,           *)
(* AlwaysCurrentFormat and EveryExportReopens.  To reopen what export      *)
(* wrote, the map it wrote must be within the decoder's limits; and the    *)
(* version of a blob decides how it is decoded.                            *)
(***************************************************************************)
MapWithinLimits(files) ==
    /\ IsFiniteSet(DOMAIN files)
    /\ Cardinality(DOMAIN files) <= MAX_INDEX_ENTRIES
    /\ \A t \in DOMAIN files : EntrySizesOk(files[t])

Sound(key, data_nonce_counter, files) ==
    /\ CounterAheadOf(data_nonce_counter, files)
    /\ WellSealed(key, files)
    /\ MapWithinLimits(files)

SoundVault(v) ==
    /\ v.key.header = v.header
    /\ Sound(v.key, v.data_nonce_counter, v.files)

SoundBlob(b) ==
    LET c == b.encrypted_index IN
    /\ c.key.header = b.header
    /\ OpensWithAad(c.key, b.nonce, c, b.header)
    /\ Sound(c.key, c.text.data_nonce_counter,
             DecodedFiles(b.header.version, c.text))

IInv ==
    /\ TypeOK
    /\ \A i \in Inst : vault[i] # NULL =>
        /\ SoundVault(vault[i])
        /\ vault[i].header.version = VAULT_VERSION
    /\ \A i \in Inst : rekey[i] # NULL =>
        /\ SoundVault(rekey[i].old)
        /\ SoundVault(rekey[i].new)
        /\ rekey[i].new.header.version = VAULT_VERSION
    /\ \A b \in exports :
        /\ SoundBlob(b)
        /\ b \in LegacyFiles \/ b.header.version = VAULT_VERSION

-----------------------------------------------------------------------------
(***************************************************************************)
(* The refinement mapping: decrypt everything.  A pending re-key has not   *)
(* happened yet, so change_password takes effect in RekeyCommit, and so    *)
(* does the opening of a version 1 file.                                   *)
(***************************************************************************)
Revealed(b) ==
    LET key == b.encrypted_index.key IN
    [password |-> key.password,
     contents |-> Contents(key,
                    DecodedFiles(b.header.version, b.encrypted_index.text))]

Promise == INSTANCE SecretStore WITH
    store <- [i \in Inst |->
                IF vault[i] = NULL THEN NULL
                ELSE [password |-> vault[i].key.password,
                      contents |-> Contents(vault[i].key, vault[i].files)]],
    snapshots <- {Revealed(b) : b \in exports},
    OldSnapshots <- {Revealed(b) : b \in LegacyFiles}

\* Vault implements SecretStore: store, retrieve, remove, export, open,
\* change_password and the migration of version 1 files behave as one atomic
\* map each, a failed call changes nothing, and an error names a real cause.
KeepsPromise == Promise!SSpec
=============================================================================
