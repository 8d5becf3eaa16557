------------------------------- MODULE OpenFile -------------------------------
(***************************************************************************)
(* Vault::open on bytes of any origin (src/vault/facade.rs): a file the    *)
(* crate wrote, one that was damaged or put together from several, or one  *)
(* of another writer that knows the password.  Vault.tla has what open     *)
(* returns for a file that is whole; here is how it tells.                 *)
(*                                                                         *)
(* Bytes are cells.  A cell is a number below BASE (half of the length     *)
(* field) or a symbol: a part of the canonical JSON of a header, a blank,  *)
(* a part of a nonce, a part of a ciphertext.  Source describes what       *)
(* writers have sealed; a nonce and a ciphertext are known by their source.*)
(*                                                                         *)
(* A definition whose name begins with Slip is the one below it with a     *)
(* mistake in it; no action uses it.                                       *)
(***************************************************************************)
EXTENDS SequencesExt

CONSTANTS
    Source,     \* what was sealed: [id, header, password, index]
    File,       \* the inputs of open, sequences of cells
    Password,
    NULL,
    BASE,       \* values of a cell, 2^16 for half of a u32
    XCHACHA20_NONCE_LEN,    \* 24
    LEGACY_COUNTER_LEN,     \* 8
    MAX_HEADER_JSON_LEN,    \* 4096
    MAX_VAULT_FILE_SIZE,    \* 256 MiB
    MIN_KDF_MEMORY, MAX_KDF_MEMORY, MEMORY_COST,        \* 2^15, 2^18, 2^17
    MIN_KDF_ITERATIONS, MAX_KDF_ITERATIONS, ITERATIONS, \* 3, 10, 4
    KEY_LEN                 \* 32

\* The header's length is a u32: two halves.
HEADER_LEN_CELLS == 2

VAULT_VERSION == 2
LEGACY_VAULT_VERSION_1 == 1
SUPPORTED_VAULT_VERSIONS == {LEGACY_VAULT_VERSION_1, VAULT_VERSION}

\* The compile-time pins of constants.rs.
ASSUME KdfPolicyAssumption ==
    /\ {MIN_KDF_MEMORY, MAX_KDF_MEMORY, MEMORY_COST,
        MIN_KDF_ITERATIONS, MAX_KDF_ITERATIONS, ITERATIONS} \subseteq Nat
    /\ MIN_KDF_MEMORY <= MEMORY_COST /\ MEMORY_COST <= MAX_KDF_MEMORY
    /\ MIN_KDF_ITERATIONS <= ITERATIONS /\ ITERATIONS <= MAX_KDF_ITERATIONS

\* A u32 holds the length of a header; the fields of a header are numbers and
\* a salt.
ASSUME FormatAssumption ==
    /\ BASE \in Nat \ 0..3
    /\ {XCHACHA20_NONCE_LEN, LEGACY_COUNTER_LEN, MAX_HEADER_JSON_LEN,
        MAX_VAULT_FILE_SIZE} \subseteq Nat
    /\ \A s \in Source :
        s.header \in [version : Nat, kdf_salt : {t.header.kdf_salt : t \in Source},
                      kdf_memory_cost : Nat, kdf_iterations : Nat, key_length : Nat]
    /\ \A f \in File : f \in Seq(ToSet(f))
    /\ \A s \in Source : NULL # s.header
    /\ NULL \notin {"Ok", "CorruptedData", "InvalidPassword", "CryptoError"}

-----------------------------------------------------------------------------
(***************************************************************************)
(* What writers produce.                                                   *)
(***************************************************************************)
Header == {s.header : s \in Source}

\* The compact JSON of a header, with its fields in declaration order.
ToAadBytes(header) == << [json |-> header, part |-> 1], [json |-> header, part |-> 2] >>

\* White space between the tokens of a JSON text.
Blank == [white |-> TRUE]

Byte == [byte : 0..(BASE - 1)]

\* A little-endian u32.
LeBytes(n) == << [byte |-> n % BASE], [byte |-> n \div BASE] >>

\* A symbol has the largest value where a number is read.
ByteValue(cell) == IF cell \in Byte THEN cell.byte ELSE BASE - 1

FromLeBytes(cells) == ByteValue(cells[1]) + BASE * ByteValue(cells[2])

NonceOf(s) == [k \in 1..XCHACHA20_NONCE_LEN |-> [nonce |-> s.id, part |-> k]]
SealedIndex(s) == [k \in 1..3 |-> [sealed |-> s.id, part |-> k]]

\* The layout of DESIGN.md section 2, and the one of releases up to 0.2.1,
\* which has the bytes of a counter behind the nonce.
Layout(s, legacy_counter) ==
    LeBytes(Len(ToAadBytes(s.header))) \o ToAadBytes(s.header) \o NonceOf(s)
    \o (IF s.header.version = LEGACY_VAULT_VERSION_1 THEN legacy_counter ELSE <<>>)
    \o SealedIndex(s)

-----------------------------------------------------------------------------
(***************************************************************************)
(* parse_envelope.                                                         *)
(***************************************************************************)
\* serde_json::from_slice: fields in any order, white space between them, no
\* other fields.  NULL is a parse error.
FromSlice(text) ==
    LET tokens == {k \in DOMAIN text : text[k] # Blank}
        parsed == {h \in Header : /\ {text[k] : k \in tokens} = ToSet(ToAadBytes(h))
                                  /\ Cardinality(tokens) = Len(ToAadBytes(h))}
    IN IF parsed = {} THEN NULL ELSE CHOOSE h \in parsed : TRUE

\* Slip: bounds the memory from one side only.
SlipValidateHeader(header) ==
    /\ header.version \in SUPPORTED_VAULT_VERSIONS
    /\ header.kdf_memory_cost >= MIN_KDF_MEMORY
    /\ header.kdf_iterations \in MIN_KDF_ITERATIONS..MAX_KDF_ITERATIONS
    /\ header.key_length = KEY_LEN

ValidateHeader(header) ==
    /\ header.version \in SUPPORTED_VAULT_VERSIONS
    /\ header.kdf_memory_cost \in MIN_KDF_MEMORY..MAX_KDF_MEMORY
    /\ header.kdf_iterations \in MIN_KDF_ITERATIONS..MAX_KDF_ITERATIONS
    /\ header.key_length = KEY_LEN

HeaderLen(data) == FromLeBytes(SubSeq(data, 1, HEADER_LEN_CELLS))
AfterHeader(data) == HEADER_LEN_CELLS + HeaderLen(data)

\* What may be read of a file before its JSON is parsed.
LengthsOk(data) ==
    /\ Len(data) <= MAX_VAULT_FILE_SIZE
    /\ Len(data) >= HEADER_LEN_CELLS
    /\ HeaderLen(data) <= MAX_HEADER_JSON_LEN
    /\ Len(data) >= AfterHeader(data) + XCHACHA20_NONCE_LEN

HeaderBytes(data) == SubSeq(data, HEADER_LEN_CELLS + 1, AfterHeader(data))

\* Slip: does not compare the bytes with the header's own serialization.
SlipHeaderOk(data) ==
    LET header == FromSlice(HeaderBytes(data)) IN
    header # NULL /\ ValidateHeader(header)

HeaderOk(data) ==
    LET header == FromSlice(HeaderBytes(data)) IN
    /\ header # NULL
    /\ ValidateHeader(header)
    /\ HeaderBytes(data) = ToAadBytes(header)

\* Slip: takes the counter of an old file for ciphertext.
SlipIndexStart(data, header) == AfterHeader(data) + XCHACHA20_NONCE_LEN

IndexStart(data, header) ==
    AfterHeader(data) + XCHACHA20_NONCE_LEN
    + IF header.version = LEGACY_VAULT_VERSION_1 THEN LEGACY_COUNTER_LEN ELSE 0

\* The conditions are met in the order in which the code checks them.
EnvelopeOk(data) ==
    /\ LengthsOk(data)
    /\ HeaderOk(data)
    /\ Len(data) >= IndexStart(data, FromSlice(HeaderBytes(data)))

EnvelopeOf(data) ==
    LET header == FromSlice(HeaderBytes(data)) IN
    [header |-> header,
     nonce |-> SubSeq(data, AfterHeader(data) + 1,
                      AfterHeader(data) + XCHACHA20_NONCE_LEN),
     encrypted_index |-> SubSeq(data, IndexStart(data, header) + 1, Len(data))]

-----------------------------------------------------------------------------
(***************************************************************************)
(* open.                                                                   *)
(***************************************************************************)
VARIABLES
    data, password,     \* the arguments
    at,                 \* what open does next
    envelope,           \* what parse_envelope returned, or NULL
    index,              \* the decrypted index, or NULL
    derivations,        \* the runs of Argon2, with their parameters
    result              \* what open returns, or NULL

vars == <<data, password, at, envelope, index, derivations, result>>

Init ==
    /\ data \in File
    /\ password \in Password
    /\ at = "parse"
    /\ envelope = NULL
    /\ index = NULL
    /\ derivations = <<>>
    /\ result = NULL

Continues(step) == at' = step /\ UNCHANGED <<data, password, result>>
Returns(r) == result' = r /\ at' = "returned" /\ UNCHANGED <<data, password>>

Parse ==
    /\ at = "parse"
    /\ IF EnvelopeOk(data)
       THEN envelope' = EnvelopeOf(data) /\ Continues("derive")
       ELSE UNCHANGED envelope /\ Returns("CorruptedData")
    /\ UNCHANGED <<index, derivations>>

Argon2(version, memory, passes) ==
    derivations' = Append(derivations,
        [version |-> version, memory |-> memory, passes |-> passes])

\* The matrix cannot be allocated, the subkeys cannot be locked, the
\* generator fails, or an entry does not open when it is re-encrypted.
MachineFails ==
    /\ at \in {"derive", "keys", "rekey"}
    /\ at = "keys" => index.counterAhead
    /\ Returns("CryptoError")
    /\ UNCHANGED <<envelope, index, derivations>>

DeriveKeys ==
    /\ at = "derive"
    /\ LET h == envelope.header IN
       Argon2(h.version, h.kdf_memory_cost, h.kdf_iterations)
    /\ Continues("authenticate")
    /\ UNCHANGED <<envelope, index>>

\* open_with_aad under the keys of this password and header, with the
\* header's serialization as associated data.
Opens(s) ==
    /\ s.password = password
    /\ s.header = envelope.header
    /\ envelope.nonce = NonceOf(s)
    /\ envelope.encrypted_index = SealedIndex(s)

Authenticate ==
    /\ at = "authenticate"
    /\ IF \E s \in Source : Opens(s)
       THEN /\ index' = (CHOOSE s \in Source : Opens(s)).index
            /\ Continues("decode")
       ELSE UNCHANGED index /\ Returns("InvalidPassword")
    /\ UNCHANGED <<envelope, derivations>>

\* The decoder of the header's version.  An index of the other format, or one
\* that breaks a rule of the format, is rejected (IndexCodec has the rules).
Decode ==
    /\ at = "decode"
    /\ IF index.format = envelope.header.version /\ index.wellFormed
       THEN Continues("keys")
       ELSE Returns("CorruptedData")
    /\ UNCHANGED <<envelope, index, derivations>>

\* Slip: a version 1 vault is used with the keys it was opened with.
SlipFromSubkeysAndData ==
    /\ at = "keys"
    /\ IF ~index.counterAhead THEN Returns("CorruptedData") ELSE Returns("Ok")
    /\ UNCHANGED <<envelope, index, derivations>>

FromSubkeysAndData ==
    /\ at = "keys"
    /\ IF ~index.counterAhead THEN Returns("CorruptedData")
       ELSE IF envelope.header.version = LEGACY_VAULT_VERSION_1
       THEN Continues("rekey")
       ELSE Returns("Ok")
    /\ UNCHANGED <<envelope, index, derivations>>

\* The migration of a version 1 file, with a header of the crate's own.  It
\* would also refuse a name that is no UTF-8: every writer seals a string.
Rekey ==
    /\ at = "rekey"
    /\ Argon2(VAULT_VERSION, MEMORY_COST, ITERATIONS)
    /\ Returns("Ok")
    /\ UNCHANGED <<envelope, index>>

Returned == at = "returned" /\ UNCHANGED vars

Next ==
    \/ Parse
    \/ DeriveKeys
    \/ Authenticate
    \/ Decode
    \/ FromSubkeysAndData
    \/ Rekey
    \/ MachineFails
    \/ Returned

Spec == Init /\ [][Next]_vars

-----------------------------------------------------------------------------
(***************************************************************************)
(* What the format promises, in terms of the layout instead of offsets.    *)
(***************************************************************************)
\* A file is a source's, byte for byte.  The counter bytes of version 1 are
\* the only ones that may have changed: nothing reads them.
IsWhole(s) ==
    /\ Len(data) = Len(Layout(s, [k \in 1..LEGACY_COUNTER_LEN |-> Blank]))
    /\ data = Layout(s, SubSeq(data, Len(data) - 3 - LEGACY_COUNTER_LEN + 1,
                               Len(data) - 3))

HasPassword(s) == s.password = password

Consistent(s) ==
    /\ s.index.format = s.header.version
    /\ s.index.wellFormed
    /\ s.index.counterAhead

Policy ==
    [version : {1, 2}, kdf_salt : {h.kdf_salt : h \in Header}, key_length : {KEY_LEN},
     kdf_memory_cost : MIN_KDF_MEMORY..MAX_KDF_MEMORY,
     kdf_iterations : MIN_KDF_ITERATIONS..MAX_KDF_ITERATIONS]

\* An envelope that says what it is: length, canonical header within the
\* ranges of DESIGN.md section 3, nonce, and for version 1 the counter bytes.
WellFormedEnvelope ==
    /\ Len(data) <= MAX_VAULT_FILE_SIZE
    /\ \E h \in Header \cap Policy :
        LET front == LeBytes(Len(ToAadBytes(h))) \o ToAadBytes(h) IN
        /\ Len(ToAadBytes(h)) <= MAX_HEADER_JSON_LEN
        /\ IsPrefix(front, data)
        /\ Len(data) - Len(front) >= XCHACHA20_NONCE_LEN
             + IF h.version = LEGACY_VAULT_VERSION_1 THEN LEGACY_COUNTER_LEN ELSE 0

\* Only a whole and consistent file opens, and only with its password:
\* no truncation, no changed or added byte, no exchanged header or
\* ciphertext, no header that parses the same but is spelled differently
\* (DESIGN.md sections 1 and 3).
OnlyWholeFilesOpen ==
    result = "Ok" =>
        \E s \in Source : IsWhole(s) /\ HasPassword(s) /\ Consistent(s)

\* An error names what is wrong with the file (DESIGN.md section 2.1).  A
\* wrong password, and any damage behind the header, is InvalidPassword and
\* never CorruptedData, unless the file ends within the nonce or within the
\* counter of version 1; a whole file is never refused for its password.
ErrorsNameTheCause ==
    /\ result = "CorruptedData" =>
        \/ ~WellFormedEnvelope
        \/ \E s \in Source : IsWhole(s) /\ HasPassword(s) /\ ~Consistent(s)
    /\ result = "InvalidPassword" =>
        /\ WellFormedEnvelope
        /\ ~\E s \in Source : IsWhole(s) /\ HasPassword(s)

\* What a file can cost before it is known to be genuine: nothing if its
\* envelope is not well formed, else one run of Argon2 within the policy.  The
\* second run is for a version 1 file that has authenticated, and from then
\* on the vault is current (DESIGN.md section 10.1).
BoundedCost ==
    /\ derivations # <<>> => WellFormedEnvelope
    /\ \A k \in DOMAIN derivations :
        /\ derivations[k].memory \in MIN_KDF_MEMORY..MAX_KDF_MEMORY
        /\ derivations[k].passes \in MIN_KDF_ITERATIONS..MAX_KDF_ITERATIONS
    /\ Len(derivations) > 1 =>
        /\ Len(derivations) = 2
        /\ \E s \in Source : /\ IsWhole(s) /\ HasPassword(s) /\ Consistent(s)
                             /\ s.header.version = LEGACY_VAULT_VERSION_1
    /\ result = "Ok" => Last(derivations).version = VAULT_VERSION
=============================================================================
