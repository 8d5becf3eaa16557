------------------------------- MODULE MCVault -------------------------------
(***************************************************************************)
(* Instances of Vault for TLC.  The configurations choose the sets; the    *)
(* byte lengths of names, values and passwords are chosen here, so that    *)
(* the limits fall between them.                                           *)
(***************************************************************************)
EXTENDS Vault, TLC

CONSTANTS LongName, LongValue, BigValue, ShortPassword, OldPassword, PadName

\* One name is above MAX_ENTRY_NAME_LEN = 2 and one value above
\* MAX_ENTRY_DATA_SIZE = 40.  A file takes 66 + 150 bytes for the envelope and
\* 130 for each entry, without its data: where MAX_VAULT_FILE_SIZE = 356 an
\* entry with an ordinary value fills a file to the last byte, and one with
\* BigValue is allowed but does not fit.
MCNameLen == [n \in Name |-> IF n = LongName THEN 3 ELSE 2]
MCDataLen ==
    [x \in Value |-> CASE x = LongValue -> 41 [] x = BigValue -> 40
                       [] OTHER -> 10]
MCPasswordLen == [p \in Password |-> IF p = ShortPassword THEN 7 ELSE 8]

Forks == Permutations(Inst)
NamesAndPasswords ==
    Permutations(Name \ {LongName}) \cup Permutations(Password \ {ShortPassword})

\* No guard and none of the state invariants reads the last call's result.
WithoutResult == <<vault, rekey, exports, drawn, seen, ancestry>>

-----------------------------------------------------------------------------
(***************************************************************************)
(* A version 1 file with one entry of each kind: two real ones, numbered   *)
(* out of order with a gap, and a padding entry.                           *)
(***************************************************************************)
MCNoLegacyFiles == {}

OldHeader == [version |-> LEGACY_VAULT_VERSION_1, kdf_salt |-> 1]
OldKey == DeriveKey(OldPassword, OldHeader)

OldEntry(n, x, counter, nonce) ==
    LET aad == BuildEntryAad(HmacKeyForName(OldKey, n), counter) IN
    [is_dummy       |-> FALSE,
     data_counter   |-> counter,
     encrypted_name |-> SealWithAad(OldKey, nonce, n, aad),
     encrypted_data |-> SealWithAad(OldKey, nonce + 1, x, aad)]

OldFiles ==
    LET m == CHOOSE n \in Name : TRUE
        k == CHOOSE n \in Name : n # m
        y == CHOOSE x \in Value : TRUE
        z == CHOOSE x \in Value : x # y
    IN [t \in {HmacKeyForName(OldKey, n) : n \in {m, k, PadName}} |->
          CASE t.name = m -> OldEntry(m, y, 2, 2)
            [] t.name = k -> OldEntry(k, z, 0, 4)
            [] OTHER -> [is_dummy |-> TRUE, data_counter |-> 0]]

MCLegacyFiles ==
    {[len |-> 500, header |-> OldHeader, nonce |-> 6,
      encrypted_index |-> SealWithAad(OldKey, 6,
          [version |-> LEGACY_INDEX_VERSION_1, nonce_counter |-> 1,
           data_nonce_counter |-> 3, files |-> OldFiles], OldHeader)]}
=============================================================================
