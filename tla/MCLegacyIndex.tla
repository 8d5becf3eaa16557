---------------------------- MODULE MCLegacyIndex -----------------------------
(* An instance of LegacyIndex for TLC. *)
EXTENDS LegacyIndex, TLC

Meta(is_dummy, counter, name, data) ==
    [is_dummy |-> is_dummy, data_counter |-> counter, encrypted_name |-> name,
     encrypted_data |-> data]

\* Two proper entries, which differ in everything; entries that miss a
\* ciphertext or have one beyond a bound; padding with and without payload.
MCMeta ==
    {Meta(FALSE, 0, 40, 42), Meta(FALSE, 1, 41, 40),
     Meta(FALSE, 1, NULL, 40), Meta(FALSE, 1, 40, NULL),
     Meta(FALSE, 1, 39, 40), Meta(FALSE, 1, 42, 40), Meta(FALSE, 1, 40, 39),
     Meta(FALSE, 1, 40, 43),
     Meta(TRUE, 0, NULL, NULL), Meta(TRUE, 1, 40, 43)}

MCMember == [key : HexKey \cup {"UPPER CASE"}, meta : MCMeta]

MCDocument ==
    [version : {1, 2}, members : UNION {[1..n -> MCMember] : n \in 0..3}]
=============================================================================
