----------------------------- MODULE MCVaultFile -----------------------------
(* An instance of VaultFile for TLC. *)
EXTENDS VaultFile, TLC

MCNameLen == [n \in Name |-> 2]
MCDataLen == [x \in Value |-> 10]
MCPasswordLen == [p \in Password |-> 8]
MCNoLegacyFiles == {}

Objects == Permutations(Inst)

\* No guard and no property reads the last call's result.
WithoutResult ==
    <<vault, rekey, exports, drawn, seen, ancestry, file, lines>>

\* Nor does AadFreshOnPath read which saves returned Ok or synced the directory.
WithoutAnswers ==
    <<vault, rekey, exports, drawn, seen, ancestry, file, order, undone, missed, clobbers>>
=============================================================================
