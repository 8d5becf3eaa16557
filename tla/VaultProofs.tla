----------------------------- MODULE VaultProofs -----------------------------
(***************************************************************************)
(* Proofs about Vault, for every value of its constants: types; safety,    *)
(* that is, the counters stay ahead of the entries, every entry opens,     *)
(* every export reopens, and no re-key is refused; and history: nonces are *)
(* never used twice, counters only grow along a line of blobs, and no      *)
(* (name, counter) pair is issued twice on it.                             *)
(*                                                                         *)
(* The argument for safety is one induction on IInv.  What a step adds to  *)
(* a map is one entry that `store' sealed (SoundStored); what it takes     *)
(* away leaves the rest sound (SoundRestricted); what it copies, between a *)
(* vault and a blob, is sound because its source is.                       *)
(***************************************************************************)
EXTENDS Vault, TLAPS, FiniteSetTheorems

(***************************************************************************)
(* The types of the values the actions build.                              *)
(***************************************************************************)

\* A freshly created vault is a vault.
LEMMA NewVaultType ==
    ASSUME NEW p \in Password, NEW s \in Random, NEW n \in Random
    PROVE  IsVault(NewVault(p, s, n))
  BY LimitsAssumption
     DEF NewVault, IsVault, IsFiles, NoFiles, DeriveKey, Key, Header, U64,
         SUPPORTED_VAULT_VERSIONS, VAULT_VERSION, LEGACY_VAULT_VERSION_1

\* Adding a well-typed entry under an HMAC key keeps a map a map of entries.
LEMMA InsertType ==
    ASSUME NEW files, IsFiles(files), NEW t \in HmacKey, NEW e \in IndexEntry
    PROVE  IsFiles(InsertByKey(files, t, e))
  BY DEF IsFiles, InsertByKey

LEMMA RemoveType ==
    ASSUME NEW files, IsFiles(files), NEW t
    PROVE  IsFiles(RemoveByKey(files, t))
  BY DEF IsFiles, RemoveByKey, Restrict

LEMMA SealEntryType ==
    ASSUME NEW v, IsVault(v), NEW n \in Name, NEW x \in Value,
           NEW d \in Random, NEW m \in Random
    PROVE  SealEntry(v, n, x, d, m) \in IndexEntry
  BY DEF IsVault, SealEntry, IndexEntry, SealWithAad, BuildEntryAad, EntryAad,
         HmacKeyForName, HmacKey

\* store keeps a vault a vault, as long as the counter can advance.
LEMMA StoredInType ==
    ASSUME NEW v, IsVault(v), NEW n \in Name, NEW x \in Value,
           NEW d \in Random, NEW m \in Random,
           StoreVerdict(v, n, x) = "Ok"
    PROVE  IsVault(StoredIn(v, n, x, d, m))
<1> DEFINE t == HmacKeyForName(v.key, n)
           f == InsertByKey(v.files, t, SealEntry(v, n, x, d, m))
<1>1. t \in HmacKey
  BY DEF IsVault, HmacKeyForName, HmacKey
<1>2. IsFiles(f)
  BY <1>1, SealEntryType, InsertType DEF IsVault
<1>3. v.data_nonce_counter + 1 \in U64
  BY LimitsAssumption DEF StoreVerdict, IsVault, U64
<1> HIDE DEF f
<1> QED
  BY <1>2, <1>3 DEF StoredIn, IsVault, f
LEMMA AdvanceNonceType ==
    ASSUME NEW v, IsVault(v), v.nonce_counter < MAX_U64, NEW n \in Random
    PROVE  IsVault(AdvanceNonce(v, n))
<1>1. v.nonce_counter + 1 \in U64
  BY LimitsAssumption DEF IsVault, U64
<1> QED
  BY <1>1 DEF AdvanceNonce, IsVault

LEMMA ExportedBlobType ==
    ASSUME NEW v, IsVault(v), ValidExportSize(ExportedBlob(v))
    PROVE  IsExport(ExportedBlob(v))
  BY DEF ExportedBlob, IsExport, IsVault, SealWithAad, EncodeIndex

\* open reconstructs a vault from every blob it accepts, of either format.
LEMMA OpenedVaultType ==
    ASSUME NEW p \in Password, NEW b, b \in LegacyFiles \/ IsExport(b),
           OpenResult(p, b) = "Ok"
    PROVE  IsVault(OpenedVault(p, b))
<1> DEFINE d == b.encrypted_index.text
           files == DecodedFiles(b.header.version, d)
<1>1. DecoderAccepts(b.header.version, d)
  BY DEF OpenResult
<1>2. b.header \in Header /\ b.nonce \in Random
  BY LegacyAssumption DEF IsExport, IsLegacyFile, Random
<1>3. d.nonce_counter \in U64 /\ d.data_nonce_counter \in U64
  BY LegacyAssumption DEF IsExport, IsLegacyFile
<1>4. IsFiles(files)
  <2>1. CASE b \in LegacyFiles
    BY <2>1, LegacyAssumption DEF IsLegacyFile, DecodedFiles
  <2>2. CASE IsExport(b)
    <3>1. b.header.version # LEGACY_VAULT_VERSION_1
      BY <1>1, <2>2 DEF IsExport, DecoderAccepts, DecodeIndexV1Accepts,
            VAULT_INDEX_VERSION, LEGACY_INDEX_VERSION_1
    <3> QED
      BY <2>2, <3>1 DEF IsExport, DecodedFiles
  <2> QED
    BY <2>1, <2>2
<1>5. DeriveKey(p, b.header) \in Key
  BY <1>2 DEF DeriveKey, Key
<1> HIDE DEF d, files
<1> QED
  BY <1>2, <1>3, <1>4, <1>5 DEF OpenedVault, IsVault, d, files
-----------------------------------------------------------------------------
(***************************************************************************)
(* Type correctness.                                                       *)
(***************************************************************************)

\* A step that gives one instance a well-typed vault, or none, and changes no
\* other variable but drawn, ret and that instance's pending call.
LEMMA VaultsTyped ==
    ASSUME TypeOK, NEW i \in Inst, NEW w, w = NULL \/ IsVault(w),
           vault' = [vault EXCEPT ![i] = w]
    PROVE  /\ DOMAIN vault' = Inst
           /\ \A j \in Inst : vault'[j] = NULL \/ IsVault(vault'[j])
  BY DEF TypeOK

LEMMA RekeysTyped ==
    ASSUME TypeOK, NEW i \in Inst, NEW r, r = NULL \/ IsRekey(r),
           rekey' = [rekey EXCEPT ![i] = r]
    PROVE  /\ DOMAIN rekey' = Inst
           /\ \A j \in Inst : rekey'[j] = NULL \/ IsRekey(rekey'[j])
  BY DEF TypeOK

LEMMA HistoryTyped ==
    ASSUME TypeOK, exports' = exports, ancestry' = ancestry,
           NEW i \in Inst, NEW h \in SUBSET exports,
           seen' = seen \/ seen' = [seen EXCEPT ![i] = h]
    PROVE  /\ \A b \in exports' : b \in LegacyFiles \/ IsExport(b)
           /\ seen' \in [Inst -> SUBSET exports']
           /\ ancestry' \in [exports' -> SUBSET exports']
  BY DEF TypeOK

LEMMA DrawType ==
    ASSUME TypeOK, NEW k \in Nat, Draw(k)
    PROVE  drawn' \in Nat
  BY DEF TypeOK, Draw

\* What a call that leaves the vaults alone keeps.
LEMMA UnchangedTyped ==
    ASSUME TypeOK, UNCHANGED <<vault, rekey, exports, drawn, seen, ancestry>>
    PROVE  TypeOK'
  BY DEF TypeOK

LEMMA BeginRekeyTyped ==
    ASSUME TypeOK, NEW i \in Inst, NEW call, NEW v, IsVault(v),
           NEW p \in Password, BeginRekey(i, call, v, p)
    PROVE  /\ DOMAIN rekey' = Inst
           /\ \A j \in Inst : rekey'[j] = NULL \/ IsRekey(rekey'[j])
           /\ drawn' \in Nat
<1> DEFINE new == NewVault(p, drawn + 1, drawn + 2)
           r == [call |-> call, old |-> v, new |-> new, todo |-> DOMAIN v.files]
<1>1. IsVault(new)
  <2>1. drawn + 1 \in Random /\ drawn + 2 \in Random
    BY DEF TypeOK, Random
  <2> QED
    BY <2>1, NewVaultType
<1>2. IsRekey(r)
  <2> HIDE DEF new
  <2> QED
    BY <1>1 DEF IsRekey
<1>3. rekey' = [rekey EXCEPT ![i] = r]
  BY DEF BeginRekey
<1> HIDE DEF r
<1> QED
  BY <1>2, <1>3, RekeysTyped, DrawType DEF BeginRekey

LEMMA TypeInit == Init => TypeOK
  BY LegacyAssumption DEF Init, TypeOK

LEMMA TypeNext == TypeOK /\ [Next]_vars => TypeOK'
<1> SUFFICES ASSUME TypeOK, [Next]_vars
             PROVE  TypeOK'
  OBVIOUS
<1>1. CASE UNCHANGED vars
  BY <1>1, UnchangedTyped DEF vars
<1>2. ASSUME NEW i \in Inst, NEW p \in Password, Create(i, p)
      PROVE  TypeOK'
  <2>1. IsVault(NewVault(p, drawn + 1, drawn + 2))
    BY NewVaultType DEF TypeOK, Random
  <2>2. drawn' \in Nat
    BY <1>2, DrawType DEF Create
  <2> QED
    BY <1>2, <2>1, <2>2, VaultsTyped DEF Create, TypeOK
<1>3. ASSUME NEW i \in Inst, NEW p \in Password, NEW b \in exports,
             OpenCurrent(i, p, b)
      PROVE  TypeOK'
  <2>1. IsVault(OpenedVault(p, b))
    BY <1>3, OpenedVaultType DEF OpenCurrent, TypeOK
  <2>2. {b} \cup ancestry[b] \in SUBSET exports
    BY DEF TypeOK
  <2> QED
    BY <1>3, <2>1, <2>2, VaultsTyped, HistoryTyped DEF OpenCurrent, TypeOK
<1>4. ASSUME NEW i \in Inst, NEW p \in Password, NEW b \in exports,
             OpenLegacy(i, p, b)
      PROVE  TypeOK'
  <2>1. IsVault(OpenedVault(p, b))
    BY <1>4, OpenedVaultType DEF OpenLegacy, TypeOK
  <2>2. {b} \cup ancestry[b] \in SUBSET exports
    BY DEF TypeOK
  <2> QED
    BY <1>4, <2>1, <2>2, BeginRekeyTyped, HistoryTyped DEF OpenLegacy, TypeOK
<1>5. ASSUME NEW i \in Inst, NEW p \in Password, NEW q \in Password,
             ChangePassword(i, p, q)
      PROVE  TypeOK'
  <2>1. IsVault(vault[i])
    BY <1>5 DEF ChangePassword, Open, TypeOK
  <2> QED
    BY <1>5, <2>1, BeginRekeyTyped DEF ChangePassword, TypeOK
<1>6. ASSUME NEW i \in Inst, NEW n \in Name, Remove(i, n)
      PROVE  TypeOK'
  <2> DEFINE f == RemoveByKey(vault[i].files, HmacKeyForName(vault[i].key, n))
  <2>1. IsVault(vault[i])
    BY <1>6 DEF Remove, Open, TypeOK
  <2>2. IsFiles(f)
    BY <2>1, RemoveType DEF IsVault
  <2>3. vault' = [vault EXCEPT ![i] = [vault[i] EXCEPT !.files = f]]
    BY <1>6 DEF Remove
  <2> HIDE DEF f
  <2>4. IsVault([vault[i] EXCEPT !.files = f])
    BY <2>1, <2>2 DEF IsVault
  <2> QED
    BY <1>6, <2>3, <2>4, VaultsTyped DEF Remove, TypeOK
<1>7. ASSUME NEW i \in Inst, NEW n \in Name, NEW x \in Value, Store(i, n, x)
      PROVE  TypeOK'
  <2>1. IsVault(vault[i])
    BY <1>7 DEF Store, Open, TypeOK
  <2>2. IsVault(StoredIn(vault[i], n, x, drawn + 1, drawn + 2))
    BY <1>7, <2>1, StoredInType DEF Store, TypeOK, Random
  <2>3. drawn' \in Nat
    BY <1>7, DrawType DEF Store
  <2> QED
    BY <1>7, <2>2, <2>3, VaultsTyped DEF Store, TypeOK
<1>8. ASSUME NEW i \in Inst, NEW n \in Name, NEW x \in Value,
             StoreWastesCounter(i, n, x)
      PROVE  TypeOK'
  <2> DEFINE w == [vault[i] EXCEPT !.data_nonce_counter = @ + 1]
  <2>1. IsVault(vault[i])
    BY <1>8 DEF StoreWastesCounter, Open, TypeOK
  <2>2. vault[i].data_nonce_counter + 1 \in U64
    BY <1>8, <2>1, LimitsAssumption
       DEF StoreWastesCounter, StoreVerdict, IsVault, U64
  <2>3. IsVault(w)
    BY <2>1, <2>2 DEF IsVault
  <2>4. vault' = [vault EXCEPT ![i] = w]
    BY <1>8 DEF StoreWastesCounter
  <2> HIDE DEF w
  <2> QED
    BY <1>8, <2>3, <2>4, VaultsTyped DEF StoreWastesCounter, TypeOK
<1>9. ASSUME NEW i \in Inst, Export(i)
      PROVE  TypeOK'
  <2> DEFINE v == AdvanceNonce(vault[i], drawn + 1)
             b == ExportedBlob(v)
  <2>1. drawn' \in Nat
    BY <1>9, DrawType DEF Export
  <2>2. IsVault(v)
    BY <1>9, AdvanceNonceType DEF Export, Open, TypeOK, Random
  <2>3. IsExport(b)
    BY <1>9, <2>2, ExportedBlobType DEF Export
  <2>4. /\ vault' = [vault EXCEPT ![i] = v]
        /\ exports' = exports \cup {b}
        /\ ancestry' = [c \in exports \cup {b} |->
                            IF c = b THEN seen[i] ELSE ancestry[c]]
        /\ seen' = [seen EXCEPT ![i] = @ \cup {b}]
        /\ rekey' = rekey
    BY <1>9 DEF Export
  <2> HIDE DEF v, b
  <2>5. seen' \in [Inst -> SUBSET exports']
    BY <2>4 DEF TypeOK
  <2>6. ancestry' \in [exports' -> SUBSET exports']
    BY <2>4 DEF TypeOK
  <2> QED
    BY <2>1, <2>2, <2>3, <2>4, <2>5, <2>6, VaultsTyped DEF TypeOK
<1>10. ASSUME NEW i \in Inst, ExportTooLarge(i)
       PROVE  TypeOK'
  <2>1. drawn' \in Nat
    BY <1>10, DrawType DEF ExportTooLarge
  <2>2. IsVault(AdvanceNonce(vault[i], drawn + 1))
    BY <1>10, AdvanceNonceType DEF ExportTooLarge, Open, TypeOK, Random
  <2> QED
    BY <1>10, <2>1, <2>2, VaultsTyped DEF ExportTooLarge, TypeOK
<1>11. ASSUME NEW i \in Inst, ExportWastesCounter(i)
       PROVE  TypeOK'
  <2> DEFINE w == [vault[i] EXCEPT !.nonce_counter = @ + 1]
  <2>1. IsVault(vault[i]) /\ vault[i].nonce_counter + 1 \in U64
    BY <1>11, LimitsAssumption
       DEF ExportWastesCounter, Open, TypeOK, IsVault, U64
  <2>2. IsVault(w)
    BY <2>1 DEF IsVault
  <2>3. vault' = [vault EXCEPT ![i] = w]
    BY <1>11 DEF ExportWastesCounter
  <2> HIDE DEF w
  <2> QED
    BY <1>11, <2>2, <2>3, VaultsTyped DEF ExportWastesCounter, TypeOK
<1>12. ASSUME NEW i \in Inst, RekeyEntry(i)
       PROVE  TypeOK'
  <2>1. IsRekey(rekey[i])
    BY <1>12 DEF RekeyEntry, Idle, TypeOK
  <2>2. PICK t \in rekey[i].todo :
          LET old == rekey[i].old
              new == rekey[i].new
              n == old.files[t].encrypted_name.text
              x == old.files[t].encrypted_data.text
          IN /\ StoreVerdict(new, n, x) = "Ok"
             /\ Draw(2)
             /\ rekey' = [rekey EXCEPT
                            ![i].new = StoredIn(@, n, x, drawn + 1, drawn + 2),
                            ![i].todo = @ \ {t}]
    BY <1>12 DEF RekeyEntry
  <2> DEFINE n == rekey[i].old.files[t].encrypted_name.text
             x == rekey[i].old.files[t].encrypted_data.text
             new == StoredIn(rekey[i].new, n, x, drawn + 1, drawn + 2)
             r == [rekey[i] EXCEPT !.new = new, !.todo = @ \ {t}]
  <2>3. n \in Name /\ x \in Value
    BY <2>1 DEF IsRekey, IsVault, IsFiles, IndexEntry
  <2>4. IsVault(new)
    BY <2>1, <2>2, <2>3, StoredInType DEF IsRekey, TypeOK, Random
  <2>5. rekey' = [rekey EXCEPT ![i] = r]
    BY <2>2 DEF TypeOK
  <2>6. drawn' \in Nat
    BY <2>2, DrawType
  <2> HIDE DEF n, x, new
  <2>7. IsRekey(r)
    BY <2>1, <2>4 DEF IsRekey
  <2> HIDE DEF r
  <2> QED
    BY <1>12, <2>5, <2>6, <2>7, RekeysTyped DEF RekeyEntry, TypeOK
<1>13. ASSUME NEW i \in Inst, RekeyAborts(i)
       PROVE  TypeOK'
  <2> DEFINE h == IF vault[i] = NULL THEN {} ELSE seen[i]
  <2>1. h \in SUBSET exports /\ seen' = [seen EXCEPT ![i] = h]
    BY <1>13 DEF RekeyAborts, TypeOK
  <2> HIDE DEF h
  <2> QED
    BY <1>13, <2>1, RekeysTyped, HistoryTyped DEF RekeyAborts, TypeOK
<1>14. ASSUME NEW i \in Inst, RekeyCommit(i)
       PROVE  TypeOK'
  <2>1. IsVault(rekey[i].new)
    BY <1>14 DEF RekeyCommit, Idle, TypeOK, IsRekey
  <2> QED
    BY <1>14, <2>1, VaultsTyped, RekeysTyped DEF RekeyCommit, TypeOK
<1>15. ASSUME NEW i \in Inst, Crash(i)
       PROVE  TypeOK'
  BY <1>15, VaultsTyped, RekeysTyped, HistoryTyped DEF Crash, TypeOK
<1>16. ASSUME NEW i \in Inst,
              NEW p \in Password, NEW q \in Password,
              \/ CreateRefused(i, p)
              \/ ChangePasswordRefused(i, p, q)
              \/ KeySetupFails(i, p, q)
       PROVE  TypeOK'
  BY <1>16, UnchangedTyped
     DEF CreateRefused, ChangePasswordRefused, KeySetupFails, Fails
<1>17. ASSUME NEW i \in Inst, NEW p \in Password, NEW b \in exports,
              OpenRefused(i, p, b)
       PROVE  TypeOK'
  BY <1>17, UnchangedTyped DEF OpenRefused, Fails
<1>18. ASSUME NEW i \in Inst, NEW n \in Name, Retrieve(i, n)
       PROVE  TypeOK'
  BY <1>18, UnchangedTyped DEF Retrieve
<1>19. ASSUME NEW i \in Inst, NEW n \in Name, NEW x \in Value,
              StoreRefused(i, n, x)
       PROVE  TypeOK'
  BY <1>19, UnchangedTyped DEF StoreRefused, Fails
<1>20. ASSUME NEW i \in Inst, ExportOverflows(i)
       PROVE  TypeOK'
  BY <1>20, UnchangedTyped DEF ExportOverflows, Fails
<1> QED
  BY <1>1, <1>2, <1>3, <1>4, <1>5, <1>6, <1>7, <1>8, <1>9, <1>10, <1>11,
     <1>12, <1>13, <1>14, <1>15, <1>16, <1>17, <1>18, <1>19, <1>20
     DEF Next

\* No sequence of calls, failed calls and crashes leaves a counter above
\* u64::MAX, an entry that is not bound to a key and a counter, or a blob that
\* could not be read back as an index.
THEOREM TypeCorrect == Spec => []TypeOK
<1> QED
  BY TypeInit, TypeNext, PTL DEF Spec

-----------------------------------------------------------------------------
(***************************************************************************)
(* Soundness of the maps the operations build.                             *)
(***************************************************************************)

\* The empty map of a new vault is sound under any key.
LEMMA SoundEmpty ==
    ASSUME NEW key PROVE Sound(key, 0, NoFiles)
  BY FS_EmptySet, LimitsAssumption
     DEF Sound, NoFiles, CounterAheadOf, WellSealed, MapWithinLimits

\* A later counter is as far ahead.
LEMMA SoundLater ==
    ASSUME NEW key, NEW files, IsFiles(files),
           NEW c \in U64, NEW d \in Nat, c <= d, Sound(key, c, files)
    PROVE  Sound(key, d, files)
<1>1. \A t \in DOMAIN files : files[t].data_counter \in Nat
  BY LimitsAssumption DEF IsFiles, IndexEntry, U64
<1>2. c \in Nat
  BY LimitsAssumption DEF U64
<1> QED
  BY <1>1, <1>2 DEF Sound, CounterAheadOf

\* Removing entries leaves a sound map.
LEMMA SoundRestricted ==
    ASSUME NEW key, NEW c, NEW files, NEW t, Sound(key, c, files)
    PROVE  Sound(key, c, RemoveByKey(files, t))
<1> DEFINE f == RemoveByKey(files, t)
<1>1. /\ DOMAIN f = DOMAIN files \ {t}
      /\ \A u \in DOMAIN f : f[u] = files[u]
  BY DEF RemoveByKey, Restrict
<1>2. /\ IsFiniteSet(DOMAIN f)
      /\ Cardinality(DOMAIN f) <= MAX_INDEX_ENTRIES
  <2>1. IsFiniteSet(DOMAIN files) /\ Cardinality(DOMAIN files) \in Nat
    BY FS_CardinalityType DEF Sound, MapWithinLimits
  <2>2. /\ IsFiniteSet(DOMAIN f)
        /\ Cardinality(DOMAIN f) = IF t \in DOMAIN files
                                   THEN Cardinality(DOMAIN files) - 1
                                   ELSE Cardinality(DOMAIN files)
    BY <1>1, <2>1, FS_RemoveElement
  <2> QED
    BY <2>1, <2>2, LimitsAssumption DEF Sound, MapWithinLimits
<1> HIDE DEF f
<1> QED
  BY <1>1, <1>2 DEF Sound, CounterAheadOf, WellSealed, MapWithinLimits, f

\* The entry store builds opens where it is filed, carries the counter value
\* the vault had, and is within the decoder's limits.
LEMMA SealEntryFacts ==
    ASSUME NEW v, NEW n \in Name, NEW x \in Value, NEW d, NEW m
    PROVE  LET e == SealEntry(v, n, x, d, m)
               t == HmacKeyForName(v.key, n)
           IN /\ e.data_counter = v.data_nonce_counter
              /\ e.encrypted_name.text = n
              /\ e.encrypted_data.text = x
              /\ EntryOpens(v.key, t, e)
  BY DEF SealEntry, EntryOpens, OpensWithAad, SealWithAad, BuildEntryAad

\* A map that is not full stays within the limits when an entry is added or
\* overwritten.
LEMMA InsertWithinLimits ==
    ASSUME NEW files, MapWithinLimits(files), NEW t, ~MapFull(files, t),
           NEW e, EntrySizesOk(e)
    PROVE  MapWithinLimits(InsertByKey(files, t, e))
<1> DEFINE f == InsertByKey(files, t, e)
<1>1. /\ DOMAIN f = DOMAIN files \cup {t}
      /\ \A u \in DOMAIN f : f[u] = IF u = t THEN e ELSE files[u]
  BY DEF InsertByKey
<1>2. IsFiniteSet(DOMAIN files) /\ Cardinality(DOMAIN files) \in Nat
  BY FS_CardinalityType DEF MapWithinLimits
<1>3. /\ IsFiniteSet(DOMAIN f)
      /\ Cardinality(DOMAIN f) = IF t \in DOMAIN files
                                 THEN Cardinality(DOMAIN files)
                                 ELSE Cardinality(DOMAIN files) + 1
  BY <1>1, <1>2, FS_AddElement
<1>4. Cardinality(DOMAIN f) <= MAX_INDEX_ENTRIES
  BY <1>2, <1>3, LimitsAssumption DEF MapWithinLimits, MapFull
<1> HIDE DEF f
<1> QED
  BY <1>1, <1>3, <1>4 DEF MapWithinLimits, f

\* What store leaves behind is sound when what it found was.
LEMMA SoundStored ==
    ASSUME NEW v, IsVault(v), SoundVault(v),
           NEW n \in Name, NEW x \in Value, NEW d \in Random, NEW m \in Random,
           StoreVerdict(v, n, x) = "Ok",
           ~MapFull(v.files, HmacKeyForName(v.key, n))
    PROVE  /\ SoundVault(StoredIn(v, n, x, d, m))
           /\ StoredIn(v, n, x, d, m).header = v.header
<1> DEFINE t == HmacKeyForName(v.key, n)
           e == SealEntry(v, n, x, d, m)
           f == InsertByKey(v.files, t, e)
           w == StoredIn(v, n, x, d, m)
<1>1. /\ w.header = v.header
      /\ w.key = v.key
      /\ w.data_nonce_counter = v.data_nonce_counter + 1
      /\ w.files = f
  BY DEF StoredIn, IsVault
<1>2. /\ e.data_counter = v.data_nonce_counter
      /\ e.encrypted_name.text = n
      /\ e.encrypted_data.text = x
      /\ EntryOpens(v.key, t, e)
  BY SealEntryFacts
<1>3. EntrySizesOk(e)
  <2>1. NameLen[n] <= MAX_ENTRY_NAME_LEN /\ DataLen[x] <= MAX_ENTRY_DATA_SIZE
    BY LengthsAssumption, LimitsAssumption DEF StoreVerdict
  <2> HIDE DEF e
  <2> QED
    BY <1>2, <2>1 DEF EntrySizesOk
<1>4. MapWithinLimits(f)
  <2> HIDE DEF e, t
  <2> QED
    BY <1>3, InsertWithinLimits DEF SoundVault, Sound, t
<1>5. /\ DOMAIN f = DOMAIN v.files \cup {t}
      /\ \A u \in DOMAIN f : f[u] = IF u = t THEN e ELSE v.files[u]
  BY DEF InsertByKey
<1>6. WellSealed(v.key, f)
  <2> HIDE DEF e, f
  <2> QED
    BY <1>2, <1>5 DEF WellSealed, SoundVault, Sound
<1>7. CounterAheadOf(v.data_nonce_counter + 1, f)
  <2>1. v.data_nonce_counter \in Nat
    BY LimitsAssumption DEF IsVault, U64
  <2>2. \A u \in DOMAIN v.files : v.files[u].data_counter \in Nat
    BY LimitsAssumption DEF IsVault, IsFiles, IndexEntry, U64
  <2> HIDE DEF e, f
  <2> QED
    BY <1>2, <1>5, <2>1, <2>2 DEF CounterAheadOf, SoundVault, Sound
<1> HIDE DEF w, f, e, t
<1> QED
  BY <1>1, <1>4, <1>6, <1>7 DEF SoundVault, Sound, w

\* A new vault, empty or opened from a sound blob, is sound.
LEMMA SoundNewVault ==
    ASSUME NEW p, NEW s, NEW n
    PROVE  /\ SoundVault(NewVault(p, s, n))
           /\ NewVault(p, s, n).header.version = VAULT_VERSION
  BY SoundEmpty DEF NewVault, SoundVault, DeriveKey

LEMMA SoundOpenedVault ==
    ASSUME NEW p, NEW b, SoundBlob(b), OpenResult(p, b) = "Ok"
    PROVE  SoundVault(OpenedVault(p, b))
<1>1. OpensWithAad(DeriveKey(p, b.header), b.nonce, b.encrypted_index, b.header)
  BY DEF OpenResult
<1>2. b.encrypted_index.key = DeriveKey(p, b.header)
  BY <1>1 DEF OpensWithAad
<1> QED
  BY <1>2 DEF SoundBlob, SoundVault, OpenedVault

\* Advancing the index nonce does not touch what soundness is about.
LEMMA SoundAdvanced ==
    ASSUME NEW v, IsVault(v), SoundVault(v), NEW n
    PROVE  /\ SoundVault(AdvanceNonce(v, n))
           /\ AdvanceNonce(v, n).header = v.header
  BY DEF SoundVault, AdvanceNonce, IsVault

\* What export writes is as sound as the vault.
LEMMA SoundExport ==
    ASSUME NEW v, SoundVault(v), v.header.version = VAULT_VERSION
    PROVE  /\ SoundBlob(ExportedBlob(v))
           /\ ExportedBlob(v).header.version = VAULT_VERSION
  BY DEF SoundVault, SoundBlob, ExportedBlob, EncodeIndex, SealWithAad,
         OpensWithAad, DecodedFiles, VAULT_VERSION, LEGACY_VAULT_VERSION_1

\* A version 1 file is sound: the assumption about what 0.2.1 wrote, and the
\* padding entries only help it stay under the cap.
LEMMA SoundLegacy ==
    ASSUME NEW b \in LegacyFiles
    PROVE  SoundBlob(b)
<1> DEFINE c == b.encrypted_index
           d == c.text
           real == DecodeIndexV1Files(d.files)
<1>1. IsLegacyFile(b)
  BY LegacyAssumption
<1>2. DecodedFiles(b.header.version, d) = real
  BY <1>1 DEF IsLegacyFile, DecodedFiles
<1>3. /\ DOMAIN real \subseteq DOMAIN d.files
      /\ \A t \in DOMAIN real :
            /\ t \in RealEntriesV1(d.files)
            /\ real[t].encrypted_name = d.files[t].encrypted_name
            /\ real[t].encrypted_data = d.files[t].encrypted_data
  BY DEF DecodeIndexV1Files, RealEntriesV1
<1> HIDE DEF real
<1>4. MapWithinLimits(real)
  <2>1. IsFiniteSet(DOMAIN d.files) /\ Cardinality(DOMAIN d.files) \in Nat
    BY <1>1, FS_CardinalityType DEF IsLegacyFile
  <2>2. /\ IsFiniteSet(DOMAIN real)
        /\ Cardinality(DOMAIN real) <= Cardinality(DOMAIN d.files)
    BY <1>3, <2>1, FS_Subset
  <2>3. Cardinality(DOMAIN real) \in Nat
    BY <2>2, FS_CardinalityType
  <2>4. Cardinality(DOMAIN d.files) <= MAX_INDEX_ENTRIES
    BY <1>1 DEF IsLegacyFile, DecodeIndexV1Accepts
  <2>5. \A t \in DOMAIN real : EntrySizesOk(real[t])
    BY <1>1, <1>3 DEF IsLegacyFile, DecodeIndexV1Accepts, EntrySizesOk
  <2> QED
    BY <2>1, <2>2, <2>3, <2>4, <2>5, LimitsAssumption DEF MapWithinLimits
<1>5. WellSealed(c.key, real)
  BY <1>1 DEF IsLegacyFile, WellSealed, real
<1>6. CounterAheadOf(d.data_nonce_counter, real)
  BY <1>1 DEF IsLegacyFile, real
<1> QED
  BY <1>1, <1>2, <1>4, <1>5, <1>6 DEF IsLegacyFile, SoundBlob, Sound
-----------------------------------------------------------------------------
(***************************************************************************)
(* The induction.                                                          *)
(***************************************************************************)

\* The conjuncts of IInv, by the variable they speak of.
VaultsSound ==
    \A i \in Inst : vault[i] # NULL =>
        /\ SoundVault(vault[i])
        /\ vault[i].header.version = VAULT_VERSION

RekeysSound ==
    \A i \in Inst : rekey[i] # NULL =>
        /\ SoundVault(rekey[i].old)
        /\ SoundVault(rekey[i].new)
        /\ rekey[i].new.header.version = VAULT_VERSION

ExportsSound ==
    \A b \in exports :
        /\ SoundBlob(b)
        /\ b \in LegacyFiles \/ b.header.version = VAULT_VERSION

LEMMA IInvParts == IInv <=> TypeOK /\ VaultsSound /\ RekeysSound /\ ExportsSound
  BY DEF IInv, VaultsSound, RekeysSound, ExportsSound

LEMMA OneVaultSound ==
    ASSUME IInv, NEW i \in Inst, NEW w,
           \/ w = NULL
           \/ SoundVault(w) /\ w.header.version = VAULT_VERSION,
           vault' = [vault EXCEPT ![i] = w]
    PROVE  VaultsSound'
  BY DEF IInv, TypeOK, VaultsSound

LEMMA OneRekeySound ==
    ASSUME IInv, NEW i \in Inst, NEW r,
           \/ r = NULL
           \/ /\ SoundVault(r.old)
              /\ SoundVault(r.new)
              /\ r.new.header.version = VAULT_VERSION,
           rekey' = [rekey EXCEPT ![i] = r]
    PROVE  RekeysSound'
  BY DEF IInv, TypeOK, RekeysSound

LEMMA SameVaultsSound == IInv /\ vault' = vault => VaultsSound'
  BY DEF IInv, VaultsSound

LEMMA SameRekeysSound == IInv /\ rekey' = rekey => RekeysSound'
  BY DEF IInv, RekeysSound

LEMMA SameExportsSound == IInv /\ exports' = exports => ExportsSound'
  BY DEF IInv, ExportsSound

\* A re-key that begins: the vault it copies is sound, the new one is empty.
LEMMA BeginRekeySound ==
    ASSUME IInv, NEW i \in Inst, NEW call, NEW v, SoundVault(v),
           NEW p \in Password, BeginRekey(i, call, v, p)
    PROVE  RekeysSound'
<1> DEFINE new == NewVault(p, drawn + 1, drawn + 2)
           r == [call |-> call, old |-> v, new |-> new, todo |-> DOMAIN v.files]
<1>1. SoundVault(new) /\ new.header.version = VAULT_VERSION
  BY SoundNewVault
<1>2. rekey' = [rekey EXCEPT ![i] = r]
  BY DEF BeginRekey
<1> HIDE DEF new
<1>3. r.old = v /\ r.new = new
  OBVIOUS
<1> HIDE DEF r
<1> QED
  BY <1>1, <1>2, <1>3, OneRekeySound

LEMMA IInvInit == Init => IInv
<1> SUFFICES ASSUME Init PROVE IInv
  OBVIOUS
<1>1. TypeOK
  BY TypeInit
<1>2. \A b \in exports : SoundBlob(b) /\ b \in LegacyFiles
  BY SoundLegacy DEF Init
<1> QED
  BY <1>1, <1>2 DEF Init, IInv

LEMMA StepKeepsSoundness ==
    ASSUME IInv, [Next]_vars
    PROVE  VaultsSound' /\ RekeysSound' /\ ExportsSound'
<1> DEFINE Done == VaultsSound' /\ RekeysSound' /\ ExportsSound'
<1> USE SameVaultsSound, SameRekeysSound, SameExportsSound
<1>1. CASE UNCHANGED vars
  BY <1>1 DEF vars
<1>2. ASSUME NEW i \in Inst, NEW p \in Password, Create(i, p)
      PROVE  Done
  BY <1>2, SoundNewVault, OneVaultSound DEF Create
<1>3. ASSUME NEW i \in Inst, NEW p \in Password, NEW b \in exports,
             OpenCurrent(i, p, b)
      PROVE  Done
  <2>1. SoundVault(OpenedVault(p, b))
    BY <1>3, SoundOpenedVault DEF OpenCurrent, IInv
  <2>2. OpenedVault(p, b).header.version = VAULT_VERSION
    BY <1>3 DEF OpenCurrent, OpenedVault
  <2> QED
    BY <1>3, <2>1, <2>2, OneVaultSound DEF OpenCurrent
<1>4. ASSUME NEW i \in Inst, NEW p \in Password, NEW b \in exports,
             OpenLegacy(i, p, b)
      PROVE  Done
  <2>1. SoundVault(OpenedVault(p, b))
    BY <1>4, SoundOpenedVault DEF OpenLegacy, IInv
  <2> QED
    BY <1>4, <2>1, BeginRekeySound DEF OpenLegacy
<1>5. ASSUME NEW i \in Inst, NEW p \in Password, NEW q \in Password,
             ChangePassword(i, p, q)
      PROVE  Done
  <2>1. SoundVault(vault[i])
    BY <1>5 DEF ChangePassword, Open, IInv
  <2> QED
    BY <1>5, <2>1, BeginRekeySound DEF ChangePassword
<1>6. ASSUME NEW i \in Inst, NEW n \in Name, Remove(i, n)
      PROVE  Done
  <2> DEFINE v == vault[i]
             f == RemoveByKey(v.files, HmacKeyForName(v.key, n))
             w == [v EXCEPT !.files = f]
  <2>1. /\ IsVault(v) /\ SoundVault(v)
        /\ v.header.version = VAULT_VERSION
        /\ vault' = [vault EXCEPT ![i] = w]
    BY <1>6 DEF Remove, Open, IInv, TypeOK
  <2>2. Sound(v.key, v.data_nonce_counter, f)
    BY <2>1, SoundRestricted DEF SoundVault
  <2> HIDE DEF f
  <2>3. SoundVault(w) /\ w.header.version = VAULT_VERSION
    BY <2>1, <2>2 DEF SoundVault, IsVault
  <2> HIDE DEF w
  <2> QED
    BY <1>6, <2>1, <2>3, OneVaultSound DEF Remove
<1>7. ASSUME NEW i \in Inst, NEW n \in Name, NEW x \in Value, Store(i, n, x)
      PROVE  Done
  <2> DEFINE w == StoredIn(vault[i], n, x, drawn + 1, drawn + 2)
  <2>1. /\ IsVault(vault[i]) /\ SoundVault(vault[i])
        /\ vault[i].header.version = VAULT_VERSION
        /\ drawn + 1 \in Random /\ drawn + 2 \in Random
    BY <1>7 DEF Store, Open, IInv, TypeOK, Random
  <2>2. SoundVault(w) /\ w.header.version = VAULT_VERSION
    BY <1>7, <2>1, SoundStored DEF Store
  <2> QED
    BY <1>7, <2>2, OneVaultSound DEF Store
<1>8. ASSUME NEW i \in Inst, NEW n \in Name, NEW x \in Value,
             StoreWastesCounter(i, n, x)
      PROVE  Done
  <2> DEFINE v == vault[i]
             w == [v EXCEPT !.data_nonce_counter = @ + 1]
  <2>1. /\ IsVault(v) /\ SoundVault(v)
        /\ v.header.version = VAULT_VERSION
        /\ vault' = [vault EXCEPT ![i] = w]
    BY <1>8 DEF StoreWastesCounter, Open, IInv, TypeOK
  <2>2. /\ w.key = v.key /\ w.header = v.header /\ w.files = v.files
        /\ w.data_nonce_counter = v.data_nonce_counter + 1
    BY <2>1 DEF IsVault
  <2>3. Sound(v.key, v.data_nonce_counter + 1, v.files)
    BY <2>1, SoundLater, LimitsAssumption DEF SoundVault, IsVault, U64
  <2> HIDE DEF w
  <2>4. SoundVault(w) /\ w.header.version = VAULT_VERSION
    BY <2>1, <2>2, <2>3 DEF SoundVault
  <2> QED
    BY <1>8, <2>1, <2>4, OneVaultSound DEF StoreWastesCounter
<1>9. ASSUME NEW i \in Inst, Export(i)
      PROVE  Done
  <2> DEFINE v == AdvanceNonce(vault[i], drawn + 1)
             b == ExportedBlob(v)
  <2>1. /\ vault' = [vault EXCEPT ![i] = v]
        /\ exports' = exports \cup {b}
        /\ rekey' = rekey
    BY <1>9 DEF Export
  <2>2. SoundVault(v) /\ v.header.version = VAULT_VERSION
    BY <1>9, SoundAdvanced DEF Export, Open, IInv, TypeOK
  <2>3. SoundBlob(b) /\ b.header.version = VAULT_VERSION
    BY <2>2, SoundExport
  <2> HIDE DEF v, b
  <2>4. ExportsSound'
    BY <2>1, <2>3 DEF ExportsSound, IInv
  <2> QED
    BY <2>1, <2>2, <2>4, OneVaultSound
<1>10. ASSUME NEW i \in Inst, ExportTooLarge(i)
       PROVE  Done
  <2> DEFINE v == AdvanceNonce(vault[i], drawn + 1)
  <2>1. SoundVault(v) /\ v.header.version = VAULT_VERSION
    BY <1>10, SoundAdvanced DEF ExportTooLarge, Open, IInv, TypeOK
  <2> QED
    BY <1>10, <2>1, OneVaultSound DEF ExportTooLarge
<1>11. ASSUME NEW i \in Inst, ExportWastesCounter(i)
       PROVE  Done
  <2> DEFINE v == vault[i]
             w == [v EXCEPT !.nonce_counter = @ + 1]
  <2>1. /\ IsVault(v) /\ SoundVault(v)
        /\ v.header.version = VAULT_VERSION
        /\ vault' = [vault EXCEPT ![i] = w]
    BY <1>11 DEF ExportWastesCounter, Open, IInv, TypeOK
  <2>2. SoundVault(w) /\ w.header.version = VAULT_VERSION
    BY <2>1 DEF SoundVault, IsVault
  <2> HIDE DEF w
  <2> QED
    BY <1>11, <2>1, <2>2, OneVaultSound DEF ExportWastesCounter
<1>12. ASSUME NEW i \in Inst, RekeyEntry(i)
       PROVE  Done
  <2>1. /\ IsRekey(rekey[i])
        /\ SoundVault(rekey[i].old) /\ SoundVault(rekey[i].new)
        /\ rekey[i].new.header.version = VAULT_VERSION
    BY <1>12 DEF RekeyEntry, Idle, IInv, TypeOK
  <2>2. PICK t \in rekey[i].todo :
          LET old == rekey[i].old
              new == rekey[i].new
              n == old.files[t].encrypted_name.text
              x == old.files[t].encrypted_data.text
          IN /\ StoreVerdict(new, n, x) = "Ok"
             /\ ~MapFull(new.files, HmacKeyForName(new.key, n))
             /\ rekey' = [rekey EXCEPT
                            ![i].new = StoredIn(@, n, x, drawn + 1, drawn + 2),
                            ![i].todo = @ \ {t}]
    BY <1>12 DEF RekeyEntry
  <2> DEFINE n == rekey[i].old.files[t].encrypted_name.text
             x == rekey[i].old.files[t].encrypted_data.text
             new == StoredIn(rekey[i].new, n, x, drawn + 1, drawn + 2)
             r == [rekey[i] EXCEPT !.new = new, !.todo = @ \ {t}]
  <2>3. n \in Name /\ x \in Value
    BY <2>1 DEF IsRekey, IsVault, IsFiles, IndexEntry
  <2>4. drawn + 1 \in Random /\ drawn + 2 \in Random
    BY DEF IInv, TypeOK, Random
  <2>5. SoundVault(new) /\ new.header.version = VAULT_VERSION
    <3>1. IsVault(rekey[i].new)
      BY <2>1 DEF IsRekey
    <3>2. /\ StoreVerdict(rekey[i].new, n, x) = "Ok"
          /\ ~MapFull(rekey[i].new.files, HmacKeyForName(rekey[i].new.key, n))
      BY <2>2
    <3> HIDE DEF n, x
    <3>3. SoundVault(new) /\ new.header = rekey[i].new.header
      BY <2>1, <2>3, <2>4, <3>1, <3>2, SoundStored
    <3> QED
      BY <2>1, <3>3
  <2>6. rekey' = [rekey EXCEPT ![i] = r]
    BY <2>2 DEF IInv, TypeOK
  <2> HIDE DEF n, x, new
  <2>7. r.old = rekey[i].old /\ r.new = new
    BY <2>1 DEF IsRekey
  <2> HIDE DEF r
  <2>8. RekeysSound'
    BY <2>1, <2>5, <2>6, <2>7, OneRekeySound
  <2> QED
    BY <1>12, <2>8 DEF RekeyEntry
<1>13. ASSUME NEW i \in Inst, RekeyAborts(i)
       PROVE  Done
  BY <1>13, OneRekeySound DEF RekeyAborts
<1>14. ASSUME NEW i \in Inst, RekeyCommit(i)
       PROVE  Done
  <2>1. /\ SoundVault(rekey[i].new)
        /\ rekey[i].new.header.version = VAULT_VERSION
    BY <1>14 DEF RekeyCommit, Idle, IInv
  <2> QED
    BY <1>14, <2>1, OneVaultSound, OneRekeySound DEF RekeyCommit
<1>15. ASSUME NEW i \in Inst, Crash(i)
       PROVE  Done
  BY <1>15, OneVaultSound, OneRekeySound DEF Crash
<1>16. ASSUME NEW i \in Inst,
              NEW p \in Password, NEW q \in Password,
              \/ CreateRefused(i, p)
              \/ ChangePasswordRefused(i, p, q)
              \/ KeySetupFails(i, p, q)
       PROVE  Done
  BY <1>16 DEF CreateRefused, ChangePasswordRefused, KeySetupFails, Fails
<1>17. ASSUME NEW i \in Inst, NEW p \in Password, NEW b \in exports,
              OpenRefused(i, p, b)
       PROVE  Done
  BY <1>17 DEF OpenRefused, Fails
<1>18. ASSUME NEW i \in Inst, NEW n \in Name, Retrieve(i, n)
       PROVE  Done
  BY <1>18 DEF Retrieve
<1>19. ASSUME NEW i \in Inst, NEW n \in Name, NEW x \in Value,
              StoreRefused(i, n, x)
       PROVE  Done
  BY <1>19 DEF StoreRefused, Fails
<1>20. ASSUME NEW i \in Inst, ExportOverflows(i)
       PROVE  Done
  BY <1>20 DEF ExportOverflows, Fails
<1> QED
  BY <1>1, <1>2, <1>3, <1>4, <1>5, <1>6, <1>7, <1>8, <1>9, <1>10, <1>11,
     <1>12, <1>13, <1>14, <1>15, <1>16, <1>17, <1>18, <1>19, <1>20
     DEF Next

LEMMA IInvNext == IInv /\ [Next]_vars => IInv'
  BY TypeNext, StepKeepsSoundness
     DEF IInv, VaultsSound, RekeysSound, ExportsSound

LEMMA IInvHolds == Spec => []IInv
  BY IInvInit, IInvNext, PTL DEF Spec
-----------------------------------------------------------------------------
(***************************************************************************)
(* The properties of the runs.                                             *)
(***************************************************************************)

\* The data counter of every vault in memory, half re-keyed ones included, and
\* of every exported blob is past every entry stored with it
\* (next_data_nonce_counter, from_subkeys_and_data).
THEOREM CounterStaysAhead == Spec => []CounterAhead
<1>1. IInv => CounterAhead
  BY DEF IInv, CounterAhead, LiveVaults, Idle, SoundVault, SoundBlob, Sound
<1> QED
  BY <1>1, IInvHolds, PTL

\* Every entry of every vault in memory and of every blob opens under the
\* vault's key with the counter stored beside it (store, rekey, decode_index).
THEOREM EntriesStayReadable == Spec => []EveryEntryOpens
<1>1. IInv => EveryEntryOpens
  BY DEF IInv, EveryEntryOpens, LiveVaults, Idle, SoundVault, SoundBlob, Sound
<1> QED
  BY <1>1, IInvHolds, PTL

\* Only the files that were of format version 1 to begin with are: every vault
\* in memory is current and export writes nothing else (open, rekey, export).
THEOREM FormatStaysCurrent == Spec => []AlwaysCurrentFormat
<1>1. IInv => AlwaysCurrentFormat
  BY DEF IInv, AlwaysCurrentFormat
<1> QED
  BY <1>1, IInvHolds, PTL

\* What a blob must satisfy for open to accept it, of either version.
LEMMA BlobIsReadable ==
    ASSUME IInv, NEW b \in exports
    PROVE  LET c == b.encrypted_index IN
           /\ b.len <= MAX_VAULT_FILE_SIZE
           /\ b.header.version \in SUPPORTED_VAULT_VERSIONS
           /\ c.key \in Key
           /\ SoundBlob(b)
           /\ DecoderAccepts(b.header.version, c.text)
<1>1. SoundBlob(b)
  BY DEF IInv
<1>2. CASE b \in LegacyFiles
  <2>1. IsLegacyFile(b)
    BY <1>2, LegacyAssumption
  <2> QED
    BY <1>1, <2>1 DEF IsLegacyFile, DecoderAccepts, SUPPORTED_VAULT_VERSIONS
<1>3. CASE b \notin LegacyFiles
  <2>1. IsExport(b) /\ b.header.version = VAULT_VERSION
    BY <1>3 DEF IInv, TypeOK
  <2>2. DecodeIndexAccepts(b.encrypted_index.text)
    BY <1>1, <2>1 DEF IsExport, SoundBlob, Sound, MapWithinLimits,
       DecodedFiles, DecodeIndexAccepts, VAULT_VERSION, LEGACY_VAULT_VERSION_1
  <2> QED
    BY <1>1, <2>1, <2>2 DEF IsExport, ValidExportSize, DecoderAccepts,
       SUPPORTED_VAULT_VERSIONS, VAULT_VERSION, LEGACY_VAULT_VERSION_1
<1> QED
  BY <1>2, <1>3

\* Every blob export ever returned, and every version 1 file, opens with the
\* password it was sealed under, and any other password is told apart from a
\* corrupted file (open, export, decode_index).
THEOREM ExportsReopen == Spec => []EveryExportReopens
<1>1. IInv => EveryExportReopens
  <2> SUFFICES ASSUME IInv, NEW b \in exports, NEW p \in Password
               PROVE  OpenResult(p, b) =
                        IF p = b.encrypted_index.key.password
                            THEN "Ok" ELSE "InvalidPassword"
    BY DEF EveryExportReopens
  <2> DEFINE c == b.encrypted_index
             key == DeriveKey(p, b.header)
  <2>1. /\ b.len <= MAX_VAULT_FILE_SIZE
        /\ b.header.version \in SUPPORTED_VAULT_VERSIONS
        /\ c.key \in Key
        /\ SoundBlob(b)
        /\ DecoderAccepts(b.header.version, c.text)
    BY BlobIsReadable
  <2>2. c.key = key <=> p = c.key.password
    BY <2>1 DEF Key, DeriveKey, SoundBlob
  <2>3. OpensWithAad(key, b.nonce, c, b.header) <=> p = c.key.password
    BY <2>1, <2>2 DEF SoundBlob, OpensWithAad
  <2>4. CounterAheadOf(c.text.data_nonce_counter,
                       DecodedFiles(b.header.version, c.text))
    BY <2>1 DEF SoundBlob, Sound
  <2> HIDE DEF c, key
  <2> QED
    BY <2>1, <2>3, <2>4 DEF OpenResult, c, key
<1> QED
  BY <1>1, IInvHolds, PTL
-----------------------------------------------------------------------------
(***************************************************************************)
(* Re-keying.  The new vault takes a counter value for every entry it has  *)
(* copied, so what it has taken and what is left add up to the old map.    *)
(***************************************************************************)
CopiesCounted ==
    \A i \in Inst : rekey[i] # NULL =>
        LET r == rekey[i] IN
        /\ r.new.data_nonce_counter + Cardinality(r.todo) = Cardinality(DOMAIN r.old.files)
        /\ Cardinality(DOMAIN r.new.files) <= r.new.data_nonce_counter

LEMMA OneRekeyCounted ==
    ASSUME CopiesCounted, DOMAIN rekey = Inst, NEW i \in Inst, NEW r,
           \/ r = NULL
           \/ /\ r.new.data_nonce_counter + Cardinality(r.todo)
                    = Cardinality(DOMAIN r.old.files)
              /\ Cardinality(DOMAIN r.new.files) <= r.new.data_nonce_counter,
           rekey' = [rekey EXCEPT ![i] = r]
    PROVE  CopiesCounted'
  BY DEF CopiesCounted

LEMMA BeginRekeyCounted ==
    ASSUME IInv, CopiesCounted, NEW i \in Inst, NEW call, NEW v, SoundVault(v),
           NEW p \in Password, BeginRekey(i, call, v, p)
    PROVE  CopiesCounted'
<1> DEFINE new == NewVault(p, drawn + 1, drawn + 2)
           r == [call |-> call, old |-> v, new |-> new, todo |-> DOMAIN v.files]
<1>1. new.data_nonce_counter = 0 /\ Cardinality(DOMAIN new.files) = 0
  BY FS_EmptySet DEF NewVault, NoFiles
<1>2. Cardinality(DOMAIN v.files) \in Nat
  BY FS_CardinalityType DEF SoundVault, Sound, MapWithinLimits
<1>3. rekey' = [rekey EXCEPT ![i] = r]
  BY DEF BeginRekey
<1> HIDE DEF new
<1>4. /\ r.old = v /\ r.new = new /\ r.todo = DOMAIN v.files
      /\ DOMAIN rekey = Inst
  BY DEF IInv, TypeOK
<1>5. /\ r.new.data_nonce_counter + Cardinality(r.todo) = Cardinality(DOMAIN r.old.files)
      /\ Cardinality(DOMAIN r.new.files) <= r.new.data_nonce_counter
  BY <1>1, <1>2, <1>4
<1> HIDE DEF r
<1> QED
  BY <1>3, <1>4, <1>5, OneRekeyCounted

\* An entry more in the new map takes one counter value and one name at most.
LEMMA StoredCounted ==
    ASSUME NEW v, IsVault(v), SoundVault(v),
           NEW n \in Name, NEW x \in Value, NEW d, NEW m
    PROVE  LET w == StoredIn(v, n, x, d, m) IN
           /\ w.data_nonce_counter = v.data_nonce_counter + 1
           /\ Cardinality(DOMAIN w.files) <= Cardinality(DOMAIN v.files) + 1
<1> DEFINE t == HmacKeyForName(v.key, n)
           w == StoredIn(v, n, x, d, m)
<1>1. /\ w.data_nonce_counter = v.data_nonce_counter + 1
      /\ DOMAIN w.files = DOMAIN v.files \cup {t}
  BY DEF StoredIn, InsertByKey, IsVault
<1>2. IsFiniteSet(DOMAIN v.files) /\ Cardinality(DOMAIN v.files) \in Nat
  BY FS_CardinalityType DEF SoundVault, Sound, MapWithinLimits
<1>3. Cardinality(DOMAIN v.files \cup {t}) <= Cardinality(DOMAIN v.files) + 1
  BY <1>2, FS_AddElement
<1> QED
  BY <1>1, <1>3

LEMMA StepKeepsCopiesCounted ==
    ASSUME IInv, CopiesCounted, [Next]_vars
    PROVE  CopiesCounted'
<1>1. CASE rekey' = rekey
  BY <1>1 DEF CopiesCounted
<1>2. ASSUME NEW i \in Inst, NEW p \in Password, NEW b \in exports,
             OpenLegacy(i, p, b)
      PROVE  CopiesCounted'
  <2>1. SoundVault(OpenedVault(p, b))
    BY <1>2, SoundOpenedVault DEF OpenLegacy, IInv
  <2> QED
    BY <1>2, <2>1, BeginRekeyCounted DEF OpenLegacy
<1>3. ASSUME NEW i \in Inst, NEW p \in Password, NEW q \in Password,
             ChangePassword(i, p, q)
      PROVE  CopiesCounted'
  <2>1. SoundVault(vault[i])
    BY <1>3 DEF ChangePassword, Open, IInv
  <2> QED
    BY <1>3, <2>1, BeginRekeyCounted DEF ChangePassword
<1>4. ASSUME NEW i \in Inst, RekeyEntry(i)
      PROVE  CopiesCounted'
  <2>1. /\ IsRekey(rekey[i])
        /\ SoundVault(rekey[i].old) /\ SoundVault(rekey[i].new)
        /\ rekey[i] # NULL
    BY <1>4 DEF RekeyEntry, Idle, IInv, TypeOK
  <2>2. PICK t \in rekey[i].todo :
          LET old == rekey[i].old
              n == old.files[t].encrypted_name.text
              x == old.files[t].encrypted_data.text
          IN rekey' = [rekey EXCEPT
                         ![i].new = StoredIn(@, n, x, drawn + 1, drawn + 2),
                         ![i].todo = @ \ {t}]
    BY <1>4 DEF RekeyEntry
  <2> DEFINE n == rekey[i].old.files[t].encrypted_name.text
             x == rekey[i].old.files[t].encrypted_data.text
             new == StoredIn(rekey[i].new, n, x, drawn + 1, drawn + 2)
             r == [rekey[i] EXCEPT !.new = new, !.todo = @ \ {t}]
  <2>3. n \in Name /\ x \in Value
    BY <2>1 DEF IsRekey, IsVault, IsFiles, IndexEntry
  <2>4. /\ new.data_nonce_counter = rekey[i].new.data_nonce_counter + 1
        /\ Cardinality(DOMAIN new.files)
             <= Cardinality(DOMAIN rekey[i].new.files) + 1
    BY <2>1, <2>3, StoredCounted DEF IsRekey
  <2>5. rekey' = [rekey EXCEPT ![i] = r] /\ DOMAIN rekey = Inst
    BY <2>2 DEF IInv, TypeOK
  <2> HIDE DEF n, x, new
  <2>6. r.old = rekey[i].old /\ r.new = new /\ r.todo = rekey[i].todo \ {t}
    BY <2>1 DEF IsRekey
  <2> HIDE DEF r
  <2>7. /\ IsFiniteSet(rekey[i].todo)
        /\ IsFiniteSet(DOMAIN rekey[i].old.files)
        /\ IsFiniteSet(DOMAIN rekey[i].new.files)
    <3>1. rekey[i].todo \in SUBSET DOMAIN rekey[i].old.files
      BY <2>1 DEF IsRekey
    <3> QED
      BY <2>1, <3>1, FS_Subset DEF SoundVault, Sound, MapWithinLimits
  <2>8. /\ Cardinality(rekey[i].todo) \in Nat
        /\ Cardinality(r.todo) = Cardinality(rekey[i].todo) - 1
        /\ Cardinality(DOMAIN rekey[i].old.files) \in Nat
        /\ Cardinality(DOMAIN rekey[i].new.files) \in Nat
        /\ rekey[i].new.data_nonce_counter \in Nat
    <3>1. rekey[i].new.data_nonce_counter \in Nat
      BY <2>1, LimitsAssumption DEF IsRekey, IsVault, U64
    <3>2. Cardinality(rekey[i].todo \ {t}) = Cardinality(rekey[i].todo) - 1
      BY <2>7, FS_RemoveElement
    <3> QED
      BY <2>6, <2>7, <3>1, <3>2, FS_CardinalityType
  <2>9. Cardinality(DOMAIN new.files) \in Nat
    <3>1. DOMAIN new.files = DOMAIN rekey[i].new.files \cup {HmacKeyForName(rekey[i].new.key, n)}
      BY <2>1 DEF new, StoredIn, InsertByKey, IsRekey, IsVault
    <3> QED
      BY <2>7, <3>1, FS_AddElement, FS_CardinalityType
  <2>10. /\ r.new.data_nonce_counter + Cardinality(r.todo)
              = Cardinality(DOMAIN r.old.files)
         /\ Cardinality(DOMAIN r.new.files) <= r.new.data_nonce_counter
    BY <2>1, <2>4, <2>6, <2>8, <2>9 DEF CopiesCounted
  <2> QED
    BY <2>5, <2>10, OneRekeyCounted
<1>5. ASSUME NEW i \in Inst, RekeyAborts(i) \/ RekeyCommit(i) \/ Crash(i)
      PROVE  CopiesCounted'
  <2>1. rekey' = [rekey EXCEPT ![i] = NULL] /\ DOMAIN rekey = Inst
    BY <1>5 DEF RekeyAborts, RekeyCommit, Crash, IInv, TypeOK
  <2> QED
    BY <2>1, OneRekeyCounted
<1>6. ASSUME NEW i \in Inst, NEW p \in Password,
             \/ Create(i, p) \/ CreateRefused(i, p)
             \/ \E b \in exports : OpenCurrent(i, p, b) \/ OpenRefused(i, p, b)
             \/ \E q \in Password : \/ ChangePasswordRefused(i, p, q)
                                    \/ KeySetupFails(i, p, q)
      PROVE  rekey' = rekey
  BY <1>6 DEF Create, CreateRefused, OpenCurrent, OpenRefused,
              ChangePasswordRefused, KeySetupFails, Fails
<1>7. ASSUME NEW i \in Inst, NEW n \in Name,
             \/ Retrieve(i, n) \/ Remove(i, n)
             \/ \E x \in Value : \/ Store(i, n, x) \/ StoreRefused(i, n, x)
                                 \/ StoreWastesCounter(i, n, x)
      PROVE  rekey' = rekey
  BY <1>7 DEF Retrieve, Remove, Store, StoreRefused, StoreWastesCounter, Fails
<1>8. ASSUME NEW i \in Inst,
             \/ Export(i) \/ ExportTooLarge(i) \/ ExportOverflows(i)
             \/ ExportWastesCounter(i)
      PROVE  rekey' = rekey
  BY <1>8 DEF Export, ExportTooLarge, ExportOverflows, ExportWastesCounter, Fails
<1> QED
  BY <1>1, <1>2, <1>3, <1>4, <1>5, <1>6, <1>7, <1>8 DEF Next, vars

\* With entries left, the new vault has a counter value and room for them.
LEMMA RoomForTheRest ==
    ASSUME IInv, CopiesCounted, NEW i \in Inst, rekey[i] # NULL,
           NEW t \in rekey[i].todo
    PROVE  /\ rekey[i].new.data_nonce_counter < MAX_U64
           /\ Cardinality(DOMAIN rekey[i].new.files) < MAX_INDEX_ENTRIES
<1> DEFINE r == rekey[i]
<1>1. IsRekey(r) /\ SoundVault(r.old) /\ SoundVault(r.new)
  BY DEF IInv, TypeOK
<1>2. /\ IsFiniteSet(DOMAIN r.old.files) /\ IsFiniteSet(DOMAIN r.new.files)
      /\ Cardinality(DOMAIN r.old.files) <= MAX_INDEX_ENTRIES
  BY <1>1 DEF SoundVault, Sound, MapWithinLimits
<1>3. IsFiniteSet(r.todo)
  BY <1>1, <1>2, FS_Subset DEF IsRekey
<1>4. /\ Cardinality(r.todo) \in Nat /\ Cardinality(r.todo) # 0
      /\ Cardinality(DOMAIN r.old.files) \in Nat
      /\ Cardinality(DOMAIN r.new.files) \in Nat
  BY <1>2, <1>3, FS_CardinalityType, FS_EmptySet
<1>5. r.new.data_nonce_counter \in Nat
  BY <1>1, LimitsAssumption DEF IsRekey, IsVault, U64
<1>6. /\ r.new.data_nonce_counter + Cardinality(r.todo) = Cardinality(DOMAIN r.old.files)
      /\ Cardinality(DOMAIN r.new.files) <= r.new.data_nonce_counter
  BY DEF CopiesCounted
<1> HIDE DEF r
<1>7. r.new.data_nonce_counter < MAX_U64 /\ Cardinality(DOMAIN r.new.files) < MAX_INDEX_ENTRIES
  BY <1>2, <1>4, <1>5, <1>6, LimitsAssumption
<1> QED
  BY <1>7 DEF r

\* A re-key that has begun fails only for the machine's sake: no entry of the
\* old vault, however full it is, meets a limit or fails to open (rekey).
THEOREM RekeysNeverRefused == Spec => []RekeyNeverRefused
<1>1. Init => CopiesCounted
  BY DEF Init, CopiesCounted
<1>2. IInv /\ CopiesCounted => RekeyNeverRefused
  <2> SUFFICES ASSUME IInv, CopiesCounted, NEW i \in Inst, ~Idle(i),
                      NEW t \in rekey[i].todo
               PROVE  LET r == rekey[i]
                          e == r.old.files[t] IN
                      /\ EntryOpens(r.old.key, t, e)
                      /\ RekeyErrors(r, t) = {"CryptoError"}
                      /\ StoreVerdict(r.new, e.encrypted_name.text, e.encrypted_data.text) = "Ok"
    BY DEF RekeyNeverRefused
  <2> DEFINE r == rekey[i]
             e == r.old.files[t]
             n == e.encrypted_name.text
             x == e.encrypted_data.text
  <2>1. IsRekey(r) /\ SoundVault(r.old)
    BY DEF IInv, TypeOK, Idle
  <2>2. t \in DOMAIN r.old.files
    BY <2>1 DEF IsRekey
  <2>3. EntryOpens(r.old.key, t, e) /\ EntrySizesOk(e)
    BY <2>1, <2>2 DEF SoundVault, Sound, WellSealed, MapWithinLimits
  <2>4. n \in Name /\ x \in Value
    BY <2>1, <2>2 DEF IsRekey, IsVault, IsFiles, IndexEntry
  <2>5. /\ r.new.data_nonce_counter < MAX_U64
        /\ Cardinality(DOMAIN r.new.files) < MAX_INDEX_ENTRIES
    BY RoomForTheRest DEF Idle
  <2>6. StoreVerdict(r.new, n, x) = "Ok"
    <3>1. r.new.data_nonce_counter \in Nat
      BY <2>1, LimitsAssumption DEF IsRekey, IsVault, U64
    <3>2. NameLen[n] \in Nat /\ DataLen[x] \in Nat
      BY <2>4, LengthsAssumption
    <3>3. NameLen[n] <= MAX_ENTRY_NAME_LEN /\ DataLen[x] <= MAX_ENTRY_DATA_SIZE
      BY <2>3 DEF EntrySizesOk
    <3> HIDE DEF n, x, r
    <3> QED
      BY <2>5, <3>1, <3>2, <3>3, LimitsAssumption DEF StoreVerdict
  <2>7. ~MapFull(r.new.files, HmacKeyForName(r.new.key, n))
    <3>1. Cardinality(DOMAIN r.new.files) \in Nat
      BY FS_CardinalityType DEF IInv, SoundVault, Sound, MapWithinLimits, Idle
    <3> HIDE DEF n, r
    <3> QED
      BY <2>5, <3>1, LimitsAssumption DEF MapFull
  <2>8. RekeyErrors(r, t) = {"CryptoError"}
    BY <2>6, <2>7 DEF RekeyErrors
  <2> QED
    BY <2>3, <2>6, <2>8
<1>3. Spec => []CopiesCounted
  BY <1>1, StepKeepsCopiesCounted, IInvHolds, PTL DEF Spec
<1> QED
  BY <1>2, <1>3, IInvHolds, PTL

-----------------------------------------------------------------------------
(***************************************************************************)
(* Histories: what the objects have in common with the blobs they come     *)
(* from.  Two inductions on top of IInv.  The one for nonces says that     *)
(* every ciphertext there is was sealed under a nonce that has been drawn; *)
(* what a step seals, it seals under nonces that have not.  The one for    *)
(* the lines of blobs needs to know that the header of a pending re-key is *)
(* in no blob and no vault yet, so that nothing an object has seen before  *)
(* a re-key can meet what it stores after it.                              *)
(***************************************************************************)
FilesIn(b) == DecodedFiles(b.header.version, b.encrypted_index.text)

(***************************************************************************)
(* Every call that only answers.                                           *)
(***************************************************************************)
state == <<vault, rekey, exports, drawn, seen, ancestry>>

Answers(i) ==
    \/ \E p \in Password :
        \/ CreateRefused(i, p)
        \/ \E b \in exports : OpenRefused(i, p, b)
        \/ \E q \in Password : \/ ChangePasswordRefused(i, p, q)
                               \/ KeySetupFails(i, p, q)
    \/ \E n \in Name :
        \/ Retrieve(i, n)
        \/ \E x \in Value : StoreRefused(i, n, x)
    \/ ExportOverflows(i)

LEMMA AnswersOnly ==
    ASSUME NEW i \in Inst, Answers(i)
    PROVE  UNCHANGED state
  BY DEF Answers, CreateRefused, OpenRefused, ChangePasswordRefused, KeySetupFails,
         Retrieve, StoreRefused, ExportOverflows, Fails, state
-----------------------------------------------------------------------------
(***************************************************************************)
(* Nonces.                                                                 *)
(***************************************************************************)
VaultSealed == UNION {SealedIn(vault[i].files) : i \in {j \in Inst : vault[j] # NULL}}

RekeySealed ==
    UNION {SealedIn(rekey[i].old.files) \cup SealedIn(rekey[i].new.files) :
             i \in {j \in Inst : rekey[j] # NULL}}

ExportSealed == UNION {{b.encrypted_index} \cup SealedIn(FilesIn(b)) : b \in exports}

\* Every nonce in use has been drawn.
NoncesDrawn == \A c \in AllSealed : c.nonce \in 1..drawn

LEMMA AllSealedNow == AllSealed = VaultSealed \cup RekeySealed \cup ExportSealed
<1> DEFINE L == UNION {SealedIn(v.files) : v \in LiveVaults}
           B == {b.encrypted_index : b \in exports}
           F == UNION {SealedIn(FilesIn(b)) : b \in exports}
<1>1. ASSUME NEW c, c \in L PROVE c \in VaultSealed \cup RekeySealed
  <2>1. PICK v \in LiveVaults : c \in SealedIn(v.files)
    BY <1>1
  <2>2. \/ \E i \in Inst : vault[i] # NULL /\ v = vault[i]
        \/ \E i \in Inst : rekey[i] # NULL /\ v \in {rekey[i].old, rekey[i].new}
    BY DEF LiveVaults, Idle
  <2>3. CASE \E i \in Inst : vault[i] # NULL /\ v = vault[i]
    BY <2>1, <2>3 DEF VaultSealed
  <2>4. CASE \E i \in Inst : rekey[i] # NULL /\ v \in {rekey[i].old, rekey[i].new}
    BY <2>1, <2>4 DEF RekeySealed
  <2> QED
    BY <2>2, <2>3, <2>4
<1>2. ASSUME NEW c, c \in VaultSealed PROVE c \in L
  <2>1. PICK i \in Inst : vault[i] # NULL /\ c \in SealedIn(vault[i].files)
    BY <1>2 DEF VaultSealed
  <2>2. vault[i] \in LiveVaults
    BY <2>1 DEF LiveVaults
  <2> QED
    BY <2>1, <2>2
<1>3. ASSUME NEW c, c \in RekeySealed PROVE c \in L
  <2>1. PICK i \in Inst : /\ rekey[i] # NULL
                          /\ c \in SealedIn(rekey[i].old.files) \cup SealedIn(rekey[i].new.files)
    BY <1>3 DEF RekeySealed
  <2>2. {rekey[i].old, rekey[i].new} \subseteq LiveVaults
    BY <2>1 DEF LiveVaults, Idle
  <2> QED
    BY <2>1, <2>2
<1>4. ASSUME NEW c PROVE c \in ExportSealed <=> c \in B \cup F
  BY DEF ExportSealed
<1>5. AllSealed = L \cup B \cup F
  BY DEF AllSealed, FilesIn
<1> HIDE DEF L, B, F
<1>6. L \subseteq VaultSealed \cup RekeySealed
  BY <1>1
<1>7. VaultSealed \cup RekeySealed \subseteq L
  BY <1>2, <1>3
<1>8. ExportSealed \subseteq B \cup F /\ B \cup F \subseteq ExportSealed
  BY <1>4
<1> QED
  BY <1>5, <1>6, <1>7, <1>8

LEMMA AllSealedParts ==
    /\ AllSealed = VaultSealed \cup RekeySealed \cup ExportSealed
    /\ (AllSealed = VaultSealed \cup RekeySealed \cup ExportSealed)'
  BY AllSealedNow, PTL

\* A step that gives one instance a vault, or takes it away, adds at most the
\* ciphertexts of that vault.
LEMMA OneVaultSeals ==
    ASSUME TypeOK, NEW i \in Inst, NEW w, NEW Seals,
           w # NULL => SealedIn(w.files) \subseteq Seals,
           vault' = [vault EXCEPT ![i] = w]
    PROVE  VaultSealed' \subseteq VaultSealed \cup Seals
<1> SUFFICES ASSUME NEW c, c \in VaultSealed' PROVE c \in VaultSealed \cup Seals
  OBVIOUS
<1>1. PICK j \in Inst : vault'[j] # NULL /\ c \in SealedIn(vault'[j].files)
  BY DEF VaultSealed
<1>2. CASE j = i
  BY <1>1, <1>2 DEF TypeOK
<1>3. CASE j # i
  BY <1>1, <1>3 DEF TypeOK, VaultSealed
<1> QED
  BY <1>2, <1>3

LEMMA OneRekeySeals ==
    ASSUME TypeOK, NEW i \in Inst, NEW r, NEW Seals,
           r # NULL => /\ SealedIn(r.old.files) \subseteq Seals
                       /\ SealedIn(r.new.files) \subseteq Seals,
           rekey' = [rekey EXCEPT ![i] = r]
    PROVE  RekeySealed' \subseteq RekeySealed \cup Seals
<1> SUFFICES ASSUME NEW c, c \in RekeySealed' PROVE c \in RekeySealed \cup Seals
  OBVIOUS
<1>1. PICK j \in Inst : /\ rekey'[j] # NULL
                        /\ \/ c \in SealedIn(rekey'[j].old.files)
                           \/ c \in SealedIn(rekey'[j].new.files)
  BY DEF RekeySealed
<1>2. CASE j = i
  BY <1>1, <1>2 DEF TypeOK
<1>3. CASE j # i
  BY <1>1, <1>3 DEF TypeOK, RekeySealed
<1> QED
  BY <1>2, <1>3

\* What was sealed in a map stays where it is or is added by InsertByKey.
LEMMA SealedByInsert ==
    ASSUME NEW files, NEW t, NEW e
    PROVE  SealedIn(InsertByKey(files, t, e))
             \subseteq SealedIn(files) \cup {e.encrypted_name, e.encrypted_data}
  BY DEF SealedIn, InsertByKey

LEMMA SealedByRemove ==
    ASSUME NEW files, NEW t
    PROVE  SealedIn(RemoveByKey(files, t)) \subseteq SealedIn(files)
  BY DEF SealedIn, RemoveByKey, Restrict

\* The two ciphertexts store seals.
StoreSeals(v, n, x, d, m) ==
    LET e == SealEntry(v, n, x, d, m) IN {e.encrypted_name, e.encrypted_data}

LEMMA SealedByStore ==
    ASSUME NEW v, IsVault(v), NEW n, NEW x, NEW d, NEW m
    PROVE  SealedIn(StoredIn(v, n, x, d, m).files)
             \subseteq SealedIn(v.files) \cup StoreSeals(v, n, x, d, m)
<1>1. StoredIn(v, n, x, d, m).files =
        InsertByKey(v.files, HmacKeyForName(v.key, n), SealEntry(v, n, x, d, m))
  BY DEF StoredIn, IsVault
<1> QED
  BY <1>1, SealedByInsert DEF StoreSeals

LEMMA SealedInVault ==
    ASSUME NEW i \in Inst
    PROVE  /\ vault[i] # NULL => SealedIn(vault[i].files) \subseteq AllSealed
           /\ rekey[i] # NULL => /\ SealedIn(rekey[i].old.files) \subseteq AllSealed
                                 /\ SealedIn(rekey[i].new.files) \subseteq AllSealed
           /\ \A b \in exports : SealedIn(FilesIn(b)) \subseteq AllSealed
  BY AllSealedParts DEF VaultSealed, RekeySealed, ExportSealed

LEMMA SealedInNone == SealedIn(NoFiles) = {}
  BY DEF SealedIn, NoFiles
-----------------------------------------------------------------------------
\* Ciphertexts sealed under nonces drawn in this step, each under its own.
FreshlySealed(C) ==
    /\ \A c \in C : c.nonce \in (drawn + 1)..drawn'
    /\ \A c, d \in C : c.nonce = d.nonce => c = d

Sealing(C) ==
    /\ AllSealed' \subseteq AllSealed \cup C
    /\ FreshlySealed(C)

LEMMA SealingKeepsNonces ==
    ASSUME TypeOK, NoncesDrawn, NonceUnique, drawn' \in Nat, drawn <= drawn',
           NEW C, Sealing(C)
    PROVE  NoncesDrawn' /\ NonceUnique'
<1>1. drawn \in Nat
  BY DEF TypeOK
<1>2. \A c \in AllSealed' : c.nonce \in 1..drawn'
  BY <1>1 DEF NoncesDrawn, Sealing, FreshlySealed
<1>3. ASSUME NEW c \in AllSealed', NEW d \in AllSealed',
             c.key.header.version = VAULT_VERSION, c.key = d.key, c.nonce = d.nonce
      PROVE  c = d
  <2>1. CASE c \in AllSealed /\ d \in AllSealed
    BY <1>3, <2>1 DEF NonceUnique
  <2>2. CASE c \in C /\ d \in C
    BY <1>3, <2>2 DEF Sealing, FreshlySealed
  <2>3. CASE (c \in AllSealed /\ d \in C) \/ (c \in C /\ d \in AllSealed)
    BY <1>1, <1>3, <2>3 DEF NoncesDrawn, Sealing, FreshlySealed
  <2> QED
    BY <2>1, <2>2, <2>3 DEF Sealing
<1> QED
  BY <1>2, <1>3 DEF NoncesDrawn, NonceUnique

\* A step whose vaults and pending calls hold nothing but old ciphertexts and
\* those of C.
LEMMA SealedByStep ==
    ASSUME NEW C, exports' = exports,
           VaultSealed' \subseteq AllSealed \cup C,
           RekeySealed' \subseteq AllSealed \cup C
    PROVE  AllSealed' \subseteq AllSealed \cup C
<1>1. ExportSealed' = ExportSealed
  BY DEF ExportSealed
<1> QED
  BY <1>1, AllSealedParts

LEMMA StoreSealsFresh ==
    ASSUME TypeOK, NEW v, NEW n, NEW x, Draw(2)
    PROVE  FreshlySealed(StoreSeals(v, n, x, drawn + 1, drawn + 2))
<1>1. drawn \in Nat /\ drawn' = drawn + 2
  BY DEF TypeOK, Draw
<1> QED
  BY <1>1 DEF FreshlySealed, StoreSeals, SealEntry, SealWithAad

LEMMA SealsNothing == FreshlySealed({})
  BY DEF FreshlySealed

LEMMA BeginRekeySeals ==
    ASSUME TypeOK, NEW i \in Inst, NEW call, NEW v, NEW p, BeginRekey(i, call, v, p),
           SealedIn(v.files) \subseteq AllSealed
    PROVE  RekeySealed' \subseteq AllSealed \cup {}
<1> DEFINE new == NewVault(p, drawn + 1, drawn + 2)
           r == [call |-> call, old |-> v, new |-> new, todo |-> DOMAIN v.files]
<1>1. SealedIn(new.files) \subseteq AllSealed
  BY SealedInNone DEF NewVault
<1>2. rekey' = [rekey EXCEPT ![i] = r]
  BY DEF BeginRekey
<1> HIDE DEF new
<1>3. r.old = v /\ r.new = new
  OBVIOUS
<1> HIDE DEF r
<1>4. RekeySealed' \subseteq RekeySealed \cup AllSealed
  BY <1>1, <1>2, <1>3, OneRekeySeals
<1> QED
  BY <1>4, AllSealedParts

\* A step of one vault: the pending calls and the blobs stay as they are.
LEMMA VaultStepSeals ==
    ASSUME TypeOK, NEW i \in Inst, NEW w, NEW C, FreshlySealed(C),
           w # NULL => SealedIn(w.files) \subseteq AllSealed \cup C,
           vault' = [vault EXCEPT ![i] = w],
           rekey' = rekey \/ rekey' = [rekey EXCEPT ![i] = NULL],
           exports' = exports
    PROVE  Sealing(C)
<1>1. VaultSealed' \subseteq VaultSealed \cup (AllSealed \cup C)
  BY OneVaultSeals
<1>2. RekeySealed' \subseteq RekeySealed
  <2>1. CASE rekey' = rekey
    BY <2>1 DEF RekeySealed
  <2>2. CASE rekey' = [rekey EXCEPT ![i] = NULL]
    <3>1. RekeySealed' \subseteq RekeySealed \cup {}
      BY <2>2, OneRekeySeals
    <3> QED
      BY <3>1
  <2> QED
    BY <2>1, <2>2
<1>3. AllSealed' \subseteq AllSealed \cup C
  BY <1>1, <1>2, AllSealedParts, SealedByStep
<1> QED
  BY <1>3 DEF Sealing

\* A step of one pending call.
LEMMA RekeyStepSeals ==
    ASSUME NEW C, FreshlySealed(C), vault' = vault, exports' = exports,
           RekeySealed' \subseteq AllSealed \cup C
    PROVE  Sealing(C)
<1>1. VaultSealed' = VaultSealed
  BY DEF VaultSealed
<1>2. AllSealed' \subseteq AllSealed \cup C
  BY <1>1, AllSealedParts, SealedByStep
<1> QED
  BY <1>2 DEF Sealing

\* What any step seals, it seals under nonces it has drawn for the purpose.
LEMMA StepSeals ==
    ASSUME IInv, [Next]_vars
    PROVE  \E C : Sealing(C)
<1> DEFINE Done == \E C : Sealing(C)
<1>0. TypeOK
  BY DEF IInv
<1>1. CASE UNCHANGED state
  <2>1. VaultSealed' = VaultSealed /\ RekeySealed' = RekeySealed /\ exports' = exports
    BY <1>1 DEF state, VaultSealed, RekeySealed
  <2>2. AllSealed' \subseteq AllSealed \cup {}
    BY <2>1, AllSealedParts, SealedByStep
  <2> QED
    BY <2>2, SealsNothing DEF Sealing
<1>2. ASSUME NEW i \in Inst, NEW p \in Password, Create(i, p)
      PROVE  Done
  <2> DEFINE w == NewVault(p, drawn + 1, drawn + 2)
  <2>1. SealedIn(w.files) = {}
    BY SealedInNone DEF NewVault
  <2>2. vault' = [vault EXCEPT ![i] = w] /\ rekey' = rekey /\ exports' = exports
    BY <1>2 DEF Create
  <2> HIDE DEF w
  <2> QED
    BY <1>0, <2>1, <2>2, SealsNothing, VaultStepSeals
<1>3. ASSUME NEW i \in Inst, NEW p \in Password, NEW b \in exports,
             OpenCurrent(i, p, b)
      PROVE  Done
  <2> DEFINE w == OpenedVault(p, b)
  <2>1. SealedIn(w.files) \subseteq AllSealed
    BY SealedInVault DEF OpenedVault, FilesIn
  <2>2. vault' = [vault EXCEPT ![i] = w] /\ rekey' = rekey /\ exports' = exports
    BY <1>3 DEF OpenCurrent
  <2> HIDE DEF w
  <2> QED
    BY <1>0, <2>1, <2>2, SealsNothing, VaultStepSeals
<1>4. ASSUME NEW i \in Inst, NEW p \in Password, NEW b \in exports,
             OpenLegacy(i, p, b)
      PROVE  Done
  <2>1. SealedIn(OpenedVault(p, b).files) \subseteq AllSealed
    BY SealedInVault DEF OpenedVault, FilesIn
  <2> QED
    BY <1>0, <1>4, <2>1, SealsNothing, BeginRekeySeals, RekeyStepSeals DEF OpenLegacy
<1>5. ASSUME NEW i \in Inst, NEW p \in Password, NEW q \in Password,
             ChangePassword(i, p, q)
      PROVE  Done
  <2>1. SealedIn(vault[i].files) \subseteq AllSealed
    BY <1>5, SealedInVault DEF ChangePassword, Open
  <2> QED
    BY <1>0, <1>5, <2>1, SealsNothing, BeginRekeySeals, RekeyStepSeals DEF ChangePassword
<1>6. ASSUME NEW i \in Inst, NEW n \in Name, Remove(i, n)
      PROVE  Done
  <2> DEFINE f == RemoveByKey(vault[i].files, HmacKeyForName(vault[i].key, n))
             w == [vault[i] EXCEPT !.files = f]
  <2>1. IsVault(vault[i]) /\ SealedIn(vault[i].files) \subseteq AllSealed
    BY <1>6, SealedInVault DEF Remove, Open, IInv, TypeOK
  <2>2. vault' = [vault EXCEPT ![i] = w] /\ rekey' = rekey /\ exports' = exports
    BY <1>6 DEF Remove
  <2>3. SealedIn(f) \subseteq AllSealed
    BY <2>1, SealedByRemove
  <2> HIDE DEF f
  <2>4. w.files = f
    BY <2>1 DEF IsVault
  <2> HIDE DEF w
  <2> QED
    BY <1>0, <2>2, <2>3, <2>4, SealsNothing, VaultStepSeals
<1>7. ASSUME NEW i \in Inst, NEW n \in Name, NEW x \in Value, Store(i, n, x)
      PROVE  Done
  <2> DEFINE w == StoredIn(vault[i], n, x, drawn + 1, drawn + 2)
             C == StoreSeals(vault[i], n, x, drawn + 1, drawn + 2)
  <2>1. IsVault(vault[i]) /\ SealedIn(vault[i].files) \subseteq AllSealed
    BY <1>7, SealedInVault DEF Store, Open, IInv, TypeOK
  <2>2. vault' = [vault EXCEPT ![i] = w] /\ rekey' = rekey /\ exports' = exports
    BY <1>7 DEF Store
  <2>3. SealedIn(w.files) \subseteq AllSealed \cup C
    BY <2>1, SealedByStore
  <2>4. FreshlySealed(C)
    BY <1>0, <1>7, StoreSealsFresh DEF Store
  <2> HIDE DEF w, C
  <2> QED
    BY <1>0, <2>2, <2>3, <2>4, VaultStepSeals
<1>8. ASSUME NEW i \in Inst, NEW n \in Name, NEW x \in Value,
             StoreWastesCounter(i, n, x)
      PROVE  Done
  <2> DEFINE w == [vault[i] EXCEPT !.data_nonce_counter = @ + 1]
  <2>1. IsVault(vault[i]) /\ SealedIn(vault[i].files) \subseteq AllSealed
    BY <1>8, SealedInVault DEF StoreWastesCounter, Open, IInv, TypeOK
  <2>2. vault' = [vault EXCEPT ![i] = w] /\ rekey' = rekey /\ exports' = exports
    BY <1>8 DEF StoreWastesCounter
  <2>3. w.files = vault[i].files
    BY <2>1 DEF IsVault
  <2> HIDE DEF w
  <2> QED
    BY <1>0, <2>1, <2>2, <2>3, SealsNothing, VaultStepSeals
<1>9. ASSUME NEW i \in Inst, Export(i)
      PROVE  Done
  <2> DEFINE v == AdvanceNonce(vault[i], drawn + 1)
             b == ExportedBlob(v)
             C == {b.encrypted_index}
  <2>1. /\ vault' = [vault EXCEPT ![i] = v]
        /\ exports' = exports \cup {b}
        /\ rekey' = rekey
    BY <1>9 DEF Export
  <2>2. IsVault(vault[i]) /\ SealedIn(vault[i].files) \subseteq AllSealed
        /\ vault[i].header.version = VAULT_VERSION
    BY <1>9, SealedInVault DEF Export, Open, IInv, TypeOK
  <2>3. v.files = vault[i].files /\ v.header = vault[i].header /\ v.nonce = drawn + 1
    BY <2>2 DEF AdvanceNonce, IsVault
  <2> HIDE DEF v
  <2>4. FilesIn(b) = v.files /\ b.encrypted_index.nonce = v.nonce
    BY <2>2, <2>3 DEF FilesIn, ExportedBlob, SealWithAad, EncodeIndex, DecodedFiles,
       VAULT_VERSION, LEGACY_VAULT_VERSION_1
  <2>5. FreshlySealed(C)
    BY <1>0, <1>9, <2>3, <2>4 DEF FreshlySealed, Export, Draw, TypeOK
  <2> HIDE DEF b
  <2>6. VaultSealed' \subseteq VaultSealed \cup AllSealed
    BY <1>0, <2>1, <2>2, <2>3, OneVaultSeals
  <2>7. RekeySealed' = RekeySealed
    BY <2>1 DEF RekeySealed
  <2>8. ExportSealed' \subseteq AllSealed \cup C
    <3>1. \A c \in ExportSealed' : c \in ExportSealed \/ c \in C \/ c \in SealedIn(FilesIn(b))
      BY <2>1 DEF ExportSealed
    <3> HIDE DEF C
    <3> QED
      BY <2>2, <2>3, <2>4, <3>1, AllSealedParts
  <2> HIDE DEF C
  <2>9. AllSealed' \subseteq AllSealed \cup C
    BY <2>6, <2>7, <2>8, AllSealedParts
  <2> QED
    BY <2>5, <2>9 DEF Sealing
<1>10. ASSUME NEW i \in Inst, ExportTooLarge(i)
       PROVE  Done
  <2> DEFINE w == AdvanceNonce(vault[i], drawn + 1)
  <2>1. IsVault(vault[i]) /\ SealedIn(vault[i].files) \subseteq AllSealed
    BY <1>10, SealedInVault DEF ExportTooLarge, Open, IInv, TypeOK
  <2>2. vault' = [vault EXCEPT ![i] = w] /\ rekey' = rekey /\ exports' = exports
    BY <1>10 DEF ExportTooLarge
  <2>3. w.files = vault[i].files
    BY <2>1 DEF AdvanceNonce, IsVault
  <2> HIDE DEF w
  <2> QED
    BY <1>0, <2>1, <2>2, <2>3, SealsNothing, VaultStepSeals
<1>11. ASSUME NEW i \in Inst, ExportWastesCounter(i)
       PROVE  Done
  <2> DEFINE w == [vault[i] EXCEPT !.nonce_counter = @ + 1]
  <2>1. IsVault(vault[i]) /\ SealedIn(vault[i].files) \subseteq AllSealed
    BY <1>11, SealedInVault DEF ExportWastesCounter, Open, IInv, TypeOK
  <2>2. vault' = [vault EXCEPT ![i] = w] /\ rekey' = rekey /\ exports' = exports
    BY <1>11 DEF ExportWastesCounter
  <2>3. w.files = vault[i].files
    BY <2>1 DEF IsVault
  <2> HIDE DEF w
  <2> QED
    BY <1>0, <2>1, <2>2, <2>3, SealsNothing, VaultStepSeals
<1>12. ASSUME NEW i \in Inst, RekeyEntry(i)
       PROVE  Done
  <2>1. IsRekey(rekey[i]) /\ rekey[i] # NULL
    BY <1>12 DEF RekeyEntry, Idle, IInv, TypeOK
  <2>2. PICK t \in rekey[i].todo :
          LET old == rekey[i].old
              n == old.files[t].encrypted_name.text
              x == old.files[t].encrypted_data.text
          IN /\ Draw(2)
             /\ rekey' = [rekey EXCEPT
                            ![i].new = StoredIn(@, n, x, drawn + 1, drawn + 2),
                            ![i].todo = @ \ {t}]
    BY <1>12 DEF RekeyEntry
  <2> DEFINE n == rekey[i].old.files[t].encrypted_name.text
             x == rekey[i].old.files[t].encrypted_data.text
             new == StoredIn(rekey[i].new, n, x, drawn + 1, drawn + 2)
             r == [rekey[i] EXCEPT !.new = new, !.todo = @ \ {t}]
             C == StoreSeals(rekey[i].new, n, x, drawn + 1, drawn + 2)
  <2>3. rekey' = [rekey EXCEPT ![i] = r]
    BY <2>2 DEF IInv, TypeOK
  <2> HIDE DEF n, x
  <2>4. SealedIn(new.files) \subseteq AllSealed \cup C
    BY <2>1, SealedByStore, SealedInVault DEF IsRekey
  <2>5. FreshlySealed(C)
    BY <1>0, <2>2, StoreSealsFresh
  <2> HIDE DEF new
  <2>6. r.old = rekey[i].old /\ r.new = new
    BY <2>1 DEF IsRekey
  <2> HIDE DEF r, C
  <2>7. RekeySealed' \subseteq RekeySealed \cup (AllSealed \cup C)
    BY <1>0, <2>1, <2>3, <2>4, <2>6, SealedInVault, OneRekeySeals
  <2> QED
    BY <1>12, <2>5, <2>7, AllSealedParts, RekeyStepSeals DEF RekeyEntry
<1>13. ASSUME NEW i \in Inst, RekeyAborts(i)
       PROVE  Done
  <2>1. rekey' = [rekey EXCEPT ![i] = NULL] /\ vault' = vault /\ exports' = exports
    BY <1>13 DEF RekeyAborts
  <2>2. RekeySealed' \subseteq RekeySealed \cup {}
    BY <1>0, <2>1, OneRekeySeals
  <2> QED
    BY <2>1, <2>2, AllSealedParts, SealsNothing, RekeyStepSeals
<1>14. ASSUME NEW i \in Inst, RekeyCommit(i)
       PROVE  Done
  <2>1. SealedIn(rekey[i].new.files) \subseteq AllSealed
    BY <1>14, SealedInVault DEF RekeyCommit, Idle
  <2>2. /\ vault' = [vault EXCEPT ![i] = rekey[i].new]
        /\ rekey' = [rekey EXCEPT ![i] = NULL]
        /\ exports' = exports
    BY <1>14 DEF RekeyCommit
  <2> QED
    BY <1>0, <2>1, <2>2, SealsNothing, VaultStepSeals
<1>15. ASSUME NEW i \in Inst, Crash(i)
       PROVE  Done
  BY <1>0, <1>15, SealsNothing, VaultStepSeals DEF Crash
<1>16. ASSUME NEW i \in Inst, Answers(i)
       PROVE  Done
  BY <1>1, <1>16, AnswersOnly
<1>17. UNCHANGED vars => UNCHANGED state
  BY DEF vars, state
<1> QED
  BY <1>1, <1>2, <1>3, <1>4, <1>5, <1>6, <1>7, <1>8, <1>9, <1>10, <1>11,
     <1>12, <1>13, <1>14, <1>15, <1>16, <1>17
     DEF Next, Answers

\* Random values are only ever drawn, never returned.
LEMMA DrawnGrows ==
    ASSUME TypeOK, [Next]_vars
    PROVE  drawn \in Nat /\ drawn' \in Nat /\ drawn <= drawn'
<1>1. CASE drawn' = drawn
  BY <1>1 DEF TypeOK
<1>2. CASE \E k \in {1, 2} : Draw(k)
  BY <1>2 DEF TypeOK, Draw
<1>3. ASSUME NEW i \in Inst, Answers(i) \/ RekeyAborts(i) \/ RekeyCommit(i)
                               \/ Crash(i) \/ ExportWastesCounter(i)
      PROVE  drawn' = drawn
  BY <1>3, AnswersOnly
     DEF state, RekeyAborts, RekeyCommit, Crash, ExportWastesCounter
<1>4. ASSUME NEW i \in Inst, NEW p \in Password,
             \/ Create(i, p)
             \/ \E b \in exports : OpenCurrent(i, p, b) \/ OpenLegacy(i, p, b)
             \/ \E q \in Password : ChangePassword(i, p, q)
      PROVE  drawn' = drawn \/ Draw(2)
  BY <1>4 DEF Create, OpenCurrent, OpenLegacy, ChangePassword, BeginRekey
<1>5. ASSUME NEW i \in Inst, NEW n \in Name,
             \/ Remove(i, n)
             \/ \E x \in Value : Store(i, n, x) \/ StoreWastesCounter(i, n, x)
      PROVE  drawn' = drawn \/ Draw(2)
  BY <1>5 DEF Remove, Store, StoreWastesCounter
<1>6. ASSUME NEW i \in Inst, Export(i) \/ ExportTooLarge(i) \/ RekeyEntry(i)
      PROVE  Draw(1) \/ Draw(2)
  BY <1>6 DEF Export, ExportTooLarge, RekeyEntry
<1> QED
  BY <1>1, <1>2, <1>3, <1>4, <1>5, <1>6 DEF Next, Answers, vars

\* A version 1 file uses nonces that count as drawn, under a version 1 key.
LEMMA LegacySealed ==
    ASSUME NEW b \in LegacyFiles, NEW c \in {b.encrypted_index} \cup SealedIn(FilesIn(b))
    PROVE  c.nonce \in 1..LegacyDraws /\ c.key.header.version = LEGACY_VAULT_VERSION_1
<1>1. IsLegacyFile(b)
  BY LegacyAssumption
<1>2. CASE c = b.encrypted_index
  BY <1>1, <1>2 DEF IsLegacyFile, OpensWithAad
<1>3. CASE c \in SealedIn(FilesIn(b))
  <2> DEFINE key == b.encrypted_index.key
             files == FilesIn(b)
  <2>1. PICK t \in DOMAIN files : c \in {files[t].encrypted_name, files[t].encrypted_data}
    BY <1>3 DEF SealedIn
  <2>2. files = DecodeIndexV1Files(b.encrypted_index.text.files)
    BY <1>1 DEF IsLegacyFile, FilesIn, DecodedFiles
  <2> HIDE DEF files
  <2>3. /\ EntryOpens(key, t, files[t])
        /\ files[t].encrypted_name.nonce \in 1..LegacyDraws
        /\ files[t].encrypted_data.nonce \in 1..LegacyDraws
    BY <1>1, <2>1, <2>2 DEF IsLegacyFile
  <2>4. c.key = key
    BY <2>1, <2>3 DEF EntryOpens, OpensWithAad
  <2> QED
    BY <1>1, <2>1, <2>3, <2>4 DEF IsLegacyFile
<1> QED
  BY <1>2, <1>3

LEMMA NoncesInit == Init => NoncesDrawn /\ NonceUnique
<1> SUFFICES ASSUME Init PROVE NoncesDrawn /\ NonceUnique
  OBVIOUS
<1>1. ASSUME NEW c \in AllSealed
      PROVE  c.nonce \in 1..LegacyDraws /\ c.key.header.version = LEGACY_VAULT_VERSION_1
  <2>1. c \in ExportSealed
    BY AllSealedParts DEF Init, VaultSealed, RekeySealed
  <2>2. PICK b \in LegacyFiles : c \in {b.encrypted_index} \cup SealedIn(FilesIn(b))
    BY <2>1 DEF Init, ExportSealed
  <2> QED
    BY <2>2, LegacySealed
<1> QED
  BY <1>1 DEF Init, NoncesDrawn, NonceUnique, VAULT_VERSION, LEGACY_VAULT_VERSION_1

LEMMA NoncesNext ==
    IInv /\ NoncesDrawn /\ NonceUnique /\ [Next]_vars => NoncesDrawn' /\ NonceUnique'
<1> SUFFICES ASSUME IInv, NoncesDrawn, NonceUnique, [Next]_vars
             PROVE  NoncesDrawn' /\ NonceUnique'
  OBVIOUS
<1>1. PICK C : Sealing(C)
  BY StepSeals
<1>2. TypeOK
  BY DEF IInv
<1> QED
  BY <1>1, <1>2, DrawnGrows, SealingKeepsNonces

\* No nonce ever serves two ciphertexts under one key: not in two vaults opened
\* from the same blob, not after a failed export, not in a half re-keyed vault
\* (store, advance_nonce, rekey).
THEOREM NoncesNeverReused == Spec => []NonceUnique
  BY NoncesInit, NoncesNext, IInvHolds, PTL DEF Spec
-----------------------------------------------------------------------------
(***************************************************************************)
(* Headers.  A new header has a salt no other has, so the header of a      *)
(* pending re-key is nowhere else.                                         *)
(***************************************************************************)
HeadersInUse ==
    {vault[i].header : i \in {j \in Inst : vault[j] # NULL}} \cup {b.header : b \in exports}

Pending == {i \in Inst : rekey[i] # NULL}

NewHeader(i) == rekey[i].new.header

SaltsDrawn ==
    /\ \A h \in HeadersInUse : h.version = VAULT_VERSION => h.kdf_salt <= drawn
    /\ \A i \in Pending : NewHeader(i).kdf_salt <= drawn

PendingApart ==
    \A i \in Pending :
        /\ NewHeader(i) \notin HeadersInUse
        /\ \A j \in Pending \ {i} : NewHeader(j) # NewHeader(i)

HeadersApart == SaltsDrawn /\ PendingApart

HeadersTyped ==
    /\ \A h \in HeadersInUse : h \in Header
    /\ \A i \in Pending : NewHeader(i) \in Header

LEMMA HeadersHaveTypes ==
    ASSUME TypeOK
    PROVE  HeadersTyped
<1>1. \A b \in exports : b.header \in Header
  BY LegacyAssumption DEF TypeOK, IsExport, IsLegacyFile
<1>2. \A i \in Inst : vault[i] # NULL => vault[i].header \in Header
  BY DEF TypeOK, IsVault
<1>3. \A i \in Pending : NewHeader(i) \in Header
  BY DEF Pending, NewHeader, TypeOK, IsRekey, IsVault
<1> QED
  BY <1>1, <1>2, <1>3 DEF HeadersTyped, HeadersInUse

\* No header comes up, and no pending call takes another.
LEMMA NoNewHeader ==
    ASSUME TypeOK, HeadersApart, drawn' \in Nat, drawn <= drawn',
           HeadersInUse' \subseteq HeadersInUse,
           Pending' \subseteq Pending,
           \A i \in Pending' : NewHeader(i)' = NewHeader(i)
    PROVE  HeadersApart'
<1>1. drawn \in Nat /\ HeadersTyped
  BY HeadersHaveTypes DEF TypeOK
<1>2. \A h \in HeadersInUse' : h.version = VAULT_VERSION => h.kdf_salt <= drawn'
  BY <1>1 DEF HeadersApart, SaltsDrawn, HeadersTyped, Header, Random
<1>3. \A i \in Pending' : NewHeader(i)' .kdf_salt <= drawn'
  BY <1>1 DEF HeadersApart, SaltsDrawn, HeadersTyped, Header, Random
<1>4. PendingApart'
  BY DEF HeadersApart, PendingApart
<1> QED
  BY <1>2, <1>3, <1>4 DEF HeadersApart, SaltsDrawn

FreshHeader == [version |-> VAULT_VERSION, kdf_salt |-> drawn + 1]

LEMMA FreshHeaderIsNew ==
    ASSUME TypeOK, HeadersApart
    PROVE  FreshHeader \notin HeadersInUse /\ \A i \in Pending : NewHeader(i) # FreshHeader
<1>1. drawn \in Nat /\ FreshHeader.version = VAULT_VERSION /\ FreshHeader.kdf_salt = drawn + 1
  BY DEF TypeOK, FreshHeader
<1> QED
  BY <1>1 DEF HeadersApart, SaltsDrawn

\* create gives its vault a fresh header.
LEMMA FreshInUse ==
    ASSUME TypeOK, HeadersApart, Draw(2),
           HeadersInUse' \subseteq HeadersInUse \cup {FreshHeader},
           Pending' = Pending,
           \A i \in Pending : NewHeader(i)' = NewHeader(i)
    PROVE  HeadersApart'
<1>1. drawn \in Nat /\ drawn' = drawn + 2 /\ HeadersTyped
  BY HeadersHaveTypes DEF TypeOK, Draw
<1>2. \A h \in HeadersInUse' : h.version = VAULT_VERSION => h.kdf_salt <= drawn'
  <2>1. FreshHeader.kdf_salt = drawn + 1
    BY DEF FreshHeader
  <2> QED
    BY <1>1, <2>1 DEF HeadersApart, SaltsDrawn, HeadersTyped, Header, Random
<1>3. \A i \in Pending' : NewHeader(i)' .kdf_salt <= drawn'
  BY <1>1 DEF HeadersApart, SaltsDrawn, HeadersTyped, Header, Random
<1>4. PendingApart'
  BY FreshHeaderIsNew DEF HeadersApart, PendingApart
<1> QED
  BY <1>2, <1>3, <1>4 DEF HeadersApart, SaltsDrawn

\* A re-key that begins gives its new vault a fresh header.
LEMMA FreshPending ==
    ASSUME TypeOK, HeadersApart, Draw(2), NEW i \in Inst,
           HeadersInUse' = HeadersInUse,
           Pending' \subseteq Pending \cup {i},
           NewHeader(i)' = FreshHeader,
           \A j \in Pending \ {i} : NewHeader(j)' = NewHeader(j)
    PROVE  HeadersApart'
<1>1. drawn \in Nat /\ drawn' = drawn + 2 /\ HeadersTyped
  BY HeadersHaveTypes DEF TypeOK, Draw
<1>2. \A h \in HeadersInUse' : h.version = VAULT_VERSION => h.kdf_salt <= drawn'
  BY <1>1 DEF HeadersApart, SaltsDrawn, HeadersTyped, Header, Random
<1>3. \A j \in Pending' : NewHeader(j)' .kdf_salt <= drawn'
  <2>1. FreshHeader.kdf_salt = drawn + 1
    BY DEF FreshHeader
  <2> QED
    BY <1>1, <2>1 DEF HeadersApart, SaltsDrawn, HeadersTyped, Header, Random
<1>4. PendingApart'
  BY FreshHeaderIsNew DEF HeadersApart, PendingApart
<1> QED
  BY <1>2, <1>3, <1>4 DEF HeadersApart, SaltsDrawn

\* A re-key that ends hands its header over to the vault.
LEMMA PendingInUse ==
    ASSUME TypeOK, HeadersApart, NEW i \in Pending, drawn' = drawn,
           HeadersInUse' \subseteq HeadersInUse \cup {NewHeader(i)},
           Pending' = Pending \ {i},
           \A j \in Pending \ {i} : NewHeader(j)' = NewHeader(j)
    PROVE  HeadersApart'
  BY DEF HeadersApart, SaltsDrawn, PendingApart

(***************************************************************************)
(* The calls that work on the vault in place.                              *)
(***************************************************************************)
Edits(i) ==
    \/ \E n \in Name :
        \/ Remove(i, n)
        \/ \E x \in Value : Store(i, n, x) \/ StoreWastesCounter(i, n, x)
    \/ ExportTooLarge(i)
    \/ ExportWastesCounter(i)

\* w is v after some calls: no counter is lower, and an entry that was not in
\* v carries a counter value that v had not used, under v's key.
LaterVault(w, v) ==
    /\ w.header = v.header
    /\ v.nonce_counter <= w.nonce_counter
    /\ v.data_nonce_counter <= w.data_nonce_counter
    /\ \A t \in DOMAIN w.files :
        \/ t \in DOMAIN v.files /\ w.files[t] = v.files[t]
        \/ t.key = v.key /\ w.files[t].data_counter = v.data_nonce_counter

LEMMA EditsMakeLater ==
    ASSUME IInv, NEW i \in Inst, Edits(i)
    PROVE  /\ vault[i] # NULL /\ IsVault(vault[i]) /\ SoundVault(vault[i])
           /\ rekey[i] = NULL
           /\ UNCHANGED <<rekey, exports, seen, ancestry>>
           /\ \E w : LaterVault(w, vault[i]) /\ vault' = [vault EXCEPT ![i] = w]
<1> DEFINE v == vault[i]
<1>1. v # NULL /\ IsVault(v) /\ SoundVault(v) /\ rekey[i] = NULL
  BY DEF Edits, Remove, Store, StoreWastesCounter, ExportTooLarge,
         ExportWastesCounter, Open, Idle, IInv, TypeOK
<1>2. UNCHANGED <<rekey, exports, seen, ancestry>>
  BY DEF Edits, Remove, Store, StoreWastesCounter, ExportTooLarge, ExportWastesCounter
<1>3. v.nonce_counter \in Nat /\ v.data_nonce_counter \in Nat
  BY <1>1, LimitsAssumption DEF IsVault, U64
<1>4. ASSUME NEW n \in Name, Remove(i, n)
      PROVE  \E w : LaterVault(w, v) /\ vault' = [vault EXCEPT ![i] = w]
  <2> DEFINE f == RemoveByKey(v.files, HmacKeyForName(v.key, n))
             w == [v EXCEPT !.files = f]
  <2>1. vault' = [vault EXCEPT ![i] = w]
    BY <1>4 DEF Remove
  <2>2. \A t \in DOMAIN f : t \in DOMAIN v.files /\ f[t] = v.files[t]
    BY DEF RemoveByKey, Restrict
  <2> HIDE DEF f
  <2>3. /\ w.files = f /\ w.header = v.header /\ w.nonce_counter = v.nonce_counter
        /\ w.data_nonce_counter = v.data_nonce_counter
    BY <1>1 DEF IsVault
  <2> HIDE DEF w
  <2>5. LaterVault(w, v)
    BY <1>3, <2>2, <2>3 DEF LaterVault
  <2> QED
    BY <2>1, <2>5
<1>5. ASSUME NEW n \in Name, NEW x \in Value, Store(i, n, x)
      PROVE  \E w : LaterVault(w, v) /\ vault' = [vault EXCEPT ![i] = w]
  <2> DEFINE w == StoredIn(v, n, x, drawn + 1, drawn + 2)
             e == SealEntry(v, n, x, drawn + 1, drawn + 2)
             u == HmacKeyForName(v.key, n)
  <2>1. vault' = [vault EXCEPT ![i] = w]
    BY <1>5 DEF Store
  <2>2. /\ w.files = InsertByKey(v.files, u, e)
        /\ w.header = v.header /\ w.nonce_counter = v.nonce_counter
        /\ w.data_nonce_counter = v.data_nonce_counter + 1
    BY <1>1 DEF StoredIn, IsVault
  <2>3. e.data_counter = v.data_nonce_counter /\ u.key = v.key
    BY DEF SealEntry, HmacKeyForName
  <2> HIDE DEF w, e, u
  <2>4. \A t \in DOMAIN w.files : \/ t \in DOMAIN v.files /\ w.files[t] = v.files[t]
                                  \/ t = u /\ w.files[t] = e
    BY <2>2 DEF InsertByKey
  <2>5. LaterVault(w, v)
    BY <1>3, <2>2, <2>3, <2>4 DEF LaterVault
  <2> QED
    BY <2>1, <2>5
<1>6. ASSUME NEW n \in Name, NEW x \in Value, StoreWastesCounter(i, n, x)
      PROVE  \E w : LaterVault(w, v) /\ vault' = [vault EXCEPT ![i] = w]
  <2> DEFINE w == [v EXCEPT !.data_nonce_counter = @ + 1]
  <2>1. vault' = [vault EXCEPT ![i] = w]
    BY <1>6 DEF StoreWastesCounter
  <2>2. /\ w.files = v.files /\ w.header = v.header /\ w.nonce_counter = v.nonce_counter
        /\ w.data_nonce_counter = v.data_nonce_counter + 1
    BY <1>1 DEF IsVault
  <2> HIDE DEF w
  <2>5. LaterVault(w, v)
    BY <1>3, <2>2 DEF LaterVault
  <2> QED
    BY <2>1, <2>5
<1>7. ASSUME ExportTooLarge(i)
      PROVE  \E w : LaterVault(w, v) /\ vault' = [vault EXCEPT ![i] = w]
  <2> DEFINE w == AdvanceNonce(v, drawn + 1)
  <2>1. vault' = [vault EXCEPT ![i] = w]
    BY <1>7 DEF ExportTooLarge
  <2>2. /\ w.files = v.files /\ w.header = v.header
        /\ w.nonce_counter = v.nonce_counter + 1
        /\ w.data_nonce_counter = v.data_nonce_counter
    BY <1>1 DEF IsVault, AdvanceNonce
  <2> HIDE DEF w
  <2>5. LaterVault(w, v)
    BY <1>3, <2>2 DEF LaterVault
  <2> QED
    BY <2>1, <2>5
<1>8. ASSUME ExportWastesCounter(i)
      PROVE  \E w : LaterVault(w, v) /\ vault' = [vault EXCEPT ![i] = w]
  <2> DEFINE w == [v EXCEPT !.nonce_counter = @ + 1]
  <2>1. vault' = [vault EXCEPT ![i] = w]
    BY <1>8 DEF ExportWastesCounter
  <2>2. /\ w.files = v.files /\ w.header = v.header
        /\ w.nonce_counter = v.nonce_counter + 1
        /\ w.data_nonce_counter = v.data_nonce_counter
    BY <1>1 DEF IsVault
  <2> HIDE DEF w
  <2>5. LaterVault(w, v)
    BY <1>3, <2>2 DEF LaterVault
  <2> QED
    BY <2>1, <2>5
<1> QED
  BY <1>1, <1>2, <1>4, <1>5, <1>6, <1>7, <1>8 DEF Edits

LEMMA OneVaultHeader ==
    ASSUME TypeOK, NEW i \in Inst, NEW w, NEW h, w # NULL => w.header = h,
           vault' = [vault EXCEPT ![i] = w], exports' = exports
    PROVE  HeadersInUse' \subseteq HeadersInUse \cup {h}
<1>1. ASSUME NEW j \in Inst, vault'[j] # NULL
      PROVE  vault'[j].header \in HeadersInUse \cup {h}
  <2>1. CASE j = i
    BY <1>1, <2>1 DEF TypeOK
  <2>2. CASE j # i
    BY <1>1, <2>2 DEF TypeOK, HeadersInUse
  <2> QED
    BY <2>1, <2>2
<1> QED
  BY <1>1 DEF HeadersInUse

LEMMA SamePending ==
    ASSUME rekey' = rekey
    PROVE  Pending' = Pending /\ \A i \in Pending : NewHeader(i)' = NewHeader(i)
  BY DEF Pending, NewHeader

LEMMA SameInUse ==
    ASSUME vault' = vault, exports' = exports
    PROVE  HeadersInUse' = HeadersInUse
  BY DEF HeadersInUse

LEMMA BeginRekeyHeader ==
    ASSUME TypeOK, HeadersApart, NEW i \in Inst, NEW call, NEW v, NEW p,
           BeginRekey(i, call, v, p), vault' = vault, exports' = exports
    PROVE  HeadersApart'
<1> DEFINE new == NewVault(p, drawn + 1, drawn + 2)
           r == [call |-> call, old |-> v, new |-> new, todo |-> DOMAIN v.files]
<1>1. new.header = FreshHeader
  BY DEF NewVault, FreshHeader
<1>2. rekey' = [rekey EXCEPT ![i] = r] /\ DOMAIN rekey = Inst /\ Draw(2)
  BY DEF BeginRekey, TypeOK
<1> HIDE DEF new
<1>3. r.new = new
  OBVIOUS
<1> HIDE DEF r
<1>4. /\ Pending' \subseteq Pending \cup {i}
      /\ NewHeader(i)' = FreshHeader
      /\ \A j \in Pending \ {i} : NewHeader(j)' = NewHeader(j)
  BY <1>1, <1>2, <1>3 DEF Pending, NewHeader
<1> QED
  BY <1>2, <1>4, SameInUse, FreshPending

LEMMA HeadersStep ==
    ASSUME IInv, HeadersApart, [Next]_vars
    PROVE  HeadersApart'
<1>0. TypeOK /\ DOMAIN rekey = Inst /\ drawn \in Nat /\ drawn' \in Nat /\ drawn <= drawn'
  BY DrawnGrows DEF IInv, TypeOK
<1>1. CASE UNCHANGED state
  BY <1>0, <1>1, SameInUse, SamePending, NoNewHeader DEF state
<1>2. ASSUME NEW i \in Inst, Edits(i)
      PROVE  HeadersApart'
  <2>1. PICK w : LaterVault(w, vault[i]) /\ vault' = [vault EXCEPT ![i] = w]
    BY <1>2, EditsMakeLater
  <2>2. vault[i] # NULL /\ rekey' = rekey /\ exports' = exports
    BY <1>2, EditsMakeLater
  <2>3. HeadersInUse' \subseteq HeadersInUse \cup {vault[i].header}
    BY <1>0, <2>1, <2>2, OneVaultHeader DEF LaterVault
  <2>4. HeadersInUse' \subseteq HeadersInUse
    BY <2>2, <2>3 DEF HeadersInUse
  <2> QED
    BY <1>0, <2>2, <2>4, SamePending, NoNewHeader
<1>3. ASSUME NEW i \in Inst, NEW p \in Password, Create(i, p)
      PROVE  HeadersApart'
  <2> DEFINE w == NewVault(p, drawn + 1, drawn + 2)
  <2>1. w.header = FreshHeader
    BY DEF NewVault, FreshHeader
  <2>2. vault' = [vault EXCEPT ![i] = w] /\ exports' = exports
    BY <1>3 DEF Create
  <2> HIDE DEF w
  <2>3. HeadersInUse' \subseteq HeadersInUse \cup {FreshHeader}
    BY <1>0, <2>1, <2>2, OneVaultHeader
  <2> QED
    BY <1>0, <1>3, <2>3, SamePending, FreshInUse DEF Create
<1>4. ASSUME NEW i \in Inst, NEW p \in Password, NEW b \in exports,
             OpenCurrent(i, p, b)
      PROVE  HeadersApart'
  <2>1. OpenedVault(p, b).header = b.header
    BY DEF OpenedVault
  <2>2. HeadersInUse' \subseteq HeadersInUse \cup {b.header}
    BY <1>0, <1>4, <2>1, OneVaultHeader DEF OpenCurrent
  <2>3. HeadersInUse' \subseteq HeadersInUse
    BY <2>2 DEF HeadersInUse
  <2> QED
    BY <1>0, <1>4, <2>3, SamePending, NoNewHeader DEF OpenCurrent
<1>5. ASSUME NEW i \in Inst, NEW p \in Password, NEW b \in exports,
             OpenLegacy(i, p, b)
      PROVE  HeadersApart'
  BY <1>0, <1>5, BeginRekeyHeader DEF OpenLegacy
<1>6. ASSUME NEW i \in Inst, NEW p \in Password, NEW q \in Password,
             ChangePassword(i, p, q)
      PROVE  HeadersApart'
  BY <1>0, <1>6, BeginRekeyHeader DEF ChangePassword
<1>7. ASSUME NEW i \in Inst, Export(i)
      PROVE  HeadersApart'
  <2> DEFINE v == AdvanceNonce(vault[i], drawn + 1)
             b == ExportedBlob(v)
  <2>1. /\ vault' = [vault EXCEPT ![i] = v]
        /\ exports' = exports \cup {b}
        /\ rekey' = rekey
        /\ vault[i] # NULL /\ IsVault(vault[i])
    BY <1>7 DEF Export, Open, IInv, TypeOK
  <2>2. v.header = vault[i].header
    BY <2>1 DEF AdvanceNonce, IsVault
  <2> HIDE DEF v
  <2>3. b.header = vault[i].header
    BY <2>2 DEF ExportedBlob
  <2> HIDE DEF b
  <2>4. \A j \in Inst : vault'[j] # NULL => vault'[j].header \in HeadersInUse
    BY <1>0, <2>1, <2>2 DEF HeadersInUse, TypeOK
  <2>5. HeadersInUse' \subseteq HeadersInUse
    BY <2>1, <2>3, <2>4 DEF HeadersInUse
  <2> QED
    BY <1>0, <2>1, <2>5, SamePending, NoNewHeader
<1>8. ASSUME NEW i \in Inst, RekeyEntry(i)
      PROVE  HeadersApart'
  <2>1. IsRekey(rekey[i]) /\ rekey[i] # NULL
    BY <1>8 DEF RekeyEntry, Idle, IInv, TypeOK
  <2>2. PICK t \in rekey[i].todo : \E n, x :
          rekey' = [rekey EXCEPT ![i].new = StoredIn(@, n, x, drawn + 1, drawn + 2),
                                 ![i].todo = @ \ {t}]
    BY <1>8 DEF RekeyEntry
  <2>3. PICK n, x :
          rekey' = [rekey EXCEPT ![i].new = StoredIn(@, n, x, drawn + 1, drawn + 2),
                                 ![i].todo = @ \ {t}]
    BY <2>2
  <2> DEFINE new == StoredIn(rekey[i].new, n, x, drawn + 1, drawn + 2)
             r == [rekey[i] EXCEPT !.new = new, !.todo = @ \ {t}]
  <2>4. rekey' = [rekey EXCEPT ![i] = r]
    BY <1>0, <2>3
  <2>5. new.header = rekey[i].new.header
    BY <2>1 DEF StoredIn, IsRekey, IsVault
  <2> HIDE DEF new
  <2>6. r.new = new
    BY <2>1 DEF IsRekey
  <2> HIDE DEF r
  <2>7. Pending' \subseteq Pending /\ \A j \in Pending : NewHeader(j)' = NewHeader(j)
    BY <1>0, <2>1, <2>4, <2>5, <2>6 DEF Pending, NewHeader
  <2> QED
    BY <1>0, <1>8, <2>7, SameInUse, NoNewHeader DEF RekeyEntry
<1>9. ASSUME NEW i \in Inst, RekeyAborts(i) \/ Crash(i)
      PROVE  HeadersApart'
  <2>1. /\ rekey' = [rekey EXCEPT ![i] = NULL] /\ exports' = exports
        /\ vault' = vault \/ vault' = [vault EXCEPT ![i] = NULL]
    BY <1>9 DEF RekeyAborts, Crash
  <2>2. HeadersInUse' \subseteq HeadersInUse
    BY <1>0, <2>1 DEF HeadersInUse, TypeOK
  <2>3. Pending' \subseteq Pending /\ \A j \in Pending' : NewHeader(j)' = NewHeader(j)
    BY <1>0, <2>1 DEF Pending, NewHeader
  <2> QED
    BY <1>0, <2>2, <2>3, NoNewHeader
<1>10. ASSUME NEW i \in Inst, RekeyCommit(i)
       PROVE  HeadersApart'
  <2>1. /\ vault' = [vault EXCEPT ![i] = rekey[i].new]
        /\ rekey' = [rekey EXCEPT ![i] = NULL]
        /\ exports' = exports /\ drawn' = drawn
        /\ i \in Pending
    BY <1>10 DEF RekeyCommit, Idle, Pending
  <2>2. HeadersInUse' \subseteq HeadersInUse \cup {NewHeader(i)}
    BY <1>0, <2>1, OneVaultHeader DEF NewHeader
  <2>3. Pending' = Pending \ {i} /\ \A j \in Pending \ {i} : NewHeader(j)' = NewHeader(j)
    BY <1>0, <2>1 DEF Pending, NewHeader
  <2> QED
    BY <1>0, <2>1, <2>2, <2>3, PendingInUse
<1>11. ASSUME NEW i \in Inst, Answers(i)
       PROVE  UNCHANGED state
  BY <1>11, AnswersOnly
<1>12. UNCHANGED vars => UNCHANGED state
  BY DEF vars, state
<1> QED
  BY <1>1, <1>2, <1>3, <1>4, <1>5, <1>6, <1>7, <1>8, <1>9, <1>10, <1>11, <1>12
     DEF Next, Answers, Edits

LEMMA HeadersInit == Init => HeadersApart
<1> SUFFICES ASSUME Init PROVE HeadersApart
  OBVIOUS
<1>1. \A h \in HeadersInUse : h.version = LEGACY_VAULT_VERSION_1
  BY LegacyAssumption DEF Init, HeadersInUse, IsLegacyFile
<1> QED
  BY <1>1 DEF Init, HeadersApart, SaltsDrawn, PendingApart, Pending,
     VAULT_VERSION, LEGACY_VAULT_VERSION_1
-----------------------------------------------------------------------------
(***************************************************************************)
(* Lines of blobs: a vault and the blobs it was read from or written to,   *)
(* a blob and those it descends from.                                      *)
(***************************************************************************)
\* Nothing in v is older than b, and v has reused no counter of b for a name.
Follows(v, b) ==
    /\ b.header = v.header =>
        /\ b.encrypted_index.text.nonce_counter <= v.nonce_counter
        /\ b.encrypted_index.text.data_nonce_counter <= v.data_nonce_counter
    /\ SameAadSameEntry(v.files, FilesIn(b))

Succeeds(c, b) ==
    /\ b.header = c.header =>
        /\ b.encrypted_index.text.nonce_counter < c.encrypted_index.text.nonce_counter
        /\ b.encrypted_index.text.data_nonce_counter
             <= c.encrypted_index.text.data_nonce_counter
    /\ SameAadSameEntry(FilesIn(c), FilesIn(b))

VaultsInLine == \A i \in Inst : vault[i] # NULL => \A b \in seen[i] : Follows(vault[i], b)
BlobsInLine == \A c \in exports : \A b \in ancestry[c] : Succeeds(c, b)

HInv == HeadersApart /\ VaultsInLine /\ BlobsInLine

LEMMA BlobFacts ==
    ASSUME IInv, NEW b \in exports
    PROVE  /\ b.header \in Header
           /\ b.encrypted_index.key.header = b.header
           /\ b.encrypted_index.text.nonce_counter \in Nat
           /\ b.encrypted_index.text.data_nonce_counter \in Nat
           /\ \A t \in DOMAIN FilesIn(b) :
                /\ t.key = b.encrypted_index.key
                /\ FilesIn(b)[t].data_counter < b.encrypted_index.text.data_nonce_counter
                /\ FilesIn(b)[t].data_counter \in Nat
<1>1. SoundBlob(b)
  BY DEF IInv
<1>2. /\ b.header \in Header
      /\ b.encrypted_index.text.nonce_counter \in U64
      /\ b.encrypted_index.text.data_nonce_counter \in U64
  BY LegacyAssumption DEF IInv, TypeOK, IsLegacyFile, IsExport
<1>3. \A t \in DOMAIN FilesIn(b) :
        /\ t.key = b.encrypted_index.key
        /\ FilesIn(b)[t].data_counter < b.encrypted_index.text.data_nonce_counter
  BY <1>1 DEF SoundBlob, Sound, WellSealed, CounterAheadOf, FilesIn, HmacKeyForName
<1>4. IsFiles(FilesIn(b))
  <2>1. CASE b \in LegacyFiles
    BY <2>1, LegacyAssumption DEF IsLegacyFile, FilesIn, DecodedFiles
  <2>2. CASE b \notin LegacyFiles
    <3>1. IsExport(b) /\ b.header.version = VAULT_VERSION
      BY <2>2 DEF IInv, TypeOK
    <3> QED
      BY <3>1 DEF IsExport, FilesIn, DecodedFiles, VAULT_VERSION, LEGACY_VAULT_VERSION_1
  <2> QED
    BY <2>1, <2>2
<1>5. \A t \in DOMAIN FilesIn(b) : FilesIn(b)[t].data_counter \in Nat
  BY <1>4, LimitsAssumption DEF IsFiles, IndexEntry, U64
<1> QED
  BY <1>1, <1>2, <1>3, <1>5, LimitsAssumption DEF SoundBlob, U64

\* A vault under another header shares no entry key with the blob.
LEMMA OtherHeaderFollows ==
    ASSUME IInv, NEW v, SoundVault(v), NEW b \in exports, b.header # v.header
    PROVE  Follows(v, b)
<1>1. \A t \in DOMAIN v.files : t.key = v.key
  BY DEF SoundVault, Sound, WellSealed, HmacKeyForName
<1>2. \A t \in DOMAIN FilesIn(b) : t.key = b.encrypted_index.key
  BY BlobFacts
<1>3. v.key # b.encrypted_index.key
  BY BlobFacts DEF SoundVault
<1> QED
  BY <1>1, <1>2, <1>3 DEF Follows, SameAadSameEntry

\* What a vault takes after the blob carries counters the blob has not seen.
LEMMA LaterFollows ==
    ASSUME IInv, NEW v, IsVault(v), SoundVault(v), NEW b \in exports, Follows(v, b),
           NEW w, LaterVault(w, v), w.nonce_counter \in Nat, w.data_nonce_counter \in Nat
    PROVE  Follows(w, b)
<1>1. v.nonce_counter \in Nat /\ v.data_nonce_counter \in Nat
  BY LimitsAssumption DEF IsVault, U64
<1>2. b.header = w.header =>
        /\ b.encrypted_index.text.nonce_counter <= w.nonce_counter
        /\ b.encrypted_index.text.data_nonce_counter <= w.data_nonce_counter
  BY <1>1, BlobFacts DEF Follows, LaterVault
<1>3. ASSUME NEW t \in DOMAIN w.files \cap DOMAIN FilesIn(b),
             w.files[t].data_counter = FilesIn(b)[t].data_counter
      PROVE  w.files[t] = FilesIn(b)[t]
  <2>1. CASE t \in DOMAIN v.files /\ w.files[t] = v.files[t]
    BY <1>3, <2>1 DEF Follows, SameAadSameEntry
  <2>2. CASE t.key = v.key /\ w.files[t].data_counter = v.data_nonce_counter
    <3>1. b.header = v.header
      BY <1>3, <2>2, BlobFacts DEF SoundVault
    <3>2. FilesIn(b)[t].data_counter < v.data_nonce_counter
      BY <1>1, <1>3, <3>1, BlobFacts DEF Follows
    <3> QED
      BY <1>1, <1>3, <2>2, <3>2, BlobFacts
  <2> QED
    BY <2>1, <2>2 DEF LaterVault
<1> QED
  BY <1>2, <1>3 DEF Follows, SameAadSameEntry

\* A step of one vault that adds no blob.
LEMMA OneVaultInLine ==
    ASSUME IInv, VaultsInLine, BlobsInLine, NEW i \in Inst, NEW w, NEW h,
           w # NULL => \A b \in h : Follows(w, b),
           vault'[i] = w, seen'[i] = h,
           \A j \in Inst \ {i} : vault'[j] = vault[j] /\ seen'[j] = seen[j],
           UNCHANGED <<exports, ancestry>>
    PROVE  VaultsInLine' /\ BlobsInLine'
<1>1. BlobsInLine'
  BY DEF BlobsInLine, Succeeds, FilesIn
<1>2. ASSUME NEW j \in Inst, vault'[j] # NULL, NEW b \in seen'[j]
      PROVE  Follows(vault'[j], b)
  <2>1. CASE j = i
    BY <1>2, <2>1 DEF IInv, TypeOK
  <2>2. CASE j # i
    BY <1>2, <2>2 DEF IInv, TypeOK, VaultsInLine
  <2> QED
    BY <2>1, <2>2
<1> QED
  BY <1>1, <1>2 DEF VaultsInLine, Follows

\* A vault that has just been read from a blob.
LEMMA OpenedFollows ==
    ASSUME IInv, BlobsInLine, NEW p, NEW b \in exports
    PROVE  \A a \in {b} \cup ancestry[b] : Follows(OpenedVault(p, b), a)
<1> DEFINE w == OpenedVault(p, b)
<1>1. /\ w.header = b.header
      /\ w.nonce_counter = b.encrypted_index.text.nonce_counter
      /\ w.data_nonce_counter = b.encrypted_index.text.data_nonce_counter
      /\ w.files = FilesIn(b)
  BY DEF OpenedVault, FilesIn
<1>2. ancestry[b] \subseteq exports
  BY DEF IInv, TypeOK
<1> HIDE DEF w
<1>3. Follows(w, b)
  BY <1>1, BlobFacts DEF Follows, SameAadSameEntry
<1>4. ASSUME NEW a \in ancestry[b]
      PROVE  Follows(w, a)
  <2>1. Succeeds(b, a) /\ a \in exports
    BY <1>2 DEF BlobsInLine
  <2>2. /\ a.encrypted_index.text.nonce_counter \in Nat
        /\ b.encrypted_index.text.nonce_counter \in Nat
    BY <2>1, BlobFacts
  <2> QED
    BY <1>1, <2>1, <2>2 DEF Follows, Succeeds
<1> QED
  BY <1>3, <1>4 DEF w

LEMMA ExportInLine ==
    ASSUME IInv, VaultsInLine, BlobsInLine, NEW i \in Inst, Export(i)
    PROVE  VaultsInLine' /\ BlobsInLine'
<1> DEFINE u == vault[i]
           v == AdvanceNonce(u, drawn + 1)
           b == ExportedBlob(v)
<1>1. /\ vault' = [vault EXCEPT ![i] = v]
      /\ exports' = exports \cup {b}
      /\ ancestry' = [c \in exports \cup {b} |->
                        IF c = b THEN seen[i] ELSE ancestry[c]]
      /\ seen' = [seen EXCEPT ![i] = @ \cup {b}]
      /\ u # NULL /\ IsVault(u)
      /\ u.header.version = VAULT_VERSION
  BY DEF Export, Open, IInv, TypeOK
<1>2. /\ v.header = u.header /\ v.files = u.files
      /\ v.nonce_counter = u.nonce_counter + 1
      /\ v.data_nonce_counter = u.data_nonce_counter
  BY <1>1 DEF AdvanceNonce, IsVault
<1>3. u.nonce_counter \in Nat /\ u.data_nonce_counter \in Nat
  BY <1>1, LimitsAssumption DEF IsVault, U64
<1> HIDE DEF v
<1>4. /\ b.header = v.header /\ FilesIn(b) = v.files
      /\ b.encrypted_index.text.nonce_counter = v.nonce_counter
      /\ b.encrypted_index.text.data_nonce_counter = v.data_nonce_counter
  BY <1>1, <1>2 DEF ExportedBlob, FilesIn, SealWithAad, EncodeIndex, DecodedFiles,
     VAULT_VERSION, LEGACY_VAULT_VERSION_1
<1> HIDE DEF b
<1>5. ASSUME NEW a \in seen[i]
      PROVE  Succeeds(b, a) /\ Follows(v, a)
  <2>1. Follows(u, a) /\ a \in exports
    BY <1>1 DEF VaultsInLine, IInv, TypeOK
  <2>2. /\ a.encrypted_index.text.nonce_counter \in Nat
        /\ a.encrypted_index.text.data_nonce_counter \in Nat
    BY <2>1, BlobFacts
  <2> HIDE DEF u
  <2> QED
    BY <1>2, <1>3, <1>4, <2>1, <2>2 DEF Follows, Succeeds
<1>6. Follows(v, b)
  BY <1>2, <1>3, <1>4 DEF Follows, SameAadSameEntry
<1>7. ASSUME NEW c \in exports', NEW a \in ancestry'[c]
      PROVE  Succeeds(c, a)
  BY <1>1, <1>5, <1>7 DEF BlobsInLine
<1>8. ASSUME NEW j \in Inst, vault'[j] # NULL, NEW a \in seen'[j]
      PROVE  Follows(vault'[j], a)
  <2>1. CASE j = i
    BY <1>1, <1>5, <1>6, <1>8, <2>1 DEF IInv, TypeOK
  <2>2. CASE j # i
    BY <1>1, <1>8, <2>2 DEF IInv, TypeOK, VaultsInLine
  <2> QED
    BY <2>1, <2>2
<1> QED
  BY <1>7, <1>8 DEF VaultsInLine, BlobsInLine, Follows, Succeeds, FilesIn

LEMMA LinesStep ==
    ASSUME IInv, HInv, [Next]_vars
    PROVE  VaultsInLine' /\ BlobsInLine'
<1> DEFINE Done == VaultsInLine' /\ BlobsInLine'
<1>0. /\ IInv' /\ TypeOK /\ VaultsInLine /\ BlobsInLine /\ HeadersApart
      /\ DOMAIN vault = Inst /\ DOMAIN seen = Inst
      /\ \A i \in Inst : seen[i] \subseteq exports
  BY IInvNext DEF HInv, IInv, TypeOK
<1>1. CASE UNCHANGED <<vault, exports, seen, ancestry>>
  BY <1>0, <1>1 DEF VaultsInLine, BlobsInLine, Follows, Succeeds, FilesIn
<1>2. ASSUME NEW i \in Inst, Edits(i)
      PROVE  Done
  <2>1. /\ vault[i] # NULL /\ IsVault(vault[i]) /\ SoundVault(vault[i])
        /\ UNCHANGED <<rekey, exports, seen, ancestry>>
    BY <1>2, EditsMakeLater
  <2>2. PICK w : LaterVault(w, vault[i]) /\ vault' = [vault EXCEPT ![i] = w]
    BY <1>2, EditsMakeLater
  <2>3. w # NULL => w.nonce_counter \in Nat /\ w.data_nonce_counter \in Nat
    <3>1. w = NULL \/ IsVault(w)
      BY <1>0, <2>2 DEF IInv, TypeOK
    <3> QED
      BY <3>1, LimitsAssumption DEF IsVault, U64
  <2>4. w # NULL => \A b \in seen[i] : Follows(w, b)
    BY <1>0, <2>1, <2>2, <2>3, LaterFollows DEF VaultsInLine
  <2> QED
    BY <1>0, <2>1, <2>2, <2>4, OneVaultInLine
<1>3. ASSUME NEW i \in Inst, NEW p \in Password, Create(i, p)
      PROVE  Done
  <2> DEFINE w == NewVault(p, drawn + 1, drawn + 2)
  <2>1. SoundVault(w)
    BY SoundNewVault
  <2>2. w.header \notin HeadersInUse
    BY <1>0, FreshHeaderIsNew DEF NewVault, FreshHeader
  <2>3. vault' = [vault EXCEPT ![i] = w] /\ UNCHANGED <<exports, seen, ancestry>>
    BY <1>3 DEF Create
  <2> HIDE DEF w
  <2>4. \A b \in seen[i] : Follows(w, b)
    BY <1>0, <2>1, <2>2, OtherHeaderFollows DEF HeadersInUse
  <2> QED
    BY <1>0, <2>3, <2>4, OneVaultInLine
<1>4. ASSUME NEW i \in Inst, NEW p \in Password, NEW b \in exports,
             OpenCurrent(i, p, b)
      PROVE  Done
  <2>1. /\ vault' = [vault EXCEPT ![i] = OpenedVault(p, b)]
        /\ seen' = [seen EXCEPT ![i] = {b} \cup ancestry[b]]
        /\ UNCHANGED <<exports, ancestry>>
    BY <1>4 DEF OpenCurrent
  <2>2. \A a \in {b} \cup ancestry[b] : Follows(OpenedVault(p, b), a)
    BY <1>0, OpenedFollows
  <2> QED
    BY <1>0, <2>1, <2>2, OneVaultInLine
<1>5. ASSUME NEW i \in Inst, NEW p \in Password, NEW b \in exports,
             OpenLegacy(i, p, b)
      PROVE  Done
  <2>1. /\ vault' = vault /\ vault[i] = NULL
        /\ seen' = [seen EXCEPT ![i] = {b} \cup ancestry[b]]
        /\ UNCHANGED <<exports, ancestry>>
    BY <1>0, <1>5 DEF OpenLegacy, Absent
  <2> QED
    BY <1>0, <2>1, OneVaultInLine
<1>6. ASSUME NEW i \in Inst, RekeyAborts(i)
      PROVE  Done
  <2>1. /\ vault' = vault
        /\ seen' = [seen EXCEPT ![i] = IF vault[i] = NULL THEN {} ELSE seen[i]]
        /\ UNCHANGED <<exports, ancestry>>
    BY <1>0, <1>6 DEF RekeyAborts
  <2>2. vault[i] # NULL =>
          \A b \in (IF vault[i] = NULL THEN {} ELSE seen[i]) : Follows(vault[i], b)
    BY <1>0 DEF VaultsInLine
  <2> QED
    BY <1>0, <2>1, <2>2, OneVaultInLine
<1>7. ASSUME NEW i \in Inst, RekeyCommit(i)
      PROVE  Done
  <2> DEFINE w == rekey[i].new
  <2>1. /\ vault' = [vault EXCEPT ![i] = w]
        /\ UNCHANGED <<exports, seen, ancestry>>
        /\ i \in Pending /\ SoundVault(w)
    BY <1>7 DEF RekeyCommit, Idle, Pending, IInv
  <2>2. w.header \notin HeadersInUse
    BY <1>0, <2>1 DEF HeadersApart, PendingApart, NewHeader
  <2> HIDE DEF w
  <2>3. \A b \in seen[i] : Follows(w, b)
    BY <1>0, <2>1, <2>2, OtherHeaderFollows DEF HeadersInUse
  <2> QED
    BY <1>0, <2>1, <2>3, OneVaultInLine
<1>8. ASSUME NEW i \in Inst, Crash(i)
      PROVE  Done
  BY <1>0, <1>8, OneVaultInLine DEF Crash
<1>9. ASSUME NEW i \in Inst, Export(i)
      PROVE  Done
  BY <1>0, <1>9, ExportInLine
<1>10. ASSUME NEW i \in Inst,
              \/ Answers(i) \/ RekeyEntry(i)
              \/ \E p, q \in Password : ChangePassword(i, p, q)
       PROVE  UNCHANGED <<vault, exports, seen, ancestry>>
  BY <1>10, AnswersOnly DEF state, RekeyEntry, ChangePassword
<1>11. UNCHANGED vars => UNCHANGED <<vault, exports, seen, ancestry>>
  BY DEF vars
<1> QED
  BY <1>1, <1>2, <1>3, <1>4, <1>5, <1>6, <1>7, <1>8, <1>9, <1>10, <1>11
     DEF Next, Answers, Edits

LEMMA HInvHolds == Spec => []HInv
<1>1. Init => HInv
  BY HeadersInit DEF Init, HInv, VaultsInLine, BlobsInLine
<1>2. IInv /\ HInv /\ [Next]_vars => HInv'
  BY HeadersStep, LinesStep DEF HInv
<1> QED
  BY <1>1, <1>2, IInvHolds, PTL DEF Spec

\* Along one history of exports and reopenings no counter goes back, and every
\* export moves the nonce counter on (advance_nonce, next_data_nonce_counter,
\* from_subkeys_and_data).
THEOREM CountersNeverGoBack == Spec => []CountersMonotonic
<1>1. HInv => CountersMonotonic
  BY DEF HInv, VaultsInLine, BlobsInLine, Follows, Succeeds, CountersMonotonic, Open
<1> QED
  BY <1>1, HInvHolds, PTL

\* store issues no (name, counter) pair under which a ciphertext exists that
\* the vault, or a blob it descends from, held before (store, rekey, open).
THEOREM PairsNeverReissued == Spec => []NoAadReissued
<1>1. HInv => NoAadReissued
  BY DEF HInv, VaultsInLine, BlobsInLine, Follows, Succeeds, NoAadReissued, FilesIn
<1> QED
  BY <1>1, HInvHolds, PTL
=============================================================================
