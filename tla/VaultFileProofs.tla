---------------------------- MODULE VaultFileProofs ----------------------------
(***************************************************************************)
(* Proofs about VaultFile, for any number of objects on one path: a save   *)
(* that returned Ok is lost to nobody but a saver that had missed it, or   *)
(* to a power loss before its directory was synced; and whatever comes to  *)
(* the path descends from every earlier file there that was lost to        *)
(* neither, so that counters grow and no (name, counter) pair comes back.  *)
(*                                                                         *)
(* The vault objects keep the invariants of Vault, since every step of     *)
(* VaultFile is one of Vault or the end of all objects at once.  On top of *)
(* that, every object can account for all that has been at the path: it    *)
(* descends from it, has missed it, or it was overwritten by one that had  *)
(* missed it, or undone by a power loss.                                   *)
(***************************************************************************)
EXTENDS VaultFile, VaultProofs, SequenceTheorems

VInv == IInv /\ HInv /\ NoncesDrawn /\ NonceUnique

\* A power loss, as the objects see it.
AllDie ==
    /\ vault' = [i \in Inst |-> NULL]
    /\ rekey' = [i \in Inst |-> NULL]
    /\ seen' = [i \in Inst |-> {}]
    /\ UNCHANGED <<exports, drawn, ret, ancestry>>

-----------------------------------------------------------------------------
(***************************************************************************)
(* The history of the path.                                                *)
(***************************************************************************)
\* What was at place m was replaced, at a place up to k, by an object that had
\* missed it, and by a save other than those gone.
Overwritten(m, k, gone) ==
    \E l \in (m + 1)..k : <<order[m], order[l]>> \in clobbers /\ order[l] \notin gone

\* The blobs B, and what i has missed, are all that has been at the path, but
\* for what was undone or overwritten.
Accounted(i, B) ==
    \A m \in 1..Len(order) :
        \/ order[m] \in undone
        \/ order[m] \in missed[i] \/ written[order[m]] \in B
        \/ Overwritten(m, Len(order), undone)

\* Every file at the path descends from those before it that were neither
\* undone nor overwritten; what overwrote one of the latter is not undone
\* unless the file is undone itself.
Gone(k) == IF order[k] \in undone THEN {} ELSE undone

InLine ==
    \A k \in 1..Len(order) : \A m \in 1..(k - 1) :
        \/ order[m] \in undone
        \/ written[order[m]] \in ancestry[written[order[k]]]
        \/ Overwritten(m, k, Gone(k))

\* A blob comes to the path once.
OnceEach == \A k, m \in 1..Len(order) : order[k] = order[m] => k = m

PendingNew ==
    \A i \in Inst : Saving(i, "rename") =>
        /\ saving[i].blob \notin Range(order)
        /\ \A j \in Inst \ {i} : Saving(j, "rename") => saving[j].blob # saving[i].blob

\* Everything after place k is undone.
LastStanding(k) == \A m \in 1..Len(order) : m > k => order[m] \in undone

\* What is at the path is the last that was put there and not undone, and a
\* power loss brings back nothing older than a settled save.
PathHistory ==
    /\ OnceEach
    /\ value = 0 => LastStanding(0)
    /\ \A k \in 1..Len(order) : order[k] = value => LastStanding(k)
    /\ settled \cap undone = {}
    /\ settled # {} => 0 \notin fallback
    /\ \A k, m \in 1..Len(order) :
            order[k] \in settled /\ order[m] \in fallback => k <= m

SavingKnown(i) ==
    saving[i] # NULL =>
        /\ view[i] = NULL
        /\ written[saving[i].blob] \in seen[i]
        /\ saving[i].at = "rename" => Accounted(i, ancestry[written[saving[i].blob]])
        /\ saving[i].at = "settle" => saving[i].blob \in Range(order) \ undone

ObjectKnown(i) ==
    /\ SavingKnown(i)
    /\ vault[i] # NULL => Accounted(i, seen[i])
    /\ view[i] # NULL => Accounted(i, {written[view[i]]} \cup ancestry[written[view[i]]])

FileTyped ==
    /\ fallback \subseteq {0} \cup (Range(order) \ undone)
    /\ value \in fallback
    /\ view \in [Inst -> {NULL} \cup 1..Len(written)]
    /\ written \in Seq(exports)
    /\ saving \in [Inst -> {NULL} \cup [blob : 1..Len(written), at : {"rename", "settle"}]]
    /\ undone \subseteq Range(order)
    /\ acked \subseteq Range(order)
    /\ settled \subseteq acked
    /\ missed \in [Inst -> SUBSET (1..Len(written))]
    /\ order \in Seq(1..Len(written))

FInv ==
    /\ VInv
    /\ FileTyped
    /\ PathHistory
    /\ PendingNew
    /\ InLine
    /\ \A i \in Inst : ObjectKnown(i)

-----------------------------------------------------------------------------
(***************************************************************************)
(* The objects keep what Vault proves of them.                             *)
(***************************************************************************)
LEMMA AllDieKeeps ==
    ASSUME VInv, AllDie
    PROVE  VInv'
<1>1. IInv'
  <2>1. TypeOK'
    BY DEF VInv, IInv, TypeOK, AllDie
  <2> QED
    BY <2>1 DEF VInv, IInv, AllDie
<1>2. HInv'
  <2>1. HeadersInUse' \subseteq HeadersInUse /\ Pending' = {}
    BY DEF AllDie, HeadersInUse, Pending
  <2>2. HeadersApart'
    BY <2>1 DEF VInv, HInv, HeadersApart, SaltsDrawn, PendingApart, AllDie
  <2>3. VaultsInLine'
    BY DEF AllDie, VaultsInLine
  <2>4. BlobsInLine'
    BY DEF VInv, HInv, AllDie, BlobsInLine, Succeeds, FilesIn
  <2> QED
    BY <2>2, <2>3, <2>4 DEF HInv
<1>3. NoncesDrawn' /\ NonceUnique'
  <2>1. VaultSealed' = {} /\ RekeySealed' = {}
    BY DEF AllDie, VaultSealed, RekeySealed
  <2>2. ExportSealed' = ExportSealed
    BY DEF AllDie, ExportSealed
  <2>3. AllSealed' \subseteq AllSealed
    BY <2>1, <2>2, AllSealedParts
  <2>4. drawn' = drawn
    BY DEF AllDie
  <2>5. NoncesDrawn'
    BY <2>3, <2>4 DEF VInv, NoncesDrawn
  <2>6. NonceUnique'
    BY <2>3 DEF VInv, NonceUnique
  <2> QED
    BY <2>5, <2>6
<1> QED
  BY <1>1, <1>2, <1>3 DEF VInv

LEMMA VaultStepKeeps ==
    ASSUME VInv, [Next]_vars
    PROVE  VInv'
<1>1. IInv'
  BY IInvNext DEF VInv
<1>2. HInv'
  BY HeadersStep, LinesStep DEF VInv, HInv
<1>3. NoncesDrawn' /\ NonceUnique'
  BY NoncesNext DEF VInv
<1> QED
  BY <1>1, <1>2, <1>3 DEF VInv

\* Every step of VaultFile is a step of Vault, or ends all objects.
LEMMA FileStepsOfVault ==
    ASSUME FInv, NextFile
    PROVE  [Next]_vars \/ AllDie
<1>1. ASSUME NEW i \in Inst, NEW p \in Password, CreateBeside(i, p)
      PROVE  Next
  BY <1>1 DEF CreateBeside, Next
<1>2. ASSUME NEW i \in Inst, NEW p \in Password, FinishLoad(i, p)
      PROVE  Next
  <2>1. view[i] \in 1..Len(written)
    BY <1>2 DEF FinishLoad, FInv, FileTyped
  <2>2. written[view[i]] \in exports
    BY <2>1, ElementOfSeq DEF FInv, FileTyped
  <2>3. OpenCurrent(i, p, written[view[i]]) \/ OpenRefused(i, p, written[view[i]])
    BY <1>2 DEF FinishLoad
  <2> QED
    BY <2>2, <2>3 DEF Next
<1>3. ASSUME NEW i \in Inst, Edit(i)
      PROVE  Next
  BY <1>3 DEF Edit, Next
<1>4. ASSUME NEW i \in Inst, BeginSave(i) \/ SaveFailsEarly(i) \/ Drop(i)
      PROVE  Next
  BY <1>4 DEF BeginSave, SaveFailsEarly, Drop, Next
<1>5. ASSUME NEW i \in Inst,
             ReplacePath(i) \/ SaveFails(i) \/ SaveReturns(i) \/ BeginLoad(i)
      PROVE  UNCHANGED vars
  BY <1>5 DEF ReplacePath, SaveFails, SaveReturns, BeginLoad
<1>6. PowerLoss => AllDie
  BY DEF PowerLoss, AllDie
<1> QED
  BY <1>1, <1>2, <1>3, <1>4, <1>5, <1>6 DEF NextFile

LEMMA VInvNext ==
    ASSUME FInv, NextFile
    PROVE  VInv'
  BY FileStepsOfVault, AllDieKeeps, VaultStepKeeps DEF FInv

-----------------------------------------------------------------------------
(***************************************************************************)
(* Steps that leave the path and the blobs as they are.                    *)
(***************************************************************************)
Quiet == UNCHANGED <<value, written, exports, ancestry, order, undone, clobbers>>

\* Such a step of object i leaves the others alone.
OthersSame(i) ==
    \A j \in Inst \ {i} :
        /\ vault'[j] = vault[j] /\ seen'[j] = seen[j] /\ missed'[j] = missed[j]
        /\ saving'[j] = saving[j] /\ view'[j] = view[j]

\* As long as the path is as it was, its history is; less may become settled
\* or come back.
LEMMA HistorySame ==
    ASSUME FInv, UNCHANGED <<value, order, undone>>,
           settled' \subseteq settled, fallback' \subseteq fallback
    PROVE  PathHistory'
<1>1. PathHistory
  BY DEF FInv
<1> QED
  BY <1>1 DEF PathHistory, OnceEach, LastStanding

LEMMA QuietStep ==
    ASSUME FInv, VInv', Quiet, NEW i \in Inst, OthersSame(i),
           FileTyped', PathHistory', saving'[i] \in {saving[i], NULL}, ObjectKnown(i)'
    PROVE  FInv'
<1>1. InLine'
  <2>1. /\ InLine
        /\ order' = order /\ undone' = undone /\ clobbers' = clobbers
        /\ written' = written /\ ancestry' = ancestry
    BY DEF FInv, Quiet
  <2>2. \A k, m : Overwritten(m, k, Gone(k))' = Overwritten(m, k, Gone(k))
    BY <2>1 DEF Overwritten, Gone
  <2> QED
    BY <2>1, <2>2 DEF InLine
<1>2. PendingNew'
  <2>1. PendingNew /\ order' = order
    BY DEF FInv, Quiet
  <2>2. ASSUME NEW j \in Inst, Saving(j, "rename")'
        PROVE  saving'[j] = saving[j] /\ Saving(j, "rename")
    BY <2>2 DEF OthersSame, Saving
  <2> QED
    BY <2>1, <2>2 DEF PendingNew
<1>3. ASSUME NEW j \in Inst \ {i}
      PROVE  ObjectKnown(j)'
  <2>1. ObjectKnown(j)
    BY DEF FInv
  <2> QED
    BY <2>1 DEF OthersSame, Quiet, ObjectKnown, SavingKnown, Accounted, Overwritten
<1>4. \A j \in Inst : ObjectKnown(j)'
  BY <1>3
<1> QED
  BY <1>1, <1>2, <1>4 DEF FInv

\* An object that is created beside the file has missed all that was there.
LEMMA CreateBesideStep ==
    ASSUME FInv, VInv', NEW i \in Inst, NEW p, CreateBeside(i, p)
    PROVE  FInv'
<1>1. /\ Quiet /\ saving[i] = NULL /\ view[i] = NULL
      /\ UNCHANGED <<view, written, saving, order, undone, acked, settled, clobbers>>
      /\ UNCHANGED <<value, fallback>>
      /\ missed' = [missed EXCEPT ![i] = Range(order) \ undone]
      /\ vault' = [vault EXCEPT ![i] = NewVault(p, drawn + 1, drawn + 2)]
      /\ seen' = seen /\ exports' = exports
  BY DEF CreateBeside, Create, Ready, Quiet, file
<1>2. FileTyped /\ DOMAIN vault = Inst /\ DOMAIN missed = Inst
  BY DEF FInv, FileTyped, VInv, IInv, TypeOK
<1>3. Range(order) \subseteq 1..Len(written)
  <2>1. order \in Seq(1..Len(written))
    BY <1>2 DEF FileTyped
  <2>2. \A m \in 1..Len(order) : order[m] \in 1..Len(written)
    BY <2>1, ElementOfSeq
  <2>3. DOMAIN order = 1..Len(order)
    BY <2>1, LenProperties
  <2> QED
    BY <2>2, <2>3 DEF Range
<1>4. FileTyped' /\ PathHistory'
  <2>1. FileTyped'
    BY <1>1, <1>2, <1>3 DEF FileTyped
  <2> QED
    BY <1>1, <2>1, HistorySame
<1>5. Accounted(i, seen[i])'
  <2>1. \A m \in 1..Len(order) : order[m] \in Range(order)
    BY <1>2, LenProperties DEF FileTyped, Range
  <2>2. missed'[i] = Range(order) \ undone
    BY <1>1, <1>2
  <2> QED
    BY <1>1, <2>1, <2>2 DEF Accounted
<1>6. ObjectKnown(i)'
  BY <1>1, <1>5 DEF ObjectKnown, SavingKnown
<1>7. OthersSame(i)
  BY <1>1, <1>2 DEF OthersSame
<1> QED
  BY <1>1, <1>4, <1>6, <1>7, QuietStep

\* store, remove and a failing save: the object changes, not what it descends
\* from.
LEMMA EditsStep ==
    ASSUME FInv, VInv', NEW i \in Inst, Ready(i), Edits(i), UNCHANGED <<file, lines>>
    PROVE  FInv'
<1>1. /\ vault[i] # NULL /\ UNCHANGED <<rekey, exports, seen, ancestry>>
      /\ \E w : vault' = [vault EXCEPT ![i] = w]
  BY EditsMakeLater DEF FInv, VInv
<1>2. DOMAIN vault = Inst /\ FileTyped
  BY DEF FInv, VInv, IInv, TypeOK
<1>3. Quiet /\ OthersSame(i) /\ FileTyped' /\ UNCHANGED <<saving, settled, fallback>>
  BY <1>1, <1>2 DEF Quiet, OthersSame, FileTyped, file, lines
<1>4. PathHistory'
  BY <1>3, HistorySame DEF Quiet
<1>5. Accounted(i, seen[i])
  BY <1>1 DEF FInv, ObjectKnown
<1>6. ObjectKnown(i)'
  BY <1>1, <1>5 DEF Ready, ObjectKnown, SavingKnown, Accounted, Overwritten, file, lines
<1> QED
  BY <1>3, <1>4, <1>6, QuietStep

LEMMA SaveEnds ==
    ASSUME FInv, VInv', NEW i \in Inst,
           UNCHANGED <<vars, value, view, written, order, undone, missed, clobbers>>,
           saving' = [saving EXCEPT ![i] = NULL],
           value \in fallback', fallback' \subseteq fallback,
           acked' \subseteq Range(order), settled' \subseteq acked',
           PathHistory'
    PROVE  FInv'
<1>1. UNCHANGED <<vault, exports, seen, ancestry>> /\ FileTyped /\ ObjectKnown(i)
  BY DEF vars, FInv
<1>2. Quiet /\ OthersSame(i)
  BY <1>1 DEF Quiet, OthersSame, FileTyped
<1>3. FileTyped'
  BY <1>1 DEF FileTyped
<1>4. saving'[i] = NULL
  BY <1>1 DEF FileTyped
<1>5. ObjectKnown(i)'
  BY <1>1, <1>4 DEF ObjectKnown, SavingKnown, Accounted, Overwritten
<1> QED
  BY <1>2, <1>3, <1>4, <1>5, QuietStep

LEMMA SaveFailsStep ==
    ASSUME FInv, VInv', NEW i \in Inst, SaveFails(i)
    PROVE  FInv'
<1>1. /\ UNCHANGED <<vars, value, fallback, view, written>>
      /\ UNCHANGED <<order, undone, acked, settled, missed, clobbers>>
      /\ saving' = [saving EXCEPT ![i] = NULL]
  BY DEF SaveFails, lines
<1>2. PathHistory'
  BY <1>1, HistorySame
<1> QED
  BY <1>1, <1>2, SaveEnds DEF FInv, FileTyped

\* The fsync of the directory settles what is at the path, which is not older
\* than the save that asked for it.
LEMMA SettleKeepsHistory ==
    ASSUME FInv, NEW s \in Range(order) \ undone,
           UNCHANGED <<value, order, undone>>,
           fallback' = {value}, settled' = settled \cup {s}
    PROVE  PathHistory'
<1>1. PathHistory /\ FileTyped /\ value \in fallback
  BY DEF FInv, FileTyped
<1>2. DOMAIN order = 1..Len(order) /\ Len(order) \in Nat
  BY <1>1, LenProperties DEF FileTyped
<1>3. PICK p \in 1..Len(order) : order[p] = s
  BY <1>2 DEF Range
<1>4. value # 0
  <2>1. LastStanding(0) => s \in undone
    BY <1>3 DEF LastStanding
  <2> QED
    BY <1>1, <2>1 DEF PathHistory
<1>5. ASSUME NEW k \in 1..Len(order), NEW m \in 1..Len(order),
             order[k] \in settled', order[m] \in fallback'
      PROVE  k <= m
  <2>1. order[m] = value
    BY <1>5
  <2>2. CASE order[k] \in settled
    BY <1>1, <2>1, <2>2 DEF PathHistory
  <2>3. CASE order[k] = s
    <3>1. LastStanding(m)
      BY <1>1, <2>1 DEF PathHistory
    <3>2. ~(k > m)
      BY <2>3, <3>1 DEF LastStanding
    <3> QED
      BY <3>2
  <2> QED
    BY <1>5, <2>2, <2>3
<1>6. settled' \cap undone' = {} /\ 0 \notin fallback'
  BY <1>1, <1>4 DEF PathHistory
<1>7. OnceEach' /\ (value' = 0 => LastStanding(0)')
      /\ \A k \in 1..Len(order) : order'[k] = value' => LastStanding(k)'
  BY <1>1 DEF PathHistory, OnceEach, LastStanding
<1> QED
  BY <1>5, <1>6, <1>7 DEF PathHistory

LEMMA SaveReturnsStep ==
    ASSUME FInv, VInv', NEW i \in Inst, SaveReturns(i)
    PROVE  FInv'
<1>1. /\ UNCHANGED <<vars, value, view, written, order, undone, missed, clobbers>>
      /\ saving' = [saving EXCEPT ![i] = NULL]
      /\ acked' = acked \cup {saving[i].blob}
      /\ \/ fallback' = {value} /\ settled' = settled \cup {saving[i].blob}
         \/ UNCHANGED <<fallback, settled>>
  BY DEF SaveReturns, File!Settle
<1>2. saving[i].blob \in Range(order) \ undone
  BY DEF SaveReturns, Saving, FInv, ObjectKnown, SavingKnown
<1>3. PathHistory'
  BY <1>1, <1>2, SettleKeepsHistory, HistorySame
<1>4. /\ value \in fallback' /\ fallback' \subseteq fallback
      /\ acked' \subseteq Range(order) /\ settled' \subseteq acked'
  BY <1>1, <1>2 DEF FInv, FileTyped
<1> QED
  BY <1>1, <1>3, <1>4, SaveEnds

LEMMA BeginLoadStep ==
    ASSUME FInv, VInv', NEW i \in Inst, BeginLoad(i)
    PROVE  FInv'
<1>1. /\ UNCHANGED <<vars, written, saving, order, undone, acked, settled, clobbers>>
      /\ UNCHANGED <<value, fallback>>
      /\ vault[i] = NULL /\ saving[i] = NULL /\ value # 0
      /\ view' = [view EXCEPT ![i] = value]
      /\ missed' = [missed EXCEPT ![i] = {}]
  BY DEF BeginLoad, Ready, Absent, File!Look
<1>2. FileTyped /\ PathHistory /\ InLine
  BY DEF FInv
<1>3. DOMAIN order = 1..Len(order) /\ Len(order) \in Nat
  BY <1>2, LenProperties DEF FileTyped
<1>4. PICK K \in 1..Len(order) : order[K] = value
  BY <1>1, <1>2, <1>3 DEF FileTyped, Range
<1>5. /\ value \notin undone /\ value \in 1..Len(written)
      /\ LastStanding(K)
  BY <1>1, <1>2, <1>4, ElementOfSeq DEF FileTyped, PathHistory
<1>6. FileTyped' /\ PathHistory'
  <2>1. FileTyped'
    BY <1>1, <1>2, <1>5 DEF FileTyped, vars
  <2> QED
    BY <1>1, <2>1, HistorySame
<1>7. \A m \in 1..Len(order) :
        \/ order[m] \in undone
        \/ written[order[m]] \in {written[value]} \cup ancestry[written[value]]
        \/ Overwritten(m, Len(order), undone)
  <2> SUFFICES ASSUME NEW m \in 1..Len(order), order[m] \notin undone
               PROVE  \/ written[order[m]] \in {written[value]} \cup ancestry[written[value]]
                      \/ Overwritten(m, Len(order), undone)
    OBVIOUS
  <2>1. CASE m = K
    BY <1>4, <2>1
  <2>2. CASE m > K
    BY <1>5, <2>2 DEF LastStanding
  <2>3. CASE m < K
    <3>1. m \in 1..(K - 1)
      BY <2>3
    <3>2. \/ written[order[m]] \in ancestry[written[value]]
          \/ Overwritten(m, K, undone)
      BY <1>2, <1>4, <1>5, <3>1 DEF InLine, Gone
    <3>3. \A l \in (m + 1)..K : l \in (m + 1)..Len(order)
      BY <1>3
    <3> QED
      BY <3>2, <3>3 DEF Overwritten
  <2>4. m < K \/ m = K \/ m > K
    OBVIOUS
  <2> QED
    BY <2>1, <2>2, <2>3, <2>4
<1>8. ObjectKnown(i)'
  <2>1. view'[i] = value
    BY <1>1, <1>2 DEF FileTyped
  <2> QED
    BY <1>1, <1>7, <2>1 DEF ObjectKnown, SavingKnown, Accounted, Overwritten, vars
<1>9. Quiet /\ OthersSame(i)
  BY <1>1, <1>2 DEF Quiet, OthersSame, FileTyped, vars
<1> QED
  BY <1>1, <1>6, <1>8, <1>9, QuietStep

LEMMA FinishLoadStep ==
    ASSUME FInv, VInv', NEW i \in Inst, NEW p, FinishLoad(i, p)
    PROVE  FInv'
<1> DEFINE b == written[view[i]]
<1>1. /\ UNCHANGED <<written, saving, order, undone, acked, settled, missed, clobbers>>
      /\ UNCHANGED <<value, fallback>>
      /\ view[i] # NULL /\ view' = [view EXCEPT ![i] = NULL]
      /\ UNCHANGED <<exports, ancestry>> /\ vault[i] = NULL
      /\ \/ UNCHANGED <<vault, seen>>
         \/ /\ vault' = [vault EXCEPT ![i] = OpenedVault(p, b)]
            /\ seen' = [seen EXCEPT ![i] = {b} \cup ancestry[b]]
  BY DEF FinishLoad, OpenCurrent, OpenRefused, Fails, Absent, lines, File!Forget
<1>2. FileTyped /\ ObjectKnown(i) /\ DOMAIN vault = Inst /\ DOMAIN seen = Inst
  BY DEF FInv, VInv, IInv, TypeOK
<1>3. saving[i] = NULL
  BY <1>1, <1>2 DEF ObjectKnown, SavingKnown
<1>4. Accounted(i, {b} \cup ancestry[b])
  BY <1>1, <1>2 DEF ObjectKnown
<1>5. FileTyped' /\ PathHistory'
  <2>1. FileTyped'
    BY <1>1, <1>2 DEF FileTyped
  <2> QED
    BY <1>1, <2>1, HistorySame
<1>6. view'[i] = NULL
  BY <1>1, <1>2 DEF FileTyped
<1>7. Quiet /\ OthersSame(i)
  BY <1>1, <1>2 DEF Quiet, OthersSame, FileTyped
<1>8. ObjectKnown(i)'
  <2>1. CASE UNCHANGED <<vault, seen>>
    BY <1>1, <1>3, <1>6, <2>1 DEF ObjectKnown, SavingKnown
  <2>2. CASE /\ vault' = [vault EXCEPT ![i] = OpenedVault(p, b)]
             /\ seen' = [seen EXCEPT ![i] = {b} \cup ancestry[b]]
    <3>1. seen'[i] = {b} \cup ancestry[b]
      BY <1>2, <2>2
    <3> HIDE DEF b
    <3> QED
      BY <1>1, <1>3, <1>4, <1>6, <3>1 DEF ObjectKnown, SavingKnown, Accounted, Overwritten
  <2> QED
    BY <1>1, <2>1, <2>2
<1> QED
  BY <1>1, <1>5, <1>7, <1>8, QuietStep

LEMMA DropStep ==
    ASSUME FInv, VInv', NEW i \in Inst, Drop(i)
    PROVE  FInv'
<1>1. /\ UNCHANGED <<value, fallback, view, written>>
      /\ UNCHANGED <<order, undone, acked, settled, missed, clobbers>>
      /\ UNCHANGED <<exports, ancestry>>
      /\ vault' = [vault EXCEPT ![i] = NULL] /\ seen' = [seen EXCEPT ![i] = {}]
      /\ saving' = [saving EXCEPT ![i] = NULL]
  BY DEF Drop, Crash, lines
<1>2. FileTyped /\ ObjectKnown(i) /\ DOMAIN vault = Inst /\ DOMAIN seen = Inst
  BY DEF FInv, VInv, IInv, TypeOK
<1>3. saving'[i] = NULL /\ vault'[i] = NULL
  BY <1>1, <1>2 DEF FileTyped
<1>4. FileTyped' /\ PathHistory'
  <2>1. FileTyped'
    BY <1>1, <1>2 DEF FileTyped
  <2> QED
    BY <1>1, <2>1, HistorySame
<1>5. ObjectKnown(i)'
  BY <1>1, <1>2, <1>3 DEF ObjectKnown, SavingKnown, Accounted, Overwritten
<1>6. Quiet /\ OthersSame(i)
  BY <1>1, <1>2 DEF Quiet, OthersSame, FileTyped
<1> QED
  BY <1>3, <1>4, <1>5, <1>6, QuietStep

-----------------------------------------------------------------------------
(***************************************************************************)
(* Steps that add a blob, or change the path.                              *)
(***************************************************************************)
\* The blob of an export is new, for its nonce is.
LEMMA BeginSaveStep ==
    ASSUME FInv, VInv', NEW i \in Inst, BeginSave(i)
    PROVE  FInv'
<1> DEFINE b == ExportedBlob(AdvanceNonce(vault[i], drawn + 1))
           n == Len(written) + 1
<1>1. /\ UNCHANGED <<value, fallback, view>>
      /\ UNCHANGED <<order, undone, acked, settled, missed, clobbers>>
      /\ saving[i] = NULL /\ view[i] = NULL /\ vault[i] # NULL
      /\ vault' = [vault EXCEPT ![i] = AdvanceNonce(vault[i], drawn + 1)]
      /\ exports' = exports \cup {b}
      /\ ancestry' = [c \in exports \cup {b} |-> IF c = b THEN seen[i] ELSE ancestry[c]]
      /\ seen' = [seen EXCEPT ![i] = seen[i] \cup {b}]
      /\ written' = Append(written, CHOOSE c \in exports' : c \notin exports)
      /\ saving' = [saving EXCEPT ![i] = [blob |-> Len(written'), at |-> "rename"]]
  BY DEF BeginSave, Export, Ready, Open, lines
<1>2. /\ FileTyped /\ InLine /\ TypeOK /\ NoncesDrawn
      /\ DOMAIN vault = Inst /\ DOMAIN seen = Inst /\ drawn \in Nat
      /\ seen[i] \subseteq exports /\ Accounted(i, seen[i])
  <2>1. TypeOK /\ ObjectKnown(i)
    BY DEF FInv, VInv, IInv
  <2> QED
    BY <1>1, <2>1 DEF FInv, VInv, TypeOK, ObjectKnown
<1>3. b \notin exports
  <2>1. ASSUME b \in exports PROVE FALSE
    <3>1. b.encrypted_index \in AllSealed
      BY <2>1 DEF AllSealed
    <3>2. b.encrypted_index.nonce = AdvanceNonce(vault[i], drawn + 1).nonce
      BY DEF ExportedBlob, SealWithAad
    <3>3. IsVault(vault[i])
      BY <1>1, <1>2 DEF TypeOK
    <3>4. AdvanceNonce(vault[i], drawn + 1).nonce = drawn + 1
      BY <3>3 DEF AdvanceNonce, IsVault
    <3>5. drawn + 1 \in 1..drawn
      BY <1>2, <3>1, <3>2, <3>4 DEF NoncesDrawn
    <3> QED
      BY <1>2, <3>5
  <2> QED
    BY <2>1
<1> HIDE DEF b
<1>4. (CHOOSE c \in exports' : c \notin exports) = b
  BY <1>1, <1>3
<1>5. /\ written' \in Seq(exports') /\ Len(written') = n /\ written'[n] = b
      /\ \A k \in 1..Len(written) : written'[k] = written[k] /\ written[k] \in exports
      /\ Len(written) \in Nat
  <2>1. written \in Seq(exports) /\ Len(written) \in Nat
    BY <1>2, LenProperties DEF FileTyped
  <2>2. written \in Seq(exports') /\ b \in exports'
    <3>1. written \in [1..Len(written) -> exports]
      BY <2>1, LenProperties
    <3>2. written \in [1..Len(written) -> exports']
      BY <1>1, <3>1
    <3> QED
      BY <1>1, <2>1, <3>2, SeqDef
  <2>3. \A k \in 1..Len(written) : written[k] \in exports
    BY <2>1, ElementOfSeq
  <2>4. written' = Append(written, b)
    BY <1>1, <1>4
  <2> QED
    BY <2>1, <2>2, <2>3, <2>4, AppendProperties
<1>6. \A c \in exports : ancestry'[c] = ancestry[c]
  BY <1>1, <1>3
<1>7. ancestry'[b] = seen[i]
  BY <1>1
<1>8. 1..Len(written) \subseteq 1..n /\ n \in 1..n
  BY <1>5
<1>9. \A m \in 1..Len(order) : order[m] \in 1..Len(written)
  BY <1>2, ElementOfSeq DEF FileTyped
<1>10. \A m \in 1..Len(order) :
         written'[order[m]] = written[order[m]] /\ written[order[m]] \in exports
  BY <1>5, <1>9
<1>11. saving'[i] = [blob |-> n, at |-> "rename"]
  BY <1>1, <1>2, <1>5 DEF FileTyped
<1>12. FileTyped'
  <2> HIDE DEF n
  <2>1. /\ fallback' \subseteq {0} \cup (Range(order') \ undone') /\ value' \in fallback'
        /\ undone' \subseteq Range(order') /\ acked' \subseteq Range(order')
        /\ settled' \subseteq acked'
    BY <1>1, <1>2 DEF FileTyped
  <2>2. view' \in [Inst -> {NULL} \cup 1..n] /\ missed' \in [Inst -> SUBSET (1..n)]
    BY <1>1, <1>2, <1>8 DEF FileTyped
  <2>3. saving' \in [Inst -> {NULL} \cup [blob : 1..n, at : {"rename", "settle"}]]
    BY <1>1, <1>2, <1>5, <1>8 DEF FileTyped
  <2>4. order' \in Seq(1..n)
    <3>1. order \in [1..Len(order) -> 1..Len(written)] /\ Len(order) \in Nat
      BY <1>2, LenProperties DEF FileTyped
    <3>2. order \in [1..Len(order) -> 1..n]
      BY <1>8, <3>1
    <3> QED
      BY <1>1, <3>1, <3>2, SeqDef
  <2> QED
    BY <1>5, <2>1, <2>2, <2>3, <2>4 DEF FileTyped
<1> HIDE DEF n
<1>13. InLine'
  <2> SUFFICES ASSUME NEW k \in 1..Len(order), NEW m \in 1..(k - 1)
               PROVE  \/ order[m] \in undone
                      \/ written'[order[m]] \in ancestry'[written'[order[k]]]
                      \/ Overwritten(m, k, Gone(k))
    BY <1>1 DEF InLine, Overwritten, Gone
  <2>1. m \in 1..Len(order)
    BY <1>2, LenProperties DEF FileTyped
  <2>2. \/ order[m] \in undone
        \/ written[order[m]] \in ancestry[written[order[k]]]
        \/ Overwritten(m, k, Gone(k))
    BY <1>2 DEF InLine
  <2>3. /\ written'[order[m]] = written[order[m]]
        /\ ancestry'[written'[order[k]]] = ancestry[written[order[k]]]
    BY <1>6, <1>10, <2>1
  <2> QED
    BY <2>2, <2>3
<1>14. Accounted(i, seen[i])' /\ Accounted(i, ancestry[written[saving[i].blob]])'
  <2>1. seen'[i] = seen[i] \cup {b}
    BY <1>1, <1>2
  <2>2. ancestry'[written'[saving'[i].blob]] = seen[i]
    BY <1>5, <1>7, <1>11
  <2>3. \A m \in 1..Len(order) :
            \/ order[m] \in undone
            \/ order[m] \in missed[i] \/ written'[order[m]] \in seen[i]
            \/ Overwritten(m, Len(order), undone)
    BY <1>2, <1>10 DEF Accounted
  <2> QED
    BY <1>1, <2>1, <2>2, <2>3 DEF Accounted, Overwritten
<1>15. ObjectKnown(i)'
  <2>2. written'[saving'[i].blob] \in seen'[i]
    BY <1>1, <1>2, <1>5, <1>11
  <2>3. saving'[i].at = "rename"
    BY <1>11
  <2>4. view'[i] = NULL
    BY <1>1
  <2> QED
    BY <1>14, <2>2, <2>3, <2>4 DEF ObjectKnown, SavingKnown
<1>16. ASSUME NEW j \in Inst, NEW B, missed'[j] = missed[j], Accounted(j, B)
       PROVE  \A m \in 1..Len(order') :
                \/ order'[m] \in undone'
                \/ order'[m] \in missed'[j] \/ written'[order'[m]] \in B
                \/ Overwritten(m, Len(order), undone)'
  <2>1. \A m : Overwritten(m, Len(order), undone)' = Overwritten(m, Len(order), undone)
    BY <1>1 DEF Overwritten
  <2> QED
    BY <1>1, <1>10, <1>16, <2>1 DEF Accounted
<1>17. ASSUME NEW j \in Inst \ {i}
       PROVE  ObjectKnown(j)'
  <2>1. ObjectKnown(j)
    BY DEF FInv
  <2>2. /\ vault'[j] = vault[j] /\ seen'[j] = seen[j] /\ missed'[j] = missed[j]
        /\ saving'[j] = saving[j] /\ view'[j] = view[j]
    BY <1>1, <1>2 DEF FileTyped
  <2>3. saving[j] # NULL =>
          /\ written'[saving[j].blob] = written[saving[j].blob]
          /\ ancestry'[written[saving[j].blob]] = ancestry[written[saving[j].blob]]
    <3>1. saving[j] # NULL => saving[j].blob \in 1..Len(written)
      BY <1>2 DEF FileTyped
    <3> QED
      BY <1>5, <1>6, <3>1
  <2>4. view[j] # NULL =>
          /\ written'[view[j]] = written[view[j]]
          /\ ancestry'[written[view[j]]] = ancestry[written[view[j]]]
    <3>1. view[j] # NULL => view[j] \in 1..Len(written)
      BY <1>2 DEF FileTyped
    <3> QED
      BY <1>5, <1>6, <3>1
  <2>5. vault[j] # NULL => Accounted(j, seen[j])'
    BY <1>1, <1>10, <2>1, <2>2 DEF ObjectKnown, Accounted, Overwritten
  <2>6. SavingKnown(j)'
    <3> SUFFICES ASSUME saving[j] # NULL
                 PROVE  /\ view'[j] = NULL
                        /\ written'[saving'[j].blob] \in seen'[j]
                        /\ saving'[j].at = "rename" =>
                                Accounted(j, ancestry[written[saving[j].blob]])'
                        /\ saving'[j].at = "settle" =>
                                saving'[j].blob \in Range(order') \ undone'
      BY <2>2 DEF SavingKnown
    <3>1. saving[j].at = "rename" => Accounted(j, ancestry[written[saving[j].blob]])
      BY <2>1 DEF ObjectKnown, SavingKnown
    <3>2. ancestry'[written'[saving'[j].blob]] = ancestry[written[saving[j].blob]]
      BY <2>2, <2>3
    <3>3. saving[j].at = "rename" => Accounted(j, ancestry[written[saving[j].blob]])'
      <4> SUFFICES ASSUME saving[j].at = "rename"
                   PROVE  Accounted(j, ancestry[written[saving[j].blob]])'
        OBVIOUS
      <4> DEFINE B == ancestry[written[saving[j].blob]]
      <4>1. Accounted(j, B)
        BY <3>1
      <4>2. \A m \in 1..Len(order') :
                \/ order'[m] \in undone'
                \/ order'[m] \in missed'[j] \/ written'[order'[m]] \in B
                \/ Overwritten(m, Len(order), undone)'
        BY <1>16, <2>2, <4>1
      <4> QED
        BY <3>2, <4>2 DEF Accounted
    <3> QED
      BY <1>1, <2>1, <2>2, <2>3, <3>3 DEF ObjectKnown, SavingKnown
  <2>7. view[j] # NULL => Accounted(j, {written[view[j]]} \cup ancestry[written[view[j]]])'
    <3> SUFFICES ASSUME view[j] # NULL
                 PROVE  Accounted(j, {written[view[j]]} \cup ancestry[written[view[j]]])'
      OBVIOUS
    <3>1. Accounted(j, {written[view[j]]} \cup ancestry[written[view[j]]])
      BY <2>1 DEF ObjectKnown
    <3>2. /\ written'[view'[j]] = written[view[j]]
          /\ ancestry'[written'[view'[j]]] = ancestry[written[view[j]]]
      BY <2>2, <2>4
    <3> QED
      <4> DEFINE B == {written[view[j]]} \cup ancestry[written[view[j]]]
      <4>1. Accounted(j, B)
        BY <3>1
      <4>2. \A m \in 1..Len(order') :
                \/ order'[m] \in undone'
                \/ order'[m] \in missed'[j] \/ written'[order'[m]] \in B
                \/ Overwritten(m, Len(order), undone)'
        BY <1>16, <2>2, <4>1
      <4>3. B = {written'[view'[j]]} \cup ancestry'[written'[view'[j]]]
        BY <3>2
      <4> HIDE DEF B
      <4> QED
        BY <4>2, <4>3 DEF Accounted
  <2> QED
    BY <2>2, <2>5, <2>6, <2>7 DEF ObjectKnown
<1>18. \A j \in Inst : ObjectKnown(j)'
  BY <1>15, <1>17
<1>19. PathHistory'
  BY <1>1, HistorySame
<1>20. PendingNew'
  <2>1. PendingNew /\ DOMAIN order = 1..Len(order)
    BY <1>2, LenProperties DEF FInv, FileTyped
  <2>2. n \notin 1..Len(written)
    BY <1>5 DEF n
  <2>3. n \notin Range(order)
    BY <1>9, <2>1, <2>2 DEF Range
  <2>4. ASSUME NEW j \in Inst \ {i}
        PROVE  /\ saving'[j] = saving[j] /\ Saving(j, "rename")' = Saving(j, "rename")
               /\ Saving(j, "rename") => saving[j].blob # n
    <3>1. saving'[j] = saving[j]
      BY <1>1, <1>2 DEF FileTyped
    <3>2. saving[j] # NULL => saving[j].blob \in 1..Len(written)
      BY <1>2 DEF FileTyped
    <3> QED
      BY <2>2, <3>1, <3>2 DEF Saving
  <2>5. saving'[i].blob = n
    BY <1>11
  <2> QED
    BY <1>1, <2>1, <2>3, <2>4, <2>5 DEF PendingNew
<1> QED
  BY <1>12, <1>13, <1>18, <1>19, <1>20 DEF FInv

\* Who replaces the file at the path overwrites what it has missed; everyone
\* else misses what it has put there.
LEMMA ReplacePathStep ==
    ASSUME FInv, VInv', NEW i \in Inst, ReplacePath(i)
    PROVE  FInv'
<1> DEFINE c == saving[i].blob
<1>1. PICK N \in Nat : N = Len(order)
  BY LenProperties DEF FInv, FileTyped
<1>2. /\ UNCHANGED <<vault, exports, seen, ancestry, written, view>>
      /\ UNCHANGED <<undone, acked, settled>>
      /\ saving[i] # NULL /\ saving[i].at = "rename"
      /\ saving' = [saving EXCEPT ![i].at = "settle"]
      /\ value' = c /\ fallback' = fallback \cup {c}
      /\ order' = Append(order, c)
      /\ clobbers' = clobbers \cup (missed[i] \X {c})
      /\ missed' = [j \in Inst |-> IF j = i THEN {} ELSE missed[j] \cup {c}]
  BY DEF ReplacePath, Saving, File!Replace, vars
<1>3. FileTyped /\ PathHistory /\ PendingNew /\ InLine
  BY DEF FInv
<1>4. c \in 1..Len(written) /\ saving'[i] = [blob |-> c, at |-> "settle"]
  BY <1>2, <1>3 DEF FileTyped
<1>5. /\ SavingKnown(i) /\ view[i] = NULL /\ written[c] \in seen[i]
      /\ Accounted(i, ancestry[written[c]])
  BY <1>2 DEF FInv, ObjectKnown, SavingKnown
<1>6. /\ c \notin Range(order)
       /\ \A j \in Inst \ {i} : Saving(j, "rename") => saving[j].blob # c
  BY <1>2, <1>3 DEF PendingNew, Saving
<1> HIDE DEF c
<1>7. /\ order' \in Seq(1..Len(written)) /\ Len(order') = N + 1
      /\ order'[N + 1] = c
      /\ \A m \in 1..N : order'[m] = order[m]
  BY <1>1, <1>2, <1>3, <1>4, AppendProperties DEF FileTyped
<1>8. DOMAIN order = 1..N
  BY <1>1, <1>3, LenProperties DEF FileTyped
<1>9. \A m \in 1..(N + 1) : m \in 1..N \/ m = N + 1
  BY <1>7
<1>10. Range(order') = Range(order) \cup {c}
  <2>1. DOMAIN order' = 1..(N + 1)
    BY <1>7, LenProperties
  <2>2. 1..(N + 1) = 1..N \cup {N + 1}
    BY <1>7
  <2> QED
    BY <1>7, <1>8, <2>1, <2>2 DEF Range
<1>11. /\ c \notin undone /\ c \notin settled /\ c \notin fallback
       /\ \A m \in 1..N : order[m] # c
  <2>1. c # 0
    BY <1>4
  <2>2. \A m \in 1..N : order[m] # c
    BY <1>6, <1>8 DEF Range
  <2> QED
    BY <1>3, <1>6, <2>1, <2>2 DEF FileTyped
<1>12. FileTyped'
  <2>1. saving' \in [Inst -> {NULL} \cup [blob : 1..Len(written), at : {"rename", "settle"}]]
    <3>1. saving'[i] \in [blob : 1..Len(written), at : {"rename", "settle"}]
      BY <1>4
    <3>2. saving' = [saving EXCEPT ![i] = saving'[i]]
      BY <1>2, <1>3 DEF FileTyped
    <3> QED
      BY <1>3, <3>1, <3>2 DEF FileTyped
  <2>2. missed' \in [Inst -> SUBSET (1..Len(written))]
    BY <1>2, <1>3, <1>4 DEF FileTyped
  <2>3. fallback' \subseteq {0} \cup (Range(order') \ undone') /\ value' \in fallback'
    BY <1>2, <1>3, <1>10, <1>11 DEF FileTyped
  <2> QED
    BY <1>2, <1>3, <1>7, <1>10, <2>1, <2>2, <2>3 DEF FileTyped
<1>13. PathHistory'
  <2>1. OnceEach'
    <3> SUFFICES ASSUME NEW k \in 1..(N + 1), NEW m \in 1..(N + 1), order'[k] = order'[m]
                 PROVE  k = m
      BY <1>7 DEF OnceEach
    <3>1. CASE k \in 1..N /\ m \in 1..N
      BY <1>1, <1>3, <1>7, <3>1 DEF PathHistory, OnceEach
    <3>2. CASE k = N + 1 \/ m = N + 1
      BY <1>7, <1>9, <1>11, <3>2
    <3> QED
      BY <1>9, <3>1, <3>2
  <2>2. value' # 0
    BY <1>2, <1>4
  <2>3. \A k \in 1..(N + 1) : order'[k] = value' => LastStanding(k)'
    <3> SUFFICES ASSUME NEW k \in 1..(N + 1), order'[k] = c
                 PROVE  LastStanding(k)'
      BY <1>2
    <3>1. k = N + 1
      BY <1>7, <1>9, <1>11
    <3>2. \A m \in 1..(N + 1) : ~(m > N + 1)
      BY <1>7
    <3> QED
      BY <1>7, <3>1, <3>2 DEF LastStanding
  <2>4. settled' \cap undone' = {}
    BY <1>2, <1>3 DEF PathHistory
  <2>5. settled' # {} => 0 \notin fallback'
    BY <1>2, <1>3, <1>4 DEF PathHistory
  <2>6. ASSUME NEW k \in 1..(N + 1), NEW m \in 1..(N + 1),
               order'[k] \in settled', order'[m] \in fallback'
        PROVE  k <= m
    <3>1. k \in 1..N /\ order[k] \in settled
      BY <1>2, <1>7, <1>9, <1>11, <2>6
    <3>2. CASE m \in 1..N
      <4>1. order[m] \in fallback
        BY <1>2, <1>7, <1>11, <2>6, <3>2
      <4> QED
        BY <1>1, <1>3, <3>1, <3>2, <4>1 DEF PathHistory
    <3>3. CASE m = N + 1
      BY <1>7, <3>1, <3>3
    <3> QED
      BY <1>9, <3>2, <3>3
  <2> QED
    BY <1>7, <2>1, <2>2, <2>3, <2>4, <2>5, <2>6 DEF PathHistory
<1>14. PendingNew'
  <2>1. ASSUME NEW j \in Inst, Saving(j, "rename")'
        PROVE  j # i /\ saving'[j] = saving[j] /\ Saving(j, "rename")
    <3>1. j # i
      BY <1>4, <2>1 DEF Saving
    <3>2. saving'[j] = saving[j]
      BY <1>2, <1>3, <3>1 DEF FileTyped
    <3> QED
      BY <2>1, <3>1, <3>2 DEF Saving
  <2> QED
    BY <1>3, <1>6, <1>10, <2>1 DEF PendingNew
<1>15. \A m \in 1..N : \A k \in 1..N : \A gone :
        Overwritten(m, k, gone) => Overwritten(m, k, gone)'
  <2> SUFFICES ASSUME NEW m \in 1..N, NEW k \in 1..N, NEW gone, Overwritten(m, k, gone)
               PROVE  \E l \in (m + 1)..k :
                        <<order'[m], order'[l]>> \in clobbers' /\ order'[l] \notin gone
    BY DEF Overwritten
  <2>1. PICK l \in (m + 1)..k : <<order[m], order[l]>> \in clobbers /\ order[l] \notin gone
    BY DEF Overwritten
  <2>2. l \in 1..N
    BY <1>7, <2>1
  <2> QED
    BY <1>2, <1>7, <2>1, <2>2
<1>16. \A m \in 1..N : Overwritten(m, N, undone) => Overwritten(m, N + 1, undone)'
  <2> SUFFICES ASSUME NEW m \in 1..N, Overwritten(m, N, undone)
               PROVE  \E l \in (m + 1)..(N + 1) :
                        <<order'[m], order'[l]>> \in clobbers' /\ order'[l] \notin undone
    BY <1>2 DEF Overwritten
  <2>1. PICK l \in (m + 1)..N : <<order[m], order[l]>> \in clobbers /\ order[l] \notin undone
    BY DEF Overwritten
  <2>2. l \in 1..N /\ l \in (m + 1)..(N + 1)
    BY <1>7, <2>1
  <2> QED
    BY <1>2, <1>7, <2>1, <2>2
<1>17. \A m \in 1..N : order[m] \in missed[i] => Overwritten(m, N + 1, undone)'
  <2> SUFFICES ASSUME NEW m \in 1..N, order[m] \in missed[i]
               PROVE  \E l \in (m + 1)..(N + 1) :
                        <<order'[m], order'[l]>> \in clobbers' /\ order'[l] \notin undone
    BY <1>2 DEF Overwritten
  <2>1. <<order'[m], order'[N + 1]>> \in clobbers' /\ order'[N + 1] \notin undone
    BY <1>2, <1>7, <1>11
  <2>2. N + 1 \in (m + 1)..(N + 1)
    BY <1>7
  <2> QED
    BY <2>1, <2>2
<1>18. InLine'
  <2> SUFFICES ASSUME NEW k \in 1..(N + 1), NEW m \in 1..(k - 1), order'[m] \notin undone
               PROVE  \/ written[order'[m]] \in ancestry[written[order'[k]]]
                      \/ Overwritten(m, k, Gone(k))'
    BY <1>2, <1>7 DEF InLine
  <2>1. m \in 1..N
    BY <1>7
  <2>2. CASE k \in 1..N
    <3>1. written[order[m]] \in ancestry[written[order[k]]] \/ Overwritten(m, k, Gone(k))
      BY <1>1, <1>3, <1>7, <2>1, <2>2 DEF InLine
    <3>2. Gone(k)' = Gone(k)
      BY <1>2, <1>7, <2>2 DEF Gone
    <3>3. Overwritten(m, k, Gone(k)) => Overwritten(m, k, Gone(k))'
      <4>1. \A gone : Overwritten(m, k, gone) => Overwritten(m, k, gone)'
        BY <1>15, <2>1, <2>2
      <4> QED
        BY <3>2, <4>1 DEF Overwritten
    <3> QED
      BY <1>7, <2>1, <2>2, <3>1, <3>3
  <2>3. CASE k = N + 1
    <3>1. \/ order[m] \in missed[i] \/ written[order[m]] \in ancestry[written[c]]
          \/ Overwritten(m, N, undone)
      BY <1>1, <1>5, <1>7, <2>1 DEF Accounted
    <3>2. Gone(k)' = undone'
      BY <1>2, <1>7, <1>11, <2>3 DEF Gone
    <3>3. Overwritten(m, N + 1, undone)' => Overwritten(m, k, Gone(k))'
      BY <2>3, <3>2 DEF Overwritten
    <3> QED
      BY <1>7, <1>16, <1>17, <2>1, <2>3, <3>1, <3>3
  <2> QED
    BY <1>9, <2>2, <2>3
<1>19. ObjectKnown(i)'
  <2>1. vault[i] # NULL => Accounted(i, seen[i])'
    <3> SUFFICES ASSUME vault[i] # NULL, NEW m \in 1..(N + 1), order'[m] \notin undone
                 PROVE  written[order'[m]] \in seen[i] \/ Overwritten(m, N + 1, undone)'
      BY <1>2, <1>7 DEF Accounted
    <3>1. CASE m \in 1..N
      <4>1. order[m] \in missed[i] \/ written[order[m]] \in seen[i] \/ Overwritten(m, N, undone)
        BY <1>1, <1>7, <3>1 DEF FInv, ObjectKnown, Accounted
      <4> QED
        BY <1>7, <1>16, <1>17, <3>1, <4>1
    <3>2. CASE m = N + 1
      BY <1>5, <1>7, <3>2
    <3> QED
      BY <1>9, <3>1, <3>2
  <2>2. SavingKnown(i)'
    BY <1>2, <1>4, <1>5, <1>10, <1>11 DEF SavingKnown
  <2> QED
    BY <1>2, <1>5, <2>1, <2>2 DEF ObjectKnown
<1>20. ASSUME NEW j \in Inst \ {i}
       PROVE  ObjectKnown(j)'
  <2>1. ObjectKnown(j)
    BY DEF FInv
  <2>2. saving'[j] = saving[j] /\ missed'[j] = missed[j] \cup {c}
    BY <1>2, <1>3 DEF FileTyped
  <2>3. \A B : Accounted(j, B) => Accounted(j, B)'
    <3> SUFFICES ASSUME NEW B, Accounted(j, B), NEW m \in 1..(N + 1), order'[m] \notin undone
                 PROVE  \/ order'[m] \in missed'[j] \/ written[order'[m]] \in B
                        \/ Overwritten(m, N + 1, undone)'
      BY <1>2, <1>7 DEF Accounted
    <3>1. CASE m \in 1..N
      <4>1. order[m] \in missed[j] \/ written[order[m]] \in B \/ Overwritten(m, N, undone)
        BY <1>1, <1>7, <3>1 DEF Accounted
      <4> QED
        BY <1>7, <1>16, <2>2, <3>1, <4>1
    <3>2. CASE m = N + 1
      BY <1>7, <2>2, <3>2
    <3> QED
      BY <1>9, <3>1, <3>2
  <2>5. vault[j] # NULL => Accounted(j, seen[j])'
    BY <1>2, <2>1, <2>3 DEF ObjectKnown, Accounted
  <2>6. saving[j] # NULL /\ saving[j].at = "rename" =>
            Accounted(j, ancestry[written[saving[j].blob]])'
    BY <1>2, <2>1, <2>2, <2>3 DEF ObjectKnown, SavingKnown, Accounted
  <2>7. view[j] # NULL =>
            Accounted(j, {written[view[j]]} \cup ancestry[written[view[j]]])'
    BY <1>2, <2>1, <2>3 DEF ObjectKnown, Accounted
  <2> QED
    BY <1>2, <1>10, <2>1, <2>2, <2>5, <2>6, <2>7 DEF ObjectKnown, SavingKnown
<1>21. \A j \in Inst : ObjectKnown(j)'
  BY <1>19, <1>20
<1> QED
  BY <1>12, <1>13, <1>14, <1>18, <1>21 DEF FInv

\* A power loss takes the path back to something that was there and not undone
\* yet, undoes what came after it, and leaves no object that would have to
\* account for it.
LEMMA PowerLossStep ==
    ASSUME FInv, VInv', PowerLoss
    PROVE  FInv'
<1> DEFINE lost == PutAfter(value')
<1>1. /\ value' \in fallback /\ fallback' = {value'}
      /\ view' = [i \in Inst |-> NULL]
      /\ vault' = [i \in Inst |-> NULL]
      /\ saving' = [i \in Inst |-> NULL]
      /\ missed' = [i \in Inst |-> {}]
      /\ undone' = undone \cup lost
      /\ UNCHANGED <<exports, ancestry, written>>
      /\ UNCHANGED <<order, acked, settled, clobbers>>
  BY DEF PowerLoss, File!PowerLoss
<1>2. FileTyped /\ PathHistory /\ InLine /\ OnceEach
  BY DEF FInv, PathHistory
<1>3. DOMAIN order = 1..Len(order) /\ Len(order) \in Nat
  BY <1>2, LenProperties DEF FileTyped
<1>4. \A k \in 1..Len(order) :
        order[k] \in lost <=> \A l \in k..Len(order) : order[l] # value'
  <2> SUFFICES ASSUME NEW k \in 1..Len(order)
               PROVE  order[k] \in lost <=> \A l \in k..Len(order) : order[l] # value'
    OBVIOUS
  <2>1. ASSUME order[k] \in lost PROVE \A l \in k..Len(order) : order[l] # value'
    <3>1. PICK q \in DOMAIN order :
            order[q] = order[k] /\ \A l \in q..Len(order) : order[l] # value'
      BY <2>1 DEF PutAfter
    <3>2. q = k
      BY <1>2, <1>3, <3>1 DEF OnceEach
    <3> QED
      BY <3>1, <3>2
  <2>2. ASSUME \A l \in k..Len(order) : order[l] # value' PROVE order[k] \in lost
    BY <1>3, <2>2 DEF PutAfter
  <2> QED
    BY <2>1, <2>2
<1>5. lost \subseteq Range(order)
  BY DEF PutAfter, Range
<1> HIDE DEF lost
<1>6. \A q \in 1..Len(order) : order[q] = value' =>
        /\ order[q] \notin lost
        /\ \A k \in 1..Len(order) : order[k] \in lost <=> k > q
  <2> SUFFICES ASSUME NEW q \in 1..Len(order), order[q] = value', NEW k \in 1..Len(order)
               PROVE  order[k] \in lost <=> k > q
    BY <1>3
  <2>1. ASSUME order[k] \in lost PROVE k > q
    <3>1. ~(q \in k..Len(order))
      BY <1>4, <2>1
    <3> QED
      BY <1>3, <3>1
  <2>2. ASSUME k > q PROVE order[k] \in lost
    <3>1. ASSUME NEW l \in k..Len(order) PROVE order[l] # value'
      <4>1. l \in 1..Len(order) /\ l # q
        BY <1>3, <2>2
      <4> QED
        BY <1>2, <4>1 DEF OnceEach
    <3> QED
      BY <1>4, <3>1
  <2> QED
    BY <2>1, <2>2
<1>7. value' # 0 => \E q \in 1..Len(order) : order[q] = value'
  BY <1>1, <1>2, <1>3 DEF FileTyped, Range
<1>8. value' # 0 => value' \in Range(order) \ undone'
  BY <1>1, <1>2, <1>3, <1>6, <1>7 DEF FileTyped, Range
<1>9. FileTyped'
  BY <1>1, <1>2, <1>5, <1>8 DEF FileTyped
<1>10. PathHistory'
  <2>1. OnceEach'
    BY <1>1, <1>2 DEF OnceEach
  <2>2. value' = 0 => LastStanding(0)'
    <3> SUFFICES ASSUME value' = 0, NEW m \in 1..Len(order)
                 PROVE  order[m] \in lost
      BY <1>1 DEF LastStanding
    <3>1. \A l \in 1..Len(order) : order[l] # 0
      BY <1>2, ElementOfSeq DEF FileTyped
    <3>2. \A l \in m..Len(order) : l \in 1..Len(order)
      BY <1>3
    <3> QED
      BY <1>4, <3>1, <3>2
  <2>3. \A k \in 1..Len(order) : order[k] = value' => LastStanding(k)'
    BY <1>1, <1>6 DEF LastStanding
  <2>4. settled' \cap undone' = {}
    <3> SUFFICES ASSUME NEW b \in settled, b \in lost
                 PROVE  FALSE
      BY <1>1, <1>2 DEF PathHistory
    <3>1. PICK k \in 1..Len(order) : order[k] = b
      BY <1>3, <1>5 DEF Range
    <3>2. value' # 0
      BY <1>1, <1>2 DEF PathHistory
    <3>3. PICK q \in 1..Len(order) : order[q] = value'
      BY <1>7, <3>2
    <3>4. k <= q
      BY <1>1, <1>2, <3>1, <3>3 DEF PathHistory
    <3>5. k > q
      BY <1>6, <3>1, <3>3
    <3> QED
      BY <3>4, <3>5
  <2>5. settled' # {} => 0 \notin fallback'
    BY <1>1, <1>2 DEF PathHistory
  <2>6. \A k, m \in 1..Len(order) : order[k] \in settled' /\ order[m] \in fallback' => k <= m
    BY <1>1, <1>2 DEF PathHistory
  <2> QED
    BY <1>1, <2>1, <2>2, <2>3, <2>4, <2>5, <2>6 DEF PathHistory
<1>11. InLine'
  <2> SUFFICES ASSUME NEW k \in 1..Len(order), NEW m \in 1..(k - 1), order[m] \notin undone'
               PROVE  \/ written[order[m]] \in ancestry[written[order[k]]]
                      \/ Overwritten(m, k, Gone(k))'
    BY <1>1 DEF InLine
  <2>1. written[order[m]] \in ancestry[written[order[k]]] \/ Overwritten(m, k, Gone(k))
    BY <1>1, <1>2 DEF InLine
  <2>2. ASSUME NEW l \in (m + 1)..k, <<order[m], order[l]>> \in clobbers,
               order[l] \notin Gone(k)
        PROVE  <<order'[m], order'[l]>> \in clobbers' /\ order'[l] \notin Gone(k)'
    <3>1. CASE order[k] \in undone'
      BY <1>1, <2>2, <3>1 DEF Gone
    <3>2. CASE order[k] \notin undone'
      <4>1. order[l] \notin undone
        BY <1>1, <2>2, <3>2 DEF Gone
      <4>2. order[l] \notin lost
        <5>1. PICK q \in k..Len(order) : order[q] = value'
          BY <1>1, <1>4, <3>2
        <5>2. q \in l..Len(order) /\ l \in 1..Len(order)
          BY <1>3
        <5> QED
          BY <1>4, <5>1, <5>2
      <4> QED
        BY <1>1, <2>2, <4>1, <4>2 DEF Gone
    <3> QED
      BY <3>1, <3>2
  <2> QED
    BY <2>1, <2>2 DEF Overwritten
<1>12. PendingNew' /\ \A i \in Inst : ObjectKnown(i)'
  BY <1>1 DEF PendingNew, Saving, ObjectKnown, SavingKnown
<1> QED
  BY <1>9, <1>10, <1>11, <1>12 DEF FInv

-----------------------------------------------------------------------------
LEMMA FInvInit == InitFile => FInv
<1> SUFFICES ASSUME InitFile PROVE FInv
  OBVIOUS
<1>1. VInv
  <2>1. Init
    BY DEF InitFile
  <2>2. HInv
    BY <2>1, HeadersInit DEF Init, HInv, VaultsInLine, BlobsInLine
  <2> QED
    BY <2>1, <2>2, IInvInit, NoncesInit DEF VInv
<1>2. /\ order = <<>> /\ Len(order) = 0 /\ order \in Seq(1..Len(written))
      /\ written \in Seq(exports) /\ Range(order) = {}
  <2>1. order = <<>> /\ written = <<>>
    BY DEF InitFile
  <2>2. Len(order) = 0 /\ order \in Seq(1..Len(written)) /\ written \in Seq(exports)
    BY <2>1, EmptySeq
  <2>3. DOMAIN order = {}
    BY <2>2, LenProperties
  <2> QED
    BY <2>1, <2>2, <2>3 DEF Range
<1>3. FileTyped /\ PathHistory
  BY <1>2 DEF InitFile, FileTyped, PathHistory, OnceEach, LastStanding
<1>4. InLine /\ PendingNew /\ \A i \in Inst : ObjectKnown(i)
  BY <1>2 DEF InitFile, Init, InLine, PendingNew, Saving, ObjectKnown, SavingKnown
<1> QED
  BY <1>1, <1>3, <1>4 DEF FInv

LEMMA FInvNext == FInv /\ [NextFile]_<<vars, file, lines>> => FInv'
<1> SUFFICES ASSUME FInv, [NextFile]_<<vars, file, lines>>
             PROVE  FInv'
  OBVIOUS
<1>1. CASE UNCHANGED <<vars, file, lines>>
  <2>1. VInv'
    BY <1>1, VaultStepKeeps DEF FInv
  <2>2. /\ UNCHANGED <<vault, exports, seen, ancestry>>
        /\ UNCHANGED <<value, fallback, view, written, saving>>
        /\ UNCHANGED <<order, undone, acked, settled, missed, clobbers>>
    BY <1>1 DEF vars, file, lines
  <2>3. FileTyped' /\ InLine' /\ PendingNew' /\ PathHistory'
    BY <2>2, HistorySame DEF FInv, FileTyped, InLine, Overwritten, Gone, PendingNew, Saving
  <2>4. ASSUME NEW i \in Inst PROVE ObjectKnown(i)'
    <3>1. ObjectKnown(i)
      BY DEF FInv
    <3> QED
      BY <2>2, <3>1 DEF ObjectKnown, SavingKnown, Accounted, Overwritten
  <2> QED
    BY <2>1, <2>3, <2>4 DEF FInv
<1>2. CASE NextFile
  <2>0. VInv'
    BY <1>2, VInvNext
  <2>1. ASSUME NEW i \in Inst, NEW p \in Password, CreateBeside(i, p) \/ FinishLoad(i, p)
        PROVE  FInv'
    BY <2>0, <2>1, CreateBesideStep, FinishLoadStep
  <2>2. ASSUME NEW i \in Inst, Edit(i) \/ SaveFailsEarly(i)
        PROVE  FInv'
    <3>1. Ready(i) /\ Edits(i) /\ UNCHANGED <<file, lines>>
      BY <2>2 DEF Edit, SaveFailsEarly, Edits
    <3> QED
      BY <2>0, <3>1, EditsStep
  <2>3. ASSUME NEW i \in Inst, BeginSave(i) \/ ReplacePath(i) \/ SaveFails(i) \/ SaveReturns(i)
        PROVE  FInv'
    BY <2>0, <2>3, BeginSaveStep, ReplacePathStep, SaveFailsStep, SaveReturnsStep
  <2>4. ASSUME NEW i \in Inst, BeginLoad(i) \/ Drop(i)
        PROVE  FInv'
    BY <2>0, <2>4, BeginLoadStep, DropStep
  <2>5. PowerLoss => FInv'
    BY <2>0, PowerLossStep
  <2> QED
    BY <1>2, <2>1, <2>2, <2>3, <2>4, <2>5 DEF NextFile
<1> QED
  BY <1>1, <1>2

LEMMA FInvHolds == SpecFile => []FInv
  BY FInvInit, FInvNext, PTL DEF SpecFile

-----------------------------------------------------------------------------
\* What is at the path, or may come back there after a power loss, is a blob
\* that an export returned and no power loss has undone, and any pending call
\* has an exported blob in hand (save, load).
THEOREM FileTypeCorrect == SpecFile => []TypeFileOK
<1>1. FInv => TypeFileOK
  <2> SUFFICES ASSUME FInv PROVE TypeFileOK
    OBVIOUS
  <2>1. FileTyped /\ TypeOK /\ order \in Seq(1..Len(written)) /\ written \in Seq(exports)
    BY DEF FInv, FileTyped, VInv, IInv
  <2>2. Len(written) \in Nat /\ DOMAIN order = 1..Len(order)
    BY <2>1, LenProperties
  <2>3. Range(order) \subseteq 1..Len(written)
    <3>1. \A m \in 1..Len(order) : order[m] \in 1..Len(written)
      BY <2>1, ElementOfSeq
    <3> QED
      BY <2>2, <3>1 DEF Range
  <2>4. value \in 0..Len(written)
    <3>1. value \in {0} \cup 1..Len(written)
      BY <2>1, <2>3 DEF FileTyped
    <3> QED
      BY <2>2, <3>1
  <2> QED
    BY <2>1, <2>4 DEF FileTyped, TypeFileOK
<1> QED
  BY <1>1, FInvHolds, PTL

\* However many objects load and save at once, and whatever fails or is cut
\* off by a power loss, a save that returned Ok is part of the file at the
\* path unless an object that had not seen it saved after it, or a power loss
\* undid it before its directory was synced (save, load).
THEOREM NoUpdateIsLost == SpecFile => []NoLostUpdate
<1>1. FInv => NoLostUpdate
  <2> SUFFICES ASSUME FInv, NEW a \in acked, ~(a \in undone \ settled)
               PROVE  \/ a \in Lineage
                      \/ \E c \in Range(order) \ undone : <<a, c>> \in clobbers
    BY DEF NoLostUpdate
  <2>1. /\ FileTyped /\ PathHistory /\ InLine /\ order \in Seq(1..Len(written))
        /\ written \in Seq(exports)
    BY DEF FInv, FileTyped
  <2>2. DOMAIN order = 1..Len(order) /\ Len(order) \in Nat /\ DOMAIN written = 1..Len(written)
    BY <2>1, LenProperties
  <2>3. a \notin undone
    BY <2>1 DEF PathHistory
  <2>4. PICK m \in 1..Len(order) : order[m] = a
    BY <2>1, <2>2 DEF FileTyped, Range
  <2>5. value # 0
    BY <2>1, <2>3, <2>4 DEF PathHistory, LastStanding
  <2>6. value \in Range(order) /\ value \notin undone
    BY <2>1, <2>5 DEF FileTyped
  <2>7. PICK K \in 1..Len(order) : order[K] = value
    BY <2>2, <2>6 DEF Range
  <2>8. a \in 1..Len(written) /\ value \in 1..Len(written)
    BY <2>1, <2>4, <2>7, ElementOfSeq
  <2>9. ~(m > K)
    BY <2>1, <2>3, <2>4, <2>7 DEF PathHistory, LastStanding
  <2>10. CASE m = K
    BY <2>2, <2>4, <2>5, <2>7, <2>8, <2>10 DEF Lineage
  <2>11. CASE m < K
    <3>1. m \in 1..(K - 1)
      BY <2>11
    <3>2. written[a] \in ancestry[written[value]] \/ Overwritten(m, K, undone)
      BY <2>1, <2>3, <2>4, <2>6, <2>7, <3>1 DEF InLine, Gone
    <3>3. CASE written[a] \in ancestry[written[value]]
      BY <2>2, <2>5, <2>8, <3>3 DEF Lineage
    <3>4. CASE Overwritten(m, K, undone)
      <4>1. PICK l \in (m + 1)..K : <<order[m], order[l]>> \in clobbers /\ order[l] \notin undone
        BY <3>4 DEF Overwritten
      <4>2. l \in DOMAIN order
        BY <2>2
      <4> QED
        BY <2>4, <4>1, <4>2 DEF Range
    <3> QED
      BY <3>2, <3>3, <3>4
  <2>12. m < K \/ m = K \/ m > K
    OBVIOUS
  <2> QED
    BY <2>9, <2>10, <2>11, <2>12
<1> QED
  BY <1>1, FInvHolds, PTL

\* What comes to the path after a kept blob descends from it, even if it is
\* itself undone or overwritten later.
LEMMA KeptIsSucceeded ==
    ASSUME FInv, NEW m \in DOMAIN order, NEW k \in DOMAIN order, m < k, Kept(order[m])
    PROVE  Succeeds(written[order[k]], written[order[m]])
<1>1. FileTyped /\ InLine /\ BlobsInLine /\ order \in Seq(1..Len(written))
      /\ written \in Seq(exports)
  BY DEF FInv, FileTyped, VInv, HInv
<1>2. DOMAIN order = 1..Len(order) /\ Len(order) \in Nat
  BY <1>1, LenProperties
<1>3. order[m] \in 1..Len(written) /\ order[k] \in 1..Len(written)
  BY <1>1, <1>2, ElementOfSeq
<1>4. written[order[m]] \in exports /\ written[order[k]] \in exports
  BY <1>1, <1>3, ElementOfSeq
<1>5. m \in 1..(k - 1)
  BY <1>2
<1>6. ~Overwritten(m, k, Gone(k))
  <2>1. \A l \in (m + 1)..k : order[l] \in Range(order)
    BY <1>2 DEF Range
  <2> QED
    BY <2>1 DEF Overwritten, Kept
<1>7. written[order[m]] \in ancestry[written[order[k]]]
  BY <1>1, <1>2, <1>5, <1>6 DEF InLine, Kept
<1> QED
  BY <1>1, <1>4, <1>7 DEF BlobsInLine

\* The nonce counter of a file at the path that no power loss undid and nobody
\* overwrote unseen is below that of every file that ever comes there later
\* under its header, those that are undone or overwritten included
\* (advance_nonce, save).
THEOREM CounterTellsFilesApart == SpecFile => []CounterTellsGenerations
<1>1. FInv => CounterTellsGenerations
  BY KeptIsSucceeded DEF CounterTellsGenerations, Succeeds
<1> QED
  BY <1>1, FInvHolds, PTL

\* No file that ever comes to the path has a (name, counter) pair of an earlier
\* one with other contents, unless a power loss undid the earlier one or
\* somebody overwrote it unseen (store, from_subkeys_and_data).
THEOREM PairsStayFreshOnPath == SpecFile => []AadFreshOnPath
<1>1. FInv => AadFreshOnPath
  <2> SUFFICES ASSUME FInv, NEW k \in DOMAIN order, NEW m \in DOMAIN order,
                      k < m, Kept(order[k])
               PROVE  SameAadSameEntry(FilesOf(order[k]), FilesOf(order[m]))
    BY DEF AadFreshOnPath
  <2>1. Succeeds(written[order[m]], written[order[k]])
    BY KeptIsSucceeded
  <2>2. \A b : FilesOf(b) = FilesIn(written[b])
    BY DEF FilesOf, FilesIn
  <2>3. SameAadSameEntry(FilesOf(order[m]), FilesOf(order[k]))
    BY <2>1, <2>2 DEF Succeeds
  <2> QED
    BY <2>3 DEF SameAadSameEntry
<1> QED
  BY <1>1, FInvHolds, PTL
=============================================================================
