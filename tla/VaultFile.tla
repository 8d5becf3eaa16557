------------------------------ MODULE VaultFile ------------------------------
(***************************************************************************)
(* Several vault objects and the one file they are loaded from and saved   *)
(* to: the composition of Vault.tla with AtomicFile.tla, which SaveFile    *)
(* shows the system calls of save and load to implement.                   *)
(*                                                                         *)
(* save is an export, a replacement of the file's content some time later, *)
(* and an fsync of the directory later still, or not at all.  load looks   *)
(* at the file and opens what it saw some time later.  In between the      *)
(* other objects, which may live in other processes, go on: nothing locks  *)
(* the file (DESIGN.md lists "Multi-writer concurrency on the same file"   *)
(* as a non-goal).  Processes die and power is lost at any time.           *)
(*                                                                         *)
(* A definition whose name begins with Slip is the one below it with a     *)
(* mistake in it; no action uses it.                                       *)
(***************************************************************************)
EXTENDS Vault, Sequences

VARIABLES
    value, fallback, view,  \* AtomicFile: the file's content is a number, 0
                            \* if there is none
    written,    \* written[b]: the exported blob number b
    saving,     \* saving[i]: i's pending save, or NULL
    order,      \* history: every blob that ever was at the path, oldest first
    undone,     \* history: those that a power loss took away from there
    acked,      \* history: those whose save returned Ok
    settled,    \* history: those whose save synced the directory as well
    missed,     \* history: what was put there since i took its copy
    clobbers    \* history: pairs <<b, c>> where c replaced a b it had missed

file == <<value, fallback, view, written, saving>>
lines == <<order, undone, acked, settled, missed, clobbers>>

File == INSTANCE AtomicFile WITH
    Process <- Inst,
    Blob    <- 1..MaxExports,
    NoFile  <- 0,
    answer  <- [i \in Inst |-> NULL]    \* load opens what it saw

InitFile ==
    /\ Init
    /\ value = 0
    /\ fallback = {0}
    /\ view = [i \in Inst |-> NULL]
    /\ written = <<>>
    /\ saving = [i \in Inst |-> NULL]
    /\ order = <<>>
    /\ undone = {}
    /\ acked = {}
    /\ settled = {}
    /\ missed = [i \in Inst |-> {}]
    /\ clobbers = {}

\* i is in neither save nor load: they take the object, or there is none yet.
Ready(i) == saving[i] = NULL /\ view[i] = NULL

-----------------------------------------------------------------------------
(***************************************************************************)
(* The calls that do not touch the file.                                   *)
(***************************************************************************)
CreateBeside(i, password) ==
    /\ Ready(i)
    /\ Create(i, password)
    /\ missed' = [missed EXCEPT ![i] = Range(order) \ undone]
    /\ UNCHANGED <<file, order, undone, acked, settled, clobbers>>

Edit(i) ==
    /\ Ready(i)
    /\ \E n \in Name : \/ Remove(i, n)
                       \/ \E x \in Value : Store(i, n, x)
    /\ UNCHANGED <<file, lines>>

-----------------------------------------------------------------------------
(***************************************************************************)
(* save                                                                    *)
(***************************************************************************)
BeginSave(i) ==
    /\ Ready(i)
    /\ Export(i)
    /\ written' = Append(written, CHOOSE b \in exports' : b \notin exports)
    /\ saving' = [saving EXCEPT ![i] = [blob |-> Len(written'), at |-> "rename"]]
    /\ UNCHANGED <<value, fallback, view, lines>>

\* export fails, or the temporary file does: the counter has advanced.
SaveFailsEarly(i) ==
    /\ Ready(i)
    /\ ExportWastesCounter(i)
    /\ UNCHANGED <<file, lines>>

Saving(i, step) == saving[i] # NULL /\ saving[i].at = step

ReplacePath(i) ==
    /\ Saving(i, "rename")
    /\ value' = saving[i].blob
    /\ File!Replace
    /\ saving' = [saving EXCEPT ![i].at = "settle"]
    /\ order' = Append(order, value')
    /\ clobbers' = clobbers \cup (missed[i] \X {value'})
    /\ missed' = [j \in Inst |-> IF j = i THEN {} ELSE missed[j] \cup {value'}]
    /\ UNCHANGED <<vars, written, undone, acked, settled>>

\* Slip: the error of rename is ignored, as that of the directory's fsync is.
SlipSaveFails(i) ==
    /\ Saving(i, "rename")
    /\ saving' = [saving EXCEPT ![i] = NULL]
    /\ acked' = acked \cup {saving[i].blob}
    /\ UNCHANGED <<vars, value, fallback, view, written>>
    /\ UNCHANGED <<order, undone, settled, missed, clobbers>>

SaveFails(i) ==
    /\ Saving(i, "rename")
    /\ saving' = [saving EXCEPT ![i] = NULL]
    /\ UNCHANGED <<vars, value, fallback, view, written, lines>>

\* Slip: the directory was synced before the rename instead of after it.
SlipSaveReturns(i) ==
    /\ Saving(i, "settle")
    /\ settled' = settled \cup {saving[i].blob}
    /\ saving' = [saving EXCEPT ![i] = NULL]
    /\ acked' = acked \cup {saving[i].blob}
    /\ UNCHANGED <<vars, value, fallback, view, written>>
    /\ UNCHANGED <<order, undone, missed, clobbers>>

\* The directory is synced, or that fails; save returns Ok.
SaveReturns(i) ==
    /\ Saving(i, "settle")
    /\ \/ /\ File!Settle
          /\ settled' = settled \cup {saving[i].blob}
       \/ UNCHANGED <<value, fallback, view, settled>>
    /\ saving' = [saving EXCEPT ![i] = NULL]
    /\ acked' = acked \cup {saving[i].blob}
    /\ UNCHANGED <<vars, written, order, undone, missed, clobbers>>

-----------------------------------------------------------------------------
(***************************************************************************)
(* load                                                                    *)
(***************************************************************************)
BeginLoad(i) ==
    /\ Ready(i)
    /\ Absent(i)
    /\ File!Look(i)
    /\ missed' = [missed EXCEPT ![i] = {}]
    /\ UNCHANGED <<vars, written, saving, order, undone, acked, settled, clobbers>>

FinishLoad(i, password) ==
    /\ view[i] # NULL
    /\ LET b == written[view[i]] IN
       OpenCurrent(i, password, b) \/ OpenRefused(i, password, b)
    /\ File!Forget(i)
    /\ UNCHANGED <<written, saving, lines>>

-----------------------------------------------------------------------------
\* The object is dropped, or its process dies in the middle of a call.
Drop(i) ==
    /\ ~Absent(i)
    /\ Crash(i)
    /\ saving' = [saving EXCEPT ![i] = NULL]
    /\ UNCHANGED <<value, fallback, view, written, lines>>

\* What was put at the path after b.
PutAfter(b) ==
    {order[k] : k \in {k \in DOMAIN order : \A l \in k..Len(order) : order[l] # b}}

PowerLoss ==
    /\ File!PowerLoss
    /\ vault' = [i \in Inst |-> NULL]
    /\ rekey' = [i \in Inst |-> NULL]
    /\ seen' = [i \in Inst |-> {}]
    /\ saving' = [i \in Inst |-> NULL]
    /\ missed' = [i \in Inst |-> {}]
    /\ undone' = undone \cup PutAfter(value')
    /\ UNCHANGED <<exports, drawn, ret, ancestry, written>>
    /\ UNCHANGED <<order, acked, settled, clobbers>>

NextFile ==
    \/ \E i \in Inst :
        \/ \E p \in Password : CreateBeside(i, p) \/ FinishLoad(i, p)
        \/ Edit(i)
        \/ BeginSave(i)
        \/ SaveFailsEarly(i)
        \/ ReplacePath(i)
        \/ SaveFails(i)
        \/ SaveReturns(i)
        \/ BeginLoad(i)
        \/ Drop(i)
    \/ PowerLoss

SpecFile == InitFile /\ [][NextFile]_<<vars, file, lines>>

-----------------------------------------------------------------------------
(***************************************************************************)
(* Properties.                                                             *)
(***************************************************************************)
\* Type correctness: what is at the path has a number and was exported.
TypeFileOK ==
    /\ TypeOK
    /\ value \in 0..Len(written)
    /\ value \in fallback
    /\ fallback \subseteq {0} \cup (Range(order) \ undone)
    /\ view \in [Inst -> {NULL} \cup 1..Len(written)]
    /\ written \in Seq(exports)
    /\ saving \in [Inst -> {NULL} \cup [blob : 1..Len(written), at : {"rename", "settle"}]]
    /\ undone \subseteq Range(order)
    /\ acked \subseteq Range(order)
    /\ settled \subseteq acked
    /\ missed \in [Inst -> SUBSET (1..Len(written))]

\* The blobs the file at the path was built on, itself among them.
Lineage ==
    IF value = 0 THEN {}
    ELSE {b \in DOMAIN written :
            b = value \/ written[b] \in ancestry[written[value]]}

\* A save that returned Ok is part of what is at the path now, unless
\*  - another object, which had taken its copy before that save, saved after
\*    it, and that save is not itself undone; or
\*  - a power loss undid it, and its directory fsync had not succeeded.
\* Objects that only read, failed saves, deaths in the middle of a call and
\* power losses after a synced save lose nothing (save, load; DESIGN.md
\* section 1 leaves several writers out).
NoLostUpdate ==
    \A b \in acked :
        \/ b \in Lineage
        \/ \E c \in Range(order) \ undone : <<b, c>> \in clobbers
        \/ b \in undone \ settled

\* Blob b went from the path the regular way: no power loss took it away, and
\* nobody who had missed it replaced it.
Kept(b) ==
    /\ b \notin undone
    /\ \A c \in Range(order) : <<b, c>> \notin clobbers

\* The entries of blob b as they are in memory once it is open.
FilesOf(b) ==
    DecodedFiles(written[b].header.version, written[b].encrypted_index.text)

\* Nothing that ever comes to the path later has a (name, counter) pair of a
\* kept blob with other contents: not after a removal of the newest entry, nor
\* after failed saves, deaths and power losses and the reloads that followed
\* (the reason for the check in from_subkeys_and_data and for keeping
\* data_nonce_counter in the index).  A blob that is not kept has its pairs
\* issued again: who loads what is at the path after a power loss undid a save
\* cannot know what was in it, although that save may have returned Ok.
AadFreshOnPath ==
    \A k, m \in DOMAIN order :
        k < m /\ Kept(order[k]) => SameAadSameEntry(FilesOf(order[k]), FilesOf(order[m]))

\* Likewise the nonce counter of a kept blob is below that of everything that
\* ever comes to the path later under the same header: it tells it apart from
\* all later generations.  Two saves of which the first was undone, or
\* overwritten by one that had missed it, may have one counter.
CounterTellsGenerations ==
    \A k, m \in DOMAIN order :
        LET b == written[order[k]]
            c == written[order[m]]
        IN k < m /\ Kept(order[k]) /\ b.header = c.header =>
            b.encrypted_index.text.nonce_counter < c.encrypted_index.text.nonce_counter
=============================================================================
