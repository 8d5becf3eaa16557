------------------------------- MODULE SaveFile -------------------------------
(***************************************************************************)
(* Vault::save and Vault::load on one path (src/vault/facade.rs), called   *)
(* by several processes at once, with every system call a step of its own  *)
(* that may fail, and with processes killed and power lost between any two *)
(* of them.                                                                *)
(*                                                                         *)
(* The file system is external.  It is modelled by what POSIX and a        *)
(* journaling file system give: a rename is atomic; an open file keeps its *)
(* content when its name goes; what was not fsynced is cut short anywhere  *)
(* by a power loss; directory operations reach the disk in order but no    *)
(* sooner than an fsync of the directory, so a power loss leaves any of    *)
(* the directories there have been since the last one.                     *)
(*                                                                         *)
(* A blob is the number of the export call that produced it and stands for *)
(* Chunks writes of its bytes; the file that a save creates has the same   *)
(* number.  A definition whose name begins with Slip is the one below it   *)
(* with a mistake in it; no action uses it.                                *)
(***************************************************************************)
EXTENDS SequencesExt

CONSTANTS
    Process,
    Tmp,            \* the names .memseal_tmp_<random suffix>
    Chunks,         \* write calls a blob takes
    MaxSaves,       \* bound: calls of save in a behaviour
    NULL

ASSUME ChunksAssumption == Chunks \in Nat \ {0} /\ MaxSaves \in Nat
ASSUME NamesAssumption ==
    /\ "path" \notin Tmp
    /\ NULL \notin Tmp
    /\ NULL \notin 0..(MaxSaves + 1)

Path == "path"
Blob == 1..MaxSaves
NoFile == 0
Torn == MaxSaves + 1    \* bytes that are no blob

VARIABLES
    dir,        \* the directory: name -> file, NoFile where there is none
    durable,    \* the directories a power loss may leave, dir among them
    file,       \* file[f]: the chunks file f holds, each a blob's number
    synced,     \* the files whose content is on disk
    job,        \* job[p]: where p is in its call, and the call's locals
    order,      \* history: the blobs renamed over the path, oldest first
    acked,      \* history: the blobs whose save returned Ok
    settled,    \* history: those whose directory fsync succeeded
    stranded    \* history: temporary names whose saver died or failed to unlink

vars == <<dir, durable, file, synced, job, order, acked, settled, stranded>>
history == <<order, acked, settled, stranded>>

\* The bytes of a blob, and the blob some bytes are.
Bytes(b) == [k \in 1..Chunks |-> b]
BlobOf(bytes) ==
    IF \E b \in Blob : bytes = Bytes(b) THEN CHOOSE b \in Blob : bytes = Bytes(b)
                                        ELSE Torn

Idle == [at |-> "idle", blob |-> NULL, tmp |-> NULL, fd |-> NULL, got |-> <<>>]

Init ==
    /\ dir = [n \in {Path} \cup Tmp |-> NoFile]
    /\ durable = {dir}
    /\ file = <<>>
    /\ synced = {}
    /\ job = [p \in Process |-> Idle]
    /\ order = <<>>
    /\ acked = {}
    /\ settled = {}
    /\ stranded = {}

At(p, step) == job[p].at = step
Goes(p, step) == job' = [job EXCEPT ![p].at = step]
Returns(p) == job' = [job EXCEPT ![p] = Idle]

\* A directory operation is visible at once and on disk some time later.
DirBecomes(d) ==
    /\ dir' = d
    /\ durable' = durable \cup {d}

-----------------------------------------------------------------------------
(***************************************************************************)
(* save                                                                    *)
(***************************************************************************)

\* export, and the random suffix of the temporary name.  When either fails,
\* save returns before it has touched the file system.
BeginSave(p) ==
    /\ At(p, "idle")
    /\ Len(file) < MaxSaves
    /\ file' = Append(file, <<>>)
    /\ \/ \E t \in Tmp :
            job' = [job EXCEPT ![p] = [Idle EXCEPT !.at = "create", !.tmp = t,
                                                   !.blob = Len(file) + 1]]
       \/ UNCHANGED job
    /\ UNCHANGED <<dir, durable, synced, history>>

\* Slip: create in place of create_new opens a file that is already there.
SlipCreateTmp(p) ==
    /\ At(p, "create")
    /\ LET t == job[p].tmp
           f == IF dir[t] = NoFile THEN job[p].blob ELSE dir[t]
       IN /\ job' = [job EXCEPT ![p].at = "write", ![p].fd = f]
          /\ DirBecomes([dir EXCEPT ![t] = f])
    /\ UNCHANGED <<file, synced, history>>

CreateTmp(p) ==
    /\ At(p, "create")
    /\ dir[job[p].tmp] = NoFile
    /\ job' = [job EXCEPT ![p].at = "write", ![p].fd = job[p].blob]
    /\ DirBecomes([dir EXCEPT ![job[p].tmp] = job[p].blob])
    /\ UNCHANGED <<file, synced, history>>

\* Slip: tries again, under the same name, until it is free.
SlipCreateFails(p) ==
    /\ At(p, "create")
    /\ UNCHANGED vars

\* The name is taken, or the directory cannot be written.
CreateFails(p) ==
    /\ At(p, "create")
    /\ Returns(p)
    /\ UNCHANGED <<dir, durable, file, synced, history>>

\* Slip: one write too many.
SlipWriteChunk(p) ==
    /\ At(p, "write")
    /\ Len(job[p].got) <= Chunks
    /\ file' = [file EXCEPT ![job[p].fd] = Append(@, job[p].blob)]
    /\ synced' = synced \ {job[p].fd}
    /\ job' = [job EXCEPT ![p].got = Append(@, job[p].blob)]
    /\ UNCHANGED <<dir, durable, history>>

\* One write of write_all: at the file position of this descriptor.
WriteChunk(p) ==
    /\ At(p, "write")
    /\ Len(job[p].got) < Chunks
    /\ LET k == Len(job[p].got) + 1
           f == job[p].fd
       IN /\ file' = [file EXCEPT ![f] =
                        IF k <= Len(@) THEN [@ EXCEPT ![k] = job[p].blob]
                                       ELSE Append(@, job[p].blob)]
          /\ synced' = synced \ {f}
    /\ job' = [job EXCEPT ![p].got = Append(@, job[p].blob)]
    /\ UNCHANGED <<dir, durable, history>>

\* Slip: no sync_all before the rename.
SlipSyncFile(p) ==
    /\ At(p, "write")
    /\ Len(job[p].got) = Chunks
    /\ Goes(p, "rename")
    /\ UNCHANGED <<dir, durable, file, synced, history>>

SyncFile(p) ==
    /\ At(p, "write")
    /\ Len(job[p].got) = Chunks
    /\ synced' = synced \cup {job[p].fd}
    /\ Goes(p, "rename")
    /\ UNCHANGED <<dir, durable, file, history>>

WriteOrSyncFails(p) ==
    /\ At(p, "write")
    /\ Goes(p, "unlink")
    /\ UNCHANGED <<dir, durable, file, synced, history>>

RenameOverPath(p) ==
    /\ At(p, "rename")
    /\ dir[job[p].tmp] # NoFile
    /\ DirBecomes([dir EXCEPT ![Path] = dir[job[p].tmp],
                              ![job[p].tmp] = NoFile])
    /\ Goes(p, "settle")
    /\ order' = Append(order, job[p].blob)
    /\ UNCHANGED <<file, synced, acked, settled, stranded>>

\* Slip: a failed rename returns without removing the temporary file.
SlipRenameFails(p) ==
    /\ At(p, "rename")
    /\ Returns(p)
    /\ UNCHANGED <<dir, durable, file, synced, history>>

RenameFails(p) ==
    /\ At(p, "rename")
    /\ Goes(p, "unlink")
    /\ UNCHANGED <<dir, durable, file, synced, history>>

\* remove_file, whose own failure is ignored; save returns the first error.
UnlinkTmp(p) ==
    /\ At(p, "unlink")
    /\ \/ /\ DirBecomes([dir EXCEPT ![job[p].tmp] = NoFile])
          /\ UNCHANGED stranded
       \/ /\ stranded' = stranded \cup {job[p].tmp}
          /\ UNCHANGED <<dir, durable>>
    /\ Returns(p)
    /\ UNCHANGED <<file, synced, order, acked, settled>>

\* Slip: the directory was synced before the rename instead of after it.
SlipSyncDir(p) ==
    /\ At(p, "settle")
    /\ acked' = acked \cup {job[p].blob}
    /\ settled' = settled \cup {job[p].blob}
    /\ Returns(p)
    /\ UNCHANGED <<dir, durable, file, synced, order, stranded>>

SyncDir(p) ==
    /\ At(p, "settle")
    /\ durable' = {dir}
    /\ acked' = acked \cup {job[p].blob}
    /\ settled' = settled \cup {job[p].blob}
    /\ Returns(p)
    /\ UNCHANGED <<dir, file, synced, order, stranded>>

\* The directory cannot be opened or synced, or the platform is not Unix:
\* save returns Ok all the same.
SyncDirSkipped(p) ==
    /\ At(p, "settle")
    /\ acked' = acked \cup {job[p].blob}
    /\ Returns(p)
    /\ UNCHANGED <<dir, durable, file, synced, order, settled, stranded>>

-----------------------------------------------------------------------------
(***************************************************************************)
(* load                                                                    *)
(***************************************************************************)

\* Fails, and changes nothing, when there is no file.
OpenPath(p) ==
    /\ At(p, "idle")
    /\ dir[Path] # NoFile
    /\ job' = [job EXCEPT ![p].at = "read", ![p].fd = dir[Path]]
    /\ UNCHANGED <<dir, durable, file, synced, history>>

ReadChunk(p) ==
    /\ At(p, "read")
    /\ Len(job[p].got) < Len(file[job[p].fd])
    /\ job' = [job EXCEPT ![p].got = Append(@, file[job[p].fd][Len(@) + 1])]
    /\ UNCHANGED <<dir, durable, file, synced, history>>

\* Slip: one read in place of read_to_end.
SlipReadToEnd(p) ==
    /\ At(p, "read")
    /\ Len(job[p].got) > 0
    /\ Goes(p, "loaded")
    /\ UNCHANGED <<dir, durable, file, synced, history>>

ReadToEnd(p) ==
    /\ At(p, "read")
    /\ Len(job[p].got) >= Len(file[job[p].fd])
    /\ Goes(p, "loaded")
    /\ UNCHANGED <<dir, durable, file, synced, history>>

\* A read fails, or the caller has what load returned.
LoadReturns(p) ==
    /\ At(p, "read") \/ At(p, "loaded")
    /\ Returns(p)
    /\ UNCHANGED <<dir, durable, file, synced, history>>

-----------------------------------------------------------------------------
(***************************************************************************)
(* What may happen between any two system calls.                           *)
(***************************************************************************)
\* p has created its temporary file and neither renamed nor unlinked it.
Owns(p) == job[p].at \in {"write", "rename", "unlink"}

Kill(p) ==
    /\ ~At(p, "idle")
    /\ Returns(p)
    /\ stranded' = IF Owns(p) THEN stranded \cup {job[p].tmp} ELSE stranded
    /\ UNCHANGED <<dir, durable, file, synced, order, acked, settled>>

\* The blobs renamed over the path up to b.
OrderUpTo(b) ==
    IF b = NoFile THEN <<>>
                  ELSE SubSeq(order, 1, CHOOSE k \in DOMAIN order : order[k] = b)

\* Files keep what was synced and lose the end of what was not; a file that no
\* name leads to is freed.
PowerLoss ==
    /\ dir' \in durable
    /\ durable' = {dir'}
    /\ \E kept \in [Range(dir') \ (synced \cup {NoFile}) -> 0..Chunks] :
        /\ \A f \in DOMAIN kept : kept[f] <= Len(file[f])
        /\ file' = [f \in DOMAIN file |->
                        IF f \in DOMAIN kept THEN SubSeq(file[f], 1, kept[f])
                        ELSE IF f \in Range(dir') THEN file[f]
                        ELSE <<>>]
    /\ synced' = DOMAIN file
    /\ job' = [p \in Process |-> Idle]
    /\ order' = OrderUpTo(dir'[Path])
    /\ acked' = acked \cap Range(order')
    /\ settled' = settled \cap Range(order')
    /\ stranded' = {t \in Tmp : dir'[t] # NoFile}

\* The next step of p's call, if p is in one.
Proceeds(p) ==
    \/ CreateTmp(p)
    \/ CreateFails(p)
    \/ WriteChunk(p)
    \/ SyncFile(p)
    \/ WriteOrSyncFails(p)
    \/ RenameOverPath(p)
    \/ RenameFails(p)
    \/ UnlinkTmp(p)
    \/ SyncDir(p)
    \/ SyncDirSkipped(p)
    \/ ReadChunk(p)
    \/ ReadToEnd(p)
    \/ LoadReturns(p)

Next ==
    \/ \E p \in Process : BeginSave(p) \/ OpenPath(p) \/ Proceeds(p) \/ Kill(p)
    \/ PowerLoss

Spec == Init /\ [][Next]_vars

\* The operating system runs a process until its call is over.  It need not
\* kill anyone, and nobody has to begin a call.
FairSpec == Spec /\ \A p \in Process : WF_vars(Proceeds(p))

-----------------------------------------------------------------------------
(***************************************************************************)
(* Properties.                                                             *)
(***************************************************************************)
Directory == [{Path} \cup Tmp -> Blob \cup {NoFile}]

Steps == {"idle", "create", "write", "rename", "unlink", "settle", "read", "loaded"}

Job == [at : Steps, blob : Blob \cup {NULL}, tmp : Tmp \cup {NULL},
        fd : Blob \cup {NULL}, got : Seq(Blob)]

\* Type correctness; no file is ever longer than a blob.
TypeOK ==
    /\ dir \in Directory
    /\ dir \in durable
    /\ durable \subseteq Directory
    /\ file \in Seq(Seq(Blob))
    /\ Len(file) <= MaxSaves
    /\ \A f \in DOMAIN file : Len(file[f]) <= Chunks
    /\ synced \subseteq DOMAIN file
    /\ job \in [Process -> Job]
    /\ order \in Seq(Blob)
    /\ settled \subseteq acked
    /\ acked \subseteq Blob
    /\ stranded \subseteq Tmp

\* Whatever is at the path, now or after a power loss at this moment, is one
\* whole blob, on disk, that no running save can still write to (create_new,
\* write_all, sync_all and rename, in this order; README "Atomic file writes").
PathWhole ==
    \A d \in durable : d[Path] # NoFile =>
        /\ file[d[Path]] = Bytes(d[Path])
        /\ d[Path] \in synced
        /\ \A p \in Process : At(p, "write") => job[p].fd # d[Path]

\* A save renames and unlinks its own file only: the temporary name it holds
\* is its own until it gives it up, also when suffixes collide.
TmpOwned ==
    /\ \A p \in Process : Owns(p) => dir[job[p].tmp] = job[p].blob
    /\ \A p, q \in Process :
        Owns(p) /\ Owns(q) /\ p # q => job[p].tmp # job[q].tmp

\* A temporary file belongs to a save in progress, or to one that was killed
\* or could not unlink it: no error path of save forgets it.
NoLitter ==
    \A t \in Tmp : dir[t] # NoFile =>
        t \in stranded \/ \E p \in Process : Owns(p) /\ job[p].tmp = t

\* After a power loss the path holds b, or a blob saved over b.
Survives(b) == \A d \in durable : d[Path] # NoFile /\ b \in Range(OrderUpTo(d[Path]))

\* A save whose directory fsync succeeded outlives a power loss.
SettledSurvives == \A b \in settled : Survives(b)

\* The doc comment of save: it "renames it over `path`, and fsyncs the
\* directory", so a save that returned Ok outlives a power loss.  It does not
\* when the fsync failed: save ignores that error.
OkSurvives == \A b \in acked : Survives(b)

\* Every save and every load comes to an end, whatever the others do to the
\* path meanwhile and whatever names dead savers have left behind: neither
\* waits for another process (create_new fails at once, an open file does not
\* grow when the path is replaced).
CallsEnd == \A p \in Process : ~At(p, "idle") ~> At(p, "idle")

-----------------------------------------------------------------------------
(***************************************************************************)
(* The refinement mapping: the file at the path is read in one glance, and *)
(* a load has chosen its answer when it has opened the path.               *)
(***************************************************************************)
Content(f) == IF f = NoFile THEN NoFile ELSE BlobOf(file[f])

Promise == INSTANCE AtomicFile WITH
    value    <- Content(dir[Path]),
    fallback <- {Content(d[Path]) : d \in durable},
    view     <- [p \in Process |->
                    IF At(p, "read") \/ At(p, "loaded") THEN Content(job[p].fd)
                                                        ELSE NULL],
    answer   <- [p \in Process |->
                    IF At(p, "loaded") THEN BlobOf(job[p].got) ELSE NULL]

\* save and load implement AtomicFile.
KeepsPromise == Promise!FSpec
=============================================================================
