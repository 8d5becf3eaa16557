---------------------------- MODULE SaveFileProofs ----------------------------
(***************************************************************************)
(* Proofs about SaveFile, for every number of processes, names, chunks and *)
(* saves: the path always holds one whole blob, a save touches no file but *)
(* its own, and what an fsync of the directory has settled is never lost.  *)
(*                                                                         *)
(* The invariant follows a save through its system calls: until the rename *)
(* its blob is in one file that no other save writes to and that the path  *)
(* has never been; from the rename on nobody writes to that file.          *)
(***************************************************************************)
EXTENDS SaveFile, SequenceTheorems, TLAPS

\* The calls that hold a blob not yet renamed, and those that read a file.
Making(p) == job[p].at \in {"create", "write", "rename", "unlink"}
Reading(p) == At(p, "read") \/ At(p, "loaded")

\* A call holds the locals that its place in the code implies.
LocalsSet ==
    \A p \in Process :
        /\ At(p, "idle") \/ At(p, "create") => job[p].got = <<>>
        /\ Making(p) \/ At(p, "settle") => job[p].blob \in DOMAIN file /\ job[p].tmp \in Tmp
        /\ Owns(p) => job[p].fd = job[p].blob
        /\ Reading(p) => job[p].fd \in DOMAIN file

\* A save that has not renamed holds a blob that is no one else's and has
\* never been at the path.
BlobsOwned ==
    /\ \A p, q \in Process : Making(p) /\ Making(q) /\ p # q => job[p].blob # job[q].blob
    /\ \A p \in Process : Making(p) => job[p].blob \notin Range(order)
    /\ \A p \in Process : Owns(p) => dir[job[p].tmp] = job[p].blob

\* A file holds what its save has written so far.
FilesWritten ==
    \A p \in Process :
        LET b == job[p].blob IN
        /\ At(p, "create") => file[b] = <<>>
        /\ At(p, "write") => /\ file[b] = job[p].got
                             /\ Len(job[p].got) <= Chunks
                             /\ \A k \in DOMAIN job[p].got : job[p].got[k] = b
        /\ At(p, "rename") => file[b] = Bytes(b) /\ b \in synced

\* A load reads a whole file that was once at the path.
ReadsWhole ==
    \A p \in Process : Reading(p) =>
        LET f == job[p].fd IN
        /\ f \in Range(order)
        /\ file[f] = Bytes(f)
        /\ Len(job[p].got) <= Chunks
        /\ \A k \in DOMAIN job[p].got : job[p].got[k] = f
        /\ At(p, "loaded") => Len(job[p].got) = Chunks

\* Every directory on disk has a whole file at the path, or none.
DirsWhole ==
    \A d \in durable : d[Path] # NoFile =>
        /\ d[Path] \in Range(order)
        /\ file[d[Path]] = Bytes(d[Path])
        /\ d[Path] \in synced

\* The path has what was renamed over it last, and no blob was twice.
Renamed ==
    /\ \A k, m \in DOMAIN order : order[k] = order[m] => k = m
    /\ Range(order) \subseteq DOMAIN file
    /\ dir[Path] = IF order = <<>> THEN NoFile ELSE order[Len(order)]
    /\ acked \subseteq Range(order)
    /\ \A p \in Process : At(p, "settle") => job[p].blob \in Range(order)

\* The path never goes back behind a settled blob.
SettledBehind ==
    \A b \in settled : \A d \in durable :
        \E k, m \in DOMAIN order : k <= m /\ order[k] = b /\ order[m] = d[Path]

IInv ==
    /\ TypeOK /\ LocalsSet /\ BlobsOwned /\ FilesWritten /\ ReadsWhole
    /\ DirsWhole /\ Renamed /\ SettledBehind /\ NoLitter
-----------------------------------------------------------------------------
(***************************************************************************)
(* Sequences and files.                                                    *)
(***************************************************************************)
LEMMA FileFacts ==
    ASSUME TypeOK
    PROVE  /\ Len(file) \in Nat
           /\ DOMAIN file = 1..Len(file)
           /\ file \in [1..Len(file) -> Seq(Blob)]
           /\ DOMAIN file \subseteq Blob
           /\ \A f \in DOMAIN file : file[f] \in Seq(Blob)
<1>1. /\ Len(file) \in Nat
      /\ DOMAIN file = 1..Len(file)
      /\ file \in [1..Len(file) -> Seq(Blob)]
  BY LenProperties DEF TypeOK
<1> QED
  BY <1>1, ChunksAssumption DEF TypeOK, Blob

\* A file that is written to is still a sequence of blobs' chunks.
LEMMA FileReplaced ==
    ASSUME TypeOK, NEW f \in DOMAIN file, NEW c \in Seq(Blob),
           file' = [file EXCEPT ![f] = c]
    PROVE  /\ file' \in Seq(Seq(Blob))
           /\ Len(file') = Len(file)
           /\ DOMAIN file' = DOMAIN file
           /\ file'[f] = c
           /\ \A g \in DOMAIN file : g # f => file'[g] = file[g]
<1>1. DOMAIN file = 1..Len(file)
  BY FileFacts
<1>2. file' \in Seq(Seq(Blob)) /\ Len(file') = Len(file)
  BY <1>1, ExceptSeq DEF TypeOK
<1> QED
  BY <1>1, <1>2, LenProperties

LEMMA BlobTyped == \A b : b \in Blob => b \in Nat /\ b # NoFile
  BY ChunksAssumption DEF Blob, NoFile

\* Equal bytes are of the same blob.
LEMMA BytesTell ==
    ASSUME NEW b, NEW c, Bytes(b) = Bytes(c)
    PROVE  b = c
<1>1. 1 \in 1..Chunks
  BY ChunksAssumption
<1>2. Bytes(b)[1] = b /\ Bytes(c)[1] = c
  BY <1>1 DEF Bytes
<1> QED
  BY <1>2

\* As many chunks as a blob has, all of b, are the bytes of b.
LEMMA AllChunks ==
    ASSUME NEW b, NEW s \in Seq(Blob), Len(s) = Chunks, \A k \in DOMAIN s : s[k] = b
    PROVE  s = Bytes(b)
  BY LenProperties DEF Bytes

\* A prefix of what was renamed over the path.
LEMMA Prefix ==
    ASSUME TypeOK, NEW m \in DOMAIN order
    PROVE  LET s == SubSeq(order, 1, m) IN
           /\ s \in Seq(Blob)
           /\ Len(s) = m
           /\ DOMAIN s = 1..m
           /\ \A k \in 1..m : k \in DOMAIN order /\ s[k] = order[k]
<1>1. DOMAIN order = 1..Len(order) /\ Len(order) \in Nat /\ \A k \in 1..Len(order) : order[k] \in Blob
  BY LenProperties, ElementOfSeq DEF TypeOK
<1>2. m \in Int /\ 1 <= m /\ \A k \in 1..m : k \in 1..Len(order)
  BY <1>1
<1>3. \A k \in 1..m : order[k] \in Blob
  BY <1>1, <1>2
<1> DEFINE s == SubSeq(order, 1, m)
<1>4. /\ s \in Seq(Blob)
      /\ Len(s) = m
      /\ \A k \in 1..m : s[k] = order[k]
  BY <1>2, <1>3, SubSeqProperties
<1>5. DOMAIN s = 1..m
  BY <1>4, LenProperties
<1> HIDE DEF s
<1>6. s \in Seq(Blob) /\ Len(s) = m /\ DOMAIN s = 1..m /\ \A k \in 1..m : k \in DOMAIN order /\ s[k] = order[k]
  BY <1>1, <1>2, <1>4, <1>5
<1> QED
  BY <1>6 DEF s
-----------------------------------------------------------------------------
(***************************************************************************)
(* Type correctness.                                                       *)
(***************************************************************************)
LEMMA TypeInit == Init => TypeOK
  BY ChunksAssumption, EmptySeq DEF Init, TypeOK, Directory, Job, Idle, Steps, NoFile

\* A directory with one name changed.
LEMMA DirTyped ==
    ASSUME TypeOK, NEW d \in Directory, DirBecomes(d)
    PROVE  dir' \in Directory /\ dir' \in durable' /\ durable' \subseteq Directory
  BY DEF TypeOK, DirBecomes

\* A step of one call: where it is, and what it holds.
LEMMA JobTyped ==
    ASSUME TypeOK, NEW p \in Process, NEW j \in Job, job' = [job EXCEPT ![p] = j]
    PROVE  job' \in [Process -> Job]
  BY DEF TypeOK

LEMMA GoesTyped ==
    ASSUME TypeOK, NEW p \in Process, NEW step \in Steps, Goes(p, step)
    PROVE  job' \in [Process -> Job]
  BY DEF TypeOK, Goes, Job

LEMMA ReturnsTyped ==
    ASSUME TypeOK, NEW p \in Process, Returns(p)
    PROVE  job' \in [Process -> Job]
  BY EmptySeq DEF TypeOK, Returns, Job, Idle, Steps

\* The calls that change nothing but where they are.
Moves(p) ==
    \/ CreateFails(p)
    \/ WriteOrSyncFails(p)
    \/ RenameFails(p)
    \/ ReadToEnd(p)
    \/ LoadReturns(p)

LEMMA TypeNext == IInv /\ [Next]_vars => TypeOK'
<1> SUFFICES ASSUME IInv, [Next]_vars PROVE TypeOK'
  OBVIOUS
<1>0. TypeOK /\ LocalsSet /\ BlobsOwned /\ FilesWritten /\ ReadsWhole
  BY DEF IInv
<1>1. CASE UNCHANGED vars
  BY <1>0, <1>1 DEF vars, history, TypeOK
<1>2. ASSUME NEW p \in Process, BeginSave(p)
      PROVE  TypeOK'
  <2>1. /\ file' = Append(file, <<>>) /\ Len(file) < MaxSaves
        /\ UNCHANGED <<dir, durable, synced, history>>
    BY <1>2 DEF BeginSave
  <2>2. <<>> \in Seq(Blob) /\ Len(<<>>) = 0
    BY EmptySeq
  <2>3. /\ file' \in Seq(Seq(Blob)) /\ Len(file') = Len(file) + 1
        /\ \A f \in 1..Len(file) : file'[f] = file[f]
        /\ file'[Len(file) + 1] = <<>>
        /\ DOMAIN file' = 1..(Len(file) + 1)
    BY <1>0, <2>1, <2>2, AppendProperties, LenProperties DEF TypeOK
  <2>4. Len(file) + 1 \in Blob
    BY <1>0, <2>1, FileFacts, ChunksAssumption DEF Blob
  <2>5. job' \in [Process -> Job]
    <3>1. CASE job' = job
      BY <1>0, <3>1 DEF TypeOK
    <3>2. ASSUME NEW t \in Tmp,
                 job' = [job EXCEPT ![p] = [Idle EXCEPT !.at = "create", !.tmp = t,
                                                        !.blob = Len(file) + 1]]
          PROVE  job' \in [Process -> Job]
      <4>1. [Idle EXCEPT !.at = "create", !.tmp = t, !.blob = Len(file) + 1] \in Job
        BY <2>2, <2>4 DEF Job, Idle, Steps
      <4> QED
        BY <1>0, <3>2, <4>1, JobTyped
    <3> QED
      BY <1>2, <3>1, <3>2 DEF BeginSave
  <2>6. \A f \in DOMAIN file' : Len(file'[f]) <= Chunks
    <3>1. ASSUME NEW f \in DOMAIN file'
          PROVE  (f \in DOMAIN file /\ file'[f] = file[f]) \/ file'[f] = <<>>
      BY <1>0, <2>3, FileFacts
    <3>2. \A f \in DOMAIN file : Len(file[f]) <= Chunks
      BY <1>0 DEF TypeOK
    <3> QED
      BY <2>2, <3>1, <3>2, ChunksAssumption
  <2> QED
    BY <1>0, <2>1, <2>3, <2>5, <2>6, FileFacts, ChunksAssumption DEF TypeOK, history
<1>3. ASSUME NEW p \in Process, CreateTmp(p)
      PROVE  TypeOK'
  <2>1. job[p].blob \in Blob
    BY <1>0, <1>3, FileFacts DEF CreateTmp, At, LocalsSet, Making
  <2>2. [dir EXCEPT ![job[p].tmp] = job[p].blob] \in Directory
    BY <1>0, <2>1 DEF TypeOK, Directory
  <2>3. job' \in [Process -> Job]
    BY <1>0, <1>3, <2>1 DEF CreateTmp, TypeOK, Job, Steps
  <2> QED
    BY <1>0, <1>3, <2>2, <2>3, DirTyped DEF CreateTmp, TypeOK, history
<1>4. ASSUME NEW p \in Process, WriteChunk(p)
      PROVE  TypeOK'
  <2> DEFINE f == job[p].fd
             c == Append(job[p].got, job[p].blob)
  <2>1. /\ f \in DOMAIN file /\ f = job[p].blob /\ file[f] = job[p].got
        /\ f \in Blob /\ job[p].got \in Seq(Blob) /\ Len(job[p].got) \in Nat
    BY <1>0, <1>4, FileFacts, LenProperties
       DEF WriteChunk, At, LocalsSet, Making, Owns, FilesWritten
  <2>2. file' = [file EXCEPT ![f] = c]
    <3>1. file' = [file EXCEPT ![f] = IF Len(job[p].got) + 1 <= Len(file[f])
                                      THEN [file[f] EXCEPT ![Len(job[p].got) + 1] = job[p].blob]
                                      ELSE Append(file[f], job[p].blob)]
      BY <1>0, <1>4, <2>1, FileFacts DEF WriteChunk
    <3>2. ~(Len(job[p].got) + 1 <= Len(file[f]))
      BY <2>1
    <3> HIDE DEF f
    <3>3. file' = [file EXCEPT ![f] = Append(file[f], job[p].blob)]
      BY <3>1, <3>2
    <3> QED
      BY <2>1, <3>3
  <2>3. c \in Seq(Blob) /\ Len(c) <= Chunks
    BY <1>4, <2>1, AppendProperties, ChunksAssumption DEF WriteChunk
  <2>4. job' \in [Process -> Job]
    BY <1>0, <1>4, <2>3 DEF WriteChunk, TypeOK, Job
  <2>5. /\ synced' \subseteq synced
        /\ UNCHANGED <<dir, durable, history>>
    BY <1>4 DEF WriteChunk
  <2> HIDE DEF f, c
  <2>6. /\ file' \in Seq(Seq(Blob)) /\ Len(file') = Len(file) /\ DOMAIN file' = DOMAIN file
        /\ file'[f] = c /\ \A g \in DOMAIN file : g # f => file'[g] = file[g]
    BY <1>0, <2>1, <2>2, <2>3, FileReplaced
  <2> QED
    BY <1>0, <2>3, <2>4, <2>5, <2>6 DEF TypeOK, history
<1>5. ASSUME NEW p \in Process, SyncFile(p)
      PROVE  TypeOK'
  <2>1. job[p].fd \in DOMAIN file
    BY <1>0, <1>5 DEF SyncFile, At, LocalsSet, Making, Owns
  <2>2. job' \in [Process -> Job]
    BY <1>0, <1>5, GoesTyped DEF SyncFile, Steps
  <2> QED
    BY <1>0, <1>5, <2>1, <2>2 DEF SyncFile, TypeOK, history
<1>6. ASSUME NEW p \in Process, RenameOverPath(p)
      PROVE  TypeOK'
  <2>1. job[p].blob \in Blob /\ job[p].tmp \in Tmp
    BY <1>0, <1>6, FileFacts DEF RenameOverPath, At, LocalsSet, Making
  <2>2. [dir EXCEPT ![Path] = dir[job[p].tmp], ![job[p].tmp] = NoFile] \in Directory
    BY <1>0, <2>1 DEF TypeOK, Directory
  <2>3. job' \in [Process -> Job]
    BY <1>0, <1>6, GoesTyped DEF RenameOverPath, Steps
  <2>4. order' \in Seq(Blob)
    BY <1>0, <1>6, <2>1, AppendProperties DEF RenameOverPath, TypeOK
  <2> QED
    BY <1>0, <1>6, <2>2, <2>3, <2>4, DirTyped DEF RenameOverPath, TypeOK
<1>7. ASSUME NEW p \in Process, UnlinkTmp(p)
      PROVE  TypeOK'
  <2>1. job[p].tmp \in Tmp
    BY <1>0, <1>7 DEF UnlinkTmp, At, LocalsSet, Making
  <2>2. [dir EXCEPT ![job[p].tmp] = NoFile] \in Directory
    BY <1>0, <2>1 DEF TypeOK, Directory
  <2>3. job' \in [Process -> Job]
    BY <1>0, <1>7, ReturnsTyped DEF UnlinkTmp
  <2>4. dir' \in Directory /\ dir' \in durable' /\ durable' \subseteq Directory
    BY <1>0, <1>7, <2>2, DirTyped DEF UnlinkTmp, TypeOK
  <2> QED
    BY <1>0, <1>7, <2>1, <2>3, <2>4 DEF UnlinkTmp, TypeOK
<1>8. ASSUME NEW p \in Process, SyncDir(p) \/ SyncDirSkipped(p)
      PROVE  TypeOK'
  <2>1. job[p].blob \in Blob
    BY <1>0, <1>8, FileFacts DEF SyncDir, SyncDirSkipped, At, LocalsSet
  <2>2. job' \in [Process -> Job]
    BY <1>0, <1>8, ReturnsTyped DEF SyncDir, SyncDirSkipped
  <2> QED
    BY <1>0, <1>8, <2>1, <2>2 DEF SyncDir, SyncDirSkipped, TypeOK
<1>9. ASSUME NEW p \in Process, OpenPath(p)
      PROVE  TypeOK'
  <2>1. dir[Path] \in Blob
    BY <1>0, <1>9 DEF OpenPath, TypeOK, Directory
  <2>2. job' \in [Process -> Job]
    BY <1>0, <1>9, <2>1 DEF OpenPath, TypeOK, Job, Steps
  <2> QED
    BY <1>0, <1>9, <2>2 DEF OpenPath, TypeOK, history
<1>10. ASSUME NEW p \in Process, ReadChunk(p)
       PROVE  TypeOK'
  <2> DEFINE f == job[p].fd
             k == Len(job[p].got) + 1
  <2>1. /\ f \in DOMAIN file /\ file[f] \in Seq(Blob)
        /\ job[p].got \in Seq(Blob) /\ Len(job[p].got) \in Nat
        /\ Len(job[p].got) < Len(file[f])
    BY <1>0, <1>10, FileFacts, LenProperties
       DEF ReadChunk, At, LocalsSet, Reading, TypeOK, Job
  <2>2. k \in 1..Len(file[f])
    BY <2>1, LenProperties
  <2>3. Append(job[p].got, file[f][k]) \in Seq(Blob)
    BY <2>1, <2>2, ElementOfSeq, AppendProperties
  <2>4. job' = [job EXCEPT ![p].got = Append(job[p].got, file[f][k])]
    BY <1>0, <1>10 DEF ReadChunk, TypeOK
  <2> HIDE DEF f, k
  <2>5. job' \in [Process -> Job]
    BY <1>0, <2>3, <2>4 DEF TypeOK, Job
  <2> QED
    BY <1>0, <1>10, <2>5 DEF ReadChunk, TypeOK, history
<1>11. ASSUME NEW p \in Process, Moves(p)
       PROVE  TypeOK'
  <2>1. job' \in [Process -> Job]
    BY <1>0, <1>11, GoesTyped, ReturnsTyped
       DEF Moves, CreateFails, WriteOrSyncFails, RenameFails, ReadToEnd, LoadReturns, Steps
  <2>2. UNCHANGED <<dir, durable, file, synced, history>>
    BY <1>11 DEF Moves, CreateFails, WriteOrSyncFails, RenameFails, ReadToEnd, LoadReturns
  <2> QED
    BY <1>0, <2>1, <2>2 DEF TypeOK, history
<1>12. ASSUME NEW p \in Process, Kill(p)
       PROVE  TypeOK'
  <2>1. Owns(p) => job[p].tmp \in Tmp
    BY <1>0 DEF LocalsSet, Making, Owns
  <2> QED
    BY <1>0, <1>12, <2>1, ReturnsTyped DEF Kill, TypeOK
<1>13. ASSUME PowerLoss
       PROVE  TypeOK'
  <2> DEFINE Lost == Range(dir') \ (synced \cup {NoFile})
  <2>1. PICK kept \in [Lost -> 0..Chunks] :
            /\ \A f \in DOMAIN kept : kept[f] <= Len(file[f])
            /\ file' = [f \in DOMAIN file |->
                          IF f \in DOMAIN kept THEN SubSeq(file[f], 1, kept[f])
                          ELSE IF f \in Range(dir') THEN file[f]
                          ELSE <<>>]
    BY <1>13 DEF PowerLoss
  <2> HIDE DEF Lost
  <2>2. /\ DOMAIN file' = 1..Len(file)
        /\ \A f \in DOMAIN file : /\ file'[f] \in Seq(Blob)
                                  /\ Len(file'[f]) <= Chunks
    <3>1. DOMAIN file = 1..Len(file)
      BY <1>0, FileFacts
    <3>2. ASSUME NEW f \in DOMAIN file
          PROVE  /\ file'[f] \in Seq(Blob)
                 /\ Len(file'[f]) <= Chunks
      <4>1. file[f] \in Seq(Blob) /\ Len(file[f]) <= Chunks
        BY <1>0, FileFacts DEF TypeOK
      <4>2. CASE f \in DOMAIN kept
        <5>1. kept[f] \in 0..Chunks /\ kept[f] <= Len(file[f])
          BY <2>1, <4>2
        <5>2. \A k \in 1..kept[f] : file[f][k] \in Blob
          BY <4>1, <5>1, LenProperties, ElementOfSeq, ChunksAssumption
        <5>3. /\ SubSeq(file[f], 1, kept[f]) \in Seq(Blob)
              /\ Len(SubSeq(file[f], 1, kept[f])) = IF 1 <= kept[f] THEN kept[f] - 1 + 1 ELSE 0
          BY <5>1, <5>2, SubSeqProperties, ChunksAssumption
        <5> QED
          BY <2>1, <4>2, <5>1, <5>3, ChunksAssumption
      <4>3. CASE f \notin DOMAIN kept
        BY <2>1, <4>1, <4>3, EmptySeq, ChunksAssumption
      <4> QED
        BY <4>2, <4>3
    <3> QED
      BY <2>1, <3>1, <3>2
  <2>3. /\ file' \in Seq(Seq(Blob)) /\ Len(file') = Len(file)
    <3>1. Len(file) \in Nat /\ DOMAIN file = 1..Len(file)
      BY <1>0, FileFacts
    <3>2. file' \in [1..Len(file) -> Seq(Blob)]
      BY <2>1, <2>2, <3>1
    <3>3. file' \in Seq(Seq(Blob))
      BY <3>1, <3>2
    <3> QED
      BY <2>2, <3>1, <3>3, LenProperties
  <2>4. job' \in [Process -> Job]
    BY <1>13, EmptySeq DEF PowerLoss, Job, Idle, Steps
  <2>5. order' \in Seq(Blob)
    <3>1. dir' \in durable
      BY <1>13 DEF PowerLoss
    <3>2. CASE dir'[Path] = NoFile
      BY <1>13, <3>2, EmptySeq DEF PowerLoss, OrderUpTo
    <3>3. CASE dir'[Path] # NoFile
      <4>1. \E k \in DOMAIN order : order[k] = dir'[Path]
        BY <3>1, <3>3 DEF IInv, DirsWhole, Range
      <4>2. (CHOOSE k \in DOMAIN order : order[k] = dir'[Path]) \in DOMAIN order
        BY <4>1
      <4> QED
        BY <1>0, <1>13, <3>3, <4>2, Prefix DEF PowerLoss, OrderUpTo
    <3> QED
      BY <3>2, <3>3
  <2>6. /\ dir' \in durable /\ durable' = {dir'} /\ synced' = DOMAIN file
        /\ acked' = acked \cap Range(order')
        /\ settled' = settled \cap Range(order')
        /\ stranded' \subseteq Tmp
    BY <1>13 DEF PowerLoss
  <2>7. synced' \subseteq DOMAIN file' /\ \A f \in DOMAIN file' : Len(file'[f]) <= Chunks
    BY <1>0, <2>2, <2>6, FileFacts
  <2> QED
    BY <1>0, <2>3, <2>4, <2>5, <2>6, <2>7 DEF TypeOK
<1> QED
  BY <1>1, <1>2, <1>3, <1>4, <1>5, <1>6, <1>7, <1>8, <1>9, <1>10, <1>11, <1>12, <1>13
     DEF Next, Proceeds, Moves
-----------------------------------------------------------------------------
(***************************************************************************)
(* The rest of the invariant, one call at a time.                          *)
(***************************************************************************)
CallsInv == LocalsSet /\ BlobsOwned /\ FilesWritten /\ ReadsWhole
PathInv == DirsWhole /\ Renamed /\ SettledBehind /\ NoLitter

LEMMA IInvParts == IInv <=> TypeOK /\ CallsInv /\ PathInv
  BY DEF IInv, CallsInv, PathInv

\* A call that is over leaves the others as they were.
LEMMA Over ==
    ASSUME IInv, NEW p \in Process, Returns(p), UNCHANGED <<file, synced, order>>,
           \A q \in Process \ {p} : Owns(q) => dir'[job[q].tmp] = dir[job[q].tmp]
    PROVE  CallsInv'
<1>1. /\ job'[p] = Idle /\ ~Making(p)' /\ ~Owns(p)' /\ ~Reading(p)'
      /\ \A q \in Process \ {p} : job'[q] = job[q]
  BY DEF Returns, IInv, TypeOK, Idle, Making, Owns, Reading, At
<1>2. LocalsSet'
  BY <1>1 DEF IInv, LocalsSet, At, Making, Owns, Reading, Idle
<1>3. BlobsOwned'
  BY <1>1 DEF IInv, BlobsOwned, Making, Owns
<1>4. FilesWritten'
  BY <1>1 DEF IInv, FilesWritten, At, Idle
<1>5. ReadsWhole'
  BY <1>1 DEF IInv, ReadsWhole, Reading, At, Idle
<1> QED
  BY <1>2, <1>3, <1>4, <1>5 DEF CallsInv

\* A step that leaves the path and the files alone.
LEMMA PathLeft ==
    ASSUME IInv, UNCHANGED <<dir, durable, file, synced, order, settled>>,
           acked' \subseteq Range(order), NoLitter',
           \A p \in Process : At(p, "settle")' => At(p, "settle") /\ job'[p].blob = job[p].blob
    PROVE  PathInv'
<1>1. Renamed'
  BY DEF IInv, Renamed
<1> QED
  BY <1>1 DEF IInv, PathInv, DirsWhole, SettledBehind

LEMMA BeginSaveKeeps ==
    ASSUME IInv, NEW p \in Process, BeginSave(p)
    PROVE  CallsInv' /\ PathInv'
<1>0. /\ TypeOK /\ LocalsSet /\ BlobsOwned /\ FilesWritten /\ ReadsWhole /\ Renamed
      /\ DOMAIN file = 1..Len(file) /\ Len(file) \in Nat
  BY FileFacts DEF IInv
<1>1. /\ UNCHANGED <<dir, durable, synced, order, acked, settled, stranded>>
      /\ At(p, "idle")
      /\ \A q \in Process \ {p} : job'[q] = job[q]
      /\ \/ job'[p] = job[p]
         \/ /\ job'[p].at = "create" /\ job'[p].blob = Len(file) + 1
            /\ job'[p].tmp \in Tmp /\ job'[p].got = <<>>
  BY <1>0 DEF BeginSave, history, TypeOK, Idle
<1>2. /\ DOMAIN file' = 1..(Len(file) + 1)
      /\ file'[Len(file) + 1] = <<>>
      /\ \A f \in DOMAIN file : file'[f] = file[f]
  <2>1. <<>> \in Seq(Blob) /\ file' = Append(file, <<>>)
    BY EmptySeq DEF BeginSave
  <2> QED
    BY <1>0, <2>1, AppendProperties, LenProperties DEF TypeOK
<1>3. Len(file) + 1 \notin DOMAIN file /\ DOMAIN file \subseteq DOMAIN file'
  BY <1>0, <1>2
<1>4. LocalsSet'
  BY <1>0, <1>1, <1>2, <1>3 DEF LocalsSet, At, Making, Owns, Reading
<1>5. BlobsOwned'
  <2>1. Len(file) + 1 \notin Range(order)
    BY <1>0, <1>3 DEF Renamed
  <2> QED
    BY <1>0, <1>1, <1>3, <2>1 DEF BlobsOwned, LocalsSet, At, Making, Owns
<1>6. FilesWritten'
  BY <1>0, <1>1, <1>2, <1>3 DEF FilesWritten, LocalsSet, At, Making
<1>7. ReadsWhole'
  BY <1>0, <1>1, <1>2, <1>3 DEF ReadsWhole, LocalsSet, At, Reading
<1>8. DirsWhole'
  BY <1>0, <1>1, <1>2 DEF IInv, DirsWhole, Renamed
<1>9. Renamed'
  BY <1>0, <1>1, <1>3 DEF Renamed, At
<1>10. SettledBehind'
  BY <1>1 DEF IInv, SettledBehind
<1>11. NoLitter'
  BY <1>1 DEF IInv, NoLitter, Owns, At
<1> QED
  BY <1>4, <1>5, <1>6, <1>7, <1>8, <1>9, <1>10, <1>11 DEF CallsInv, PathInv

LEMMA CreateTmpKeeps ==
    ASSUME IInv, NEW p \in Process, CreateTmp(p)
    PROVE  CallsInv' /\ PathInv'
<1> DEFINE t == job[p].tmp
           b == job[p].blob
<1>0. /\ TypeOK /\ LocalsSet /\ BlobsOwned /\ FilesWritten /\ ReadsWhole /\ Renamed
      /\ DirsWhole /\ SettledBehind /\ NoLitter
  BY DEF IInv
<1>1. /\ UNCHANGED <<file, synced, order, acked, settled, stranded>>
      /\ At(p, "create") /\ dir[t] = NoFile
      /\ \A q \in Process \ {p} : job'[q] = job[q]
      /\ job'[p].at = "write" /\ job'[p].fd = b
      /\ job'[p].blob = b /\ job'[p].tmp = t /\ job'[p].got = job[p].got
  BY <1>0 DEF CreateTmp, history, TypeOK, Job
<1>2. /\ t \in Tmp /\ b \in DOMAIN file /\ b \in Blob /\ job[p].got = <<>>
      /\ file[b] = <<>> /\ b # NoFile
  BY <1>0, <1>1, FileFacts, BlobTyped DEF LocalsSet, FilesWritten, Making, At
<1>3. /\ dir'[t] = b /\ dir'[Path] = dir[Path]
      /\ \A u \in Tmp \ {t} : dir'[u] = dir[u]
      /\ durable' = durable \cup {dir'}
  BY <1>0, <1>2, NamesAssumption DEF CreateTmp, DirBecomes, TypeOK, Directory, Path
<1> HIDE DEF t, b
<1>4. LocalsSet'
  BY <1>0, <1>1, <1>2 DEF LocalsSet, At, Making, Owns, Reading
<1>5. BlobsOwned'
  <2>1. \A q \in Process \ {p} : Owns(q) => job[q].tmp # t /\ job[q].tmp \in Tmp
    BY <1>0, <1>1, FileFacts, BlobTyped DEF BlobsOwned, LocalsSet, Owns, Making
  <2> QED
    BY <1>0, <1>1, <1>2, <1>3, <2>1 DEF BlobsOwned, At, Making, Owns, t, b
<1>6. FilesWritten'
  BY <1>0, <1>1, <1>2, EmptySeq, ChunksAssumption DEF FilesWritten, At
<1>7. ReadsWhole'
  BY <1>0, <1>1 DEF ReadsWhole, At, Reading
<1>8. DirsWhole'
  BY <1>0, <1>1, <1>3 DEF DirsWhole, TypeOK
<1>9. Renamed'
  BY <1>0, <1>1, <1>3 DEF Renamed, At
<1>10. SettledBehind'
  BY <1>0, <1>1, <1>3 DEF SettledBehind, TypeOK
<1>11. NoLitter'
  BY <1>0, <1>1, <1>2, <1>3 DEF NoLitter, Owns, At
<1> QED
  BY <1>4, <1>5, <1>6, <1>7, <1>8, <1>9, <1>10, <1>11 DEF CallsInv, PathInv

LEMMA WriteChunkKeeps ==
    ASSUME IInv, NEW p \in Process, WriteChunk(p)
    PROVE  CallsInv' /\ PathInv'
<1> DEFINE b == job[p].blob
           c == Append(job[p].got, b)
<1>0. /\ TypeOK /\ LocalsSet /\ BlobsOwned /\ FilesWritten /\ ReadsWhole /\ Renamed
      /\ DirsWhole /\ SettledBehind /\ NoLitter
  BY DEF IInv
<1>1. /\ UNCHANGED <<dir, durable, order, acked, settled, stranded>>
      /\ At(p, "write") /\ Len(job[p].got) < Chunks
      /\ \A q \in Process \ {p} : job'[q] = job[q]
      /\ job'[p].at = "write" /\ job'[p].fd = job[p].fd
      /\ job'[p].blob = b /\ job'[p].tmp = job[p].tmp /\ job'[p].got = c
  BY <1>0 DEF WriteChunk, history, TypeOK, Job, At
<1>2. /\ b \in DOMAIN file /\ b \in Blob /\ job[p].fd = b /\ file[b] = job[p].got
      /\ job[p].tmp \in Tmp
      /\ job[p].got \in Seq(Blob) /\ Len(job[p].got) \in Nat
      /\ \A k \in DOMAIN job[p].got : job[p].got[k] = b
      /\ DOMAIN job[p].got = 1..Len(job[p].got)
  BY <1>0, <1>1, FileFacts, LenProperties
     DEF LocalsSet, FilesWritten, Making, Owns, At, TypeOK, Job
<1>3. /\ c \in Seq(Blob) /\ Len(c) <= Chunks /\ \A k \in DOMAIN c : c[k] = b
  <2>1. /\ c \in Seq(Blob) /\ Len(c) = Len(job[p].got) + 1
        /\ \A k \in 1..Len(job[p].got) : c[k] = job[p].got[k]
        /\ c[Len(job[p].got) + 1] = b
    BY <1>2, AppendProperties
  <2>2. DOMAIN c = 1..(Len(job[p].got) + 1)
    BY <2>1, LenProperties
  <2> HIDE DEF c, b
  <2> QED
    BY <1>1, <1>2, <2>1, <2>2, ChunksAssumption
<1>4. file' = [file EXCEPT ![b] = c] /\ synced' = synced \ {b}
  <2>1. file' = [file EXCEPT ![b] = IF Len(job[p].got) + 1 <= Len(file[b])
                                    THEN [file[b] EXCEPT ![Len(job[p].got) + 1] = b]
                                    ELSE Append(file[b], b)]
    BY <1>0, <1>2, FileFacts DEF WriteChunk
  <2>2. ~(Len(job[p].got) + 1 <= Len(file[b]))
    BY <1>2
  <2>3. synced' = synced \ {b}
    BY <1>2 DEF WriteChunk
  <2> HIDE DEF b
  <2> QED
    BY <1>2, <2>1, <2>2, <2>3
<1> HIDE DEF b, c
<1>5. /\ DOMAIN file' = DOMAIN file /\ file'[b] = c
      /\ \A f \in DOMAIN file : f # b => file'[f] = file[f]
  BY <1>0, <1>2, <1>3, <1>4, FileReplaced
<1>6. b \notin Range(order) /\ \A q \in Process \ {p} : Making(q) => job[q].blob # b
  BY <1>0, <1>1 DEF BlobsOwned, Making, At, b
<1>7. LocalsSet'
  BY <1>0, <1>1, <1>2, <1>5 DEF LocalsSet, At, Making, Owns, Reading
<1>8. BlobsOwned'
  BY <1>0, <1>1 DEF BlobsOwned, At, Making, Owns, b
<1>9. FilesWritten'
  BY <1>0, <1>1, <1>3, <1>4, <1>5, <1>6 DEF FilesWritten, LocalsSet, At, Making
<1>10. ReadsWhole'
  BY <1>0, <1>1, <1>5, <1>6 DEF ReadsWhole, LocalsSet, At, Reading
<1>11. DirsWhole'
  BY <1>0, <1>1, <1>4, <1>5, <1>6 DEF DirsWhole, Renamed
<1>12. Renamed'
  BY <1>0, <1>1, <1>5 DEF Renamed, At
<1>13. SettledBehind'
  BY <1>0, <1>1 DEF SettledBehind
<1>14. NoLitter'
  BY <1>0, <1>1 DEF NoLitter, Owns, At
<1> QED
  BY <1>7, <1>8, <1>9, <1>10, <1>11, <1>12, <1>13, <1>14 DEF CallsInv, PathInv

LEMMA SyncFileKeeps ==
    ASSUME IInv, NEW p \in Process, SyncFile(p)
    PROVE  CallsInv' /\ PathInv'
<1> DEFINE b == job[p].blob
<1>0. /\ TypeOK /\ LocalsSet /\ BlobsOwned /\ FilesWritten /\ ReadsWhole /\ Renamed
      /\ DirsWhole /\ SettledBehind /\ NoLitter
  BY DEF IInv
<1>1. /\ UNCHANGED <<dir, durable, file, order, acked, settled, stranded>>
      /\ At(p, "write") /\ Len(job[p].got) = Chunks
      /\ \A q \in Process \ {p} : job'[q] = job[q]
      /\ job'[p].at = "rename" /\ job'[p].fd = job[p].fd
      /\ job'[p].blob = b /\ job'[p].tmp = job[p].tmp /\ job'[p].got = job[p].got
  BY <1>0 DEF SyncFile, Goes, history, TypeOK, Job, At
<1>2. /\ b \in DOMAIN file /\ job[p].fd = b /\ job[p].tmp \in Tmp
      /\ file[b] = job[p].got /\ job[p].got \in Seq(Blob)
      /\ \A k \in DOMAIN job[p].got : job[p].got[k] = b
  BY <1>0, <1>1 DEF LocalsSet, FilesWritten, Making, Owns, At, TypeOK, Job
<1>3. file[b] = Bytes(b) /\ synced' = synced \cup {b}
  BY <1>1, <1>2, AllChunks DEF SyncFile
<1> HIDE DEF b
<1>4. LocalsSet'
  BY <1>0, <1>1, <1>2 DEF LocalsSet, At, Making, Owns, Reading
<1>5. BlobsOwned'
  BY <1>0, <1>1 DEF BlobsOwned, At, Making, Owns, b
<1>6. FilesWritten'
  BY <1>0, <1>1, <1>3 DEF FilesWritten, At
<1>7. ReadsWhole'
  BY <1>0, <1>1 DEF ReadsWhole, At, Reading
<1>8. DirsWhole'
  BY <1>0, <1>1, <1>3 DEF DirsWhole
<1>9. Renamed'
  BY <1>0, <1>1 DEF Renamed, At
<1>10. SettledBehind'
  BY <1>0, <1>1 DEF SettledBehind
<1>11. NoLitter'
  BY <1>0, <1>1 DEF NoLitter, Owns, At
<1> QED
  BY <1>4, <1>5, <1>6, <1>7, <1>8, <1>9, <1>10, <1>11 DEF CallsInv, PathInv

\* A save that has failed still owns what it has to unlink.
LEMMA SaveFailsKeeps ==
    ASSUME IInv, NEW p \in Process, WriteOrSyncFails(p) \/ RenameFails(p)
    PROVE  CallsInv' /\ PathInv'
<1>0. /\ TypeOK /\ LocalsSet /\ BlobsOwned /\ FilesWritten /\ ReadsWhole /\ Renamed
      /\ DirsWhole /\ SettledBehind /\ NoLitter
  BY DEF IInv
<1>1. /\ UNCHANGED <<dir, durable, file, synced, order, acked, settled, stranded>>
      /\ At(p, "write") \/ At(p, "rename")
      /\ \A q \in Process \ {p} : job'[q] = job[q]
      /\ job'[p].at = "unlink" /\ job'[p].fd = job[p].fd
      /\ job'[p].blob = job[p].blob /\ job'[p].tmp = job[p].tmp
  BY <1>0 DEF WriteOrSyncFails, RenameFails, Goes, history, TypeOK, Job, At
<1>2. LocalsSet'
  BY <1>0, <1>1 DEF LocalsSet, At, Making, Owns, Reading
<1>3. BlobsOwned'
  BY <1>0, <1>1 DEF BlobsOwned, At, Making, Owns
<1>4. FilesWritten'
  BY <1>0, <1>1 DEF FilesWritten, At
<1>5. ReadsWhole'
  BY <1>0, <1>1 DEF ReadsWhole, At, Reading
<1>6. NoLitter'
  BY <1>0, <1>1 DEF NoLitter, Owns, At
<1>7. PathInv'
  BY <1>0, <1>1, <1>6, PathLeft DEF Renamed, At
<1> QED
  BY <1>2, <1>3, <1>4, <1>5, <1>7 DEF CallsInv

LEMMA RenameKeeps ==
    ASSUME IInv, NEW p \in Process, RenameOverPath(p)
    PROVE  CallsInv' /\ PathInv'
<1> DEFINE t == job[p].tmp
           b == job[p].blob
           n == Len(order)
<1>0. /\ TypeOK /\ LocalsSet /\ BlobsOwned /\ FilesWritten /\ ReadsWhole /\ Renamed
      /\ DirsWhole /\ SettledBehind /\ NoLitter
  BY DEF IInv
<1>1. /\ UNCHANGED <<file, synced, acked, settled, stranded>>
      /\ At(p, "rename")
      /\ \A q \in Process \ {p} : job'[q] = job[q]
      /\ job'[p].at = "settle" /\ job'[p].blob = b /\ job'[p].tmp = t
      /\ order' = Append(order, b)
  BY <1>0 DEF RenameOverPath, Goes, TypeOK, Job, At
<1>2. /\ t \in Tmp /\ b \in DOMAIN file /\ b \in Blob /\ b # NoFile
      /\ dir[t] = b /\ b \notin Range(order)
      /\ file[b] = Bytes(b) /\ b \in synced
  BY <1>0, <1>1, FileFacts, BlobTyped DEF LocalsSet, FilesWritten, BlobsOwned, Making, Owns, At
<1>3. /\ dir'[t] = NoFile /\ dir'[Path] = b
      /\ \A u \in Tmp \ {t} : dir'[u] = dir[u]
      /\ durable' = durable \cup {dir'}
  BY <1>0, <1>2, NamesAssumption DEF RenameOverPath, DirBecomes, TypeOK, Directory, Path
<1>4. /\ n \in Nat /\ DOMAIN order = 1..n
      /\ DOMAIN order' = 1..(n + 1) /\ Len(order') = n + 1 /\ order' # <<>>
      /\ order'[n + 1] = b
      /\ \A k \in 1..n : order'[k] = order[k]
  <2>1. order \in Seq(Blob)
    BY <1>0 DEF TypeOK
  <2>2. n \in Nat /\ DOMAIN order = 1..n
    BY <2>1, LenProperties
  <2>3. /\ order' \in Seq(Blob) /\ Len(order') = n + 1 /\ order' # <<>>
        /\ order'[n + 1] = b
        /\ \A k \in 1..n : order'[k] = order[k]
    BY <1>1, <1>2, <2>1, AppendProperties
  <2>4. DOMAIN order' = 1..Len(order')
    BY <2>3, LenProperties
  <2> QED
    BY <2>2, <2>3, <2>4
<1> HIDE DEF t, b, n
<1>5. Range(order') = Range(order) \cup {b}
  <2>1. \A x : x \in Range(order') <=> x \in Range(order) \/ x = b
    BY <1>4 DEF Range
  <2> QED
    BY <2>1
<1>6. \A q \in Process \ {p} : Making(q) => job[q].blob # b
  BY <1>0, <1>1 DEF BlobsOwned, Making, At, b
<1>7. LocalsSet'
  BY <1>0, <1>1, <1>2 DEF LocalsSet, At, Making, Owns, Reading
<1>8. BlobsOwned'
  <2>1. \A q \in Process \ {p} : Owns(q) => job[q].tmp # t /\ job[q].tmp \in Tmp
    BY <1>0, <1>1, <1>2, <1>6 DEF BlobsOwned, LocalsSet, Owns, Making
  <2> QED
    BY <1>0, <1>1, <1>3, <1>5, <1>6, <2>1 DEF BlobsOwned, At, Making, Owns
<1>9. FilesWritten'
  BY <1>0, <1>1 DEF FilesWritten, At
<1>10. ReadsWhole'
  BY <1>0, <1>1, <1>5 DEF ReadsWhole, At, Reading
<1>11. DirsWhole'
  BY <1>0, <1>1, <1>2, <1>3, <1>5 DEF DirsWhole
<1>12. Renamed'
  <2>1. \A k, m \in DOMAIN order' : order'[k] = order'[m] => k = m
    <3>1. \A k \in 1..n : order[k] # b
      BY <1>2, <1>4 DEF Range
    <3>2. \A k \in 1..(n + 1) : k \in 1..n \/ k = n + 1
      BY <1>4
    <3> QED
      BY <1>0, <1>4, <3>1, <3>2 DEF Renamed
  <2> QED
    BY <1>0, <1>1, <1>2, <1>3, <1>4, <1>5, <2>1 DEF Renamed, At
<1>13. SettledBehind'
  <2> SUFFICES ASSUME NEW x \in settled, NEW d \in durable'
               PROVE  \E k, m \in DOMAIN order' : k <= m /\ order'[k] = x /\ order'[m] = d[Path]
    BY <1>1 DEF SettledBehind
  <2>1. \A k \in DOMAIN order : k \in DOMAIN order' /\ order'[k] = order[k] /\ k <= n + 1
    BY <1>4
  <2>2. n + 1 \in DOMAIN order'
    BY <1>4
  <2>3. CASE d \in durable
    BY <1>0, <2>1, <2>3 DEF SettledBehind
  <2>4. CASE d = dir'
    <3>1. PICK k \in DOMAIN order : order[k] = x
      BY <1>0 DEF SettledBehind, TypeOK
    <3> QED
      BY <1>3, <1>4, <2>1, <2>2, <2>4, <3>1
  <2> QED
    BY <1>3, <2>3, <2>4
<1>14. NoLitter'
  BY <1>0, <1>1, <1>2, <1>3 DEF NoLitter, Owns, At, t
<1> QED
  BY <1>7, <1>8, <1>9, <1>10, <1>11, <1>12, <1>13, <1>14 DEF CallsInv, PathInv

\* Two saves that have created their files do not share a name.
LEMMA TmpsApart ==
    ASSUME IInv, NEW p \in Process, NEW q \in Process, Owns(p), Owns(q), p # q
    PROVE  job[p].tmp # job[q].tmp
  BY DEF IInv, BlobsOwned, Making, Owns

LEMMA UnlinkTmpKeeps ==
    ASSUME IInv, NEW p \in Process, UnlinkTmp(p)
    PROVE  CallsInv' /\ PathInv'
<1> DEFINE t == job[p].tmp
<1>0. /\ TypeOK /\ LocalsSet /\ BlobsOwned /\ Renamed /\ DirsWhole /\ SettledBehind /\ NoLitter
  BY DEF IInv
<1>1. /\ UNCHANGED <<file, synced, order, acked, settled>>
      /\ At(p, "unlink") /\ Owns(p) /\ Returns(p)
      /\ \A q \in Process \ {p} : job'[q] = job[q]
      /\ job'[p] = Idle
  BY <1>0 DEF UnlinkTmp, Returns, TypeOK, At, Owns
<1>2. t \in Tmp /\ t # Path
  BY <1>0, <1>1, NamesAssumption DEF LocalsSet, Making, Owns, Path
<1>3. \/ /\ dir'[t] = NoFile /\ dir'[Path] = dir[Path]
         /\ \A u \in Tmp \ {t} : dir'[u] = dir[u]
         /\ durable' = durable \cup {dir'}
         /\ stranded' = stranded
      \/ UNCHANGED <<dir, durable>> /\ stranded' = stranded \cup {t}
  BY <1>0, <1>2 DEF UnlinkTmp, DirBecomes, TypeOK, Directory, Path
<1>4. \A q \in Process \ {p} : Owns(q) => job[q].tmp # t /\ job[q].tmp \in Tmp
  BY <1>0, <1>1, TmpsApart DEF LocalsSet, Making, Owns
<1> HIDE DEF t
<1>5. \A q \in Process \ {p} : Owns(q) => dir'[job[q].tmp] = dir[job[q].tmp]
  BY <1>3, <1>4
<1>6. CallsInv'
  BY <1>1, <1>5, Over
<1>7. dir'[Path] = dir[Path] /\ dir \in durable /\ \A d \in durable' : d \in durable \/ d = dir'
  BY <1>0, <1>3 DEF TypeOK
<1>8. DirsWhole'
  BY <1>0, <1>1, <1>7 DEF DirsWhole
<1>9. Renamed'
  BY <1>0, <1>1, <1>7 DEF Renamed, At, Idle
<1>10. SettledBehind'
  BY <1>0, <1>1, <1>7 DEF SettledBehind
<1>11. NoLitter'
  <2> SUFFICES ASSUME NEW u \in Tmp, dir'[u] # NoFile
               PROVE  u \in stranded' \/ \E q \in Process : Owns(q)' /\ job'[q].tmp = u
    BY DEF NoLitter
  <2>1. u \in stranded \/ \E q \in Process : Owns(q) /\ job[q].tmp = u
    BY <1>0, <1>3 DEF NoLitter
  <2> QED
    BY <1>1, <1>3, <2>1 DEF Owns, t
<1> QED
  BY <1>6, <1>8, <1>9, <1>10, <1>11 DEF PathInv

LEMMA SyncDirKeeps ==
    ASSUME IInv, NEW p \in Process, SyncDir(p)
    PROVE  CallsInv' /\ PathInv'
<1> DEFINE b == job[p].blob
<1>0. /\ TypeOK /\ Renamed /\ DirsWhole /\ SettledBehind /\ NoLitter
  BY DEF IInv
<1>1. /\ UNCHANGED <<dir, file, synced, order, stranded>>
      /\ durable' = {dir} /\ dir \in durable
      /\ acked' = acked \cup {b} /\ settled' = settled \cup {b}
      /\ At(p, "settle") /\ Returns(p)
      /\ \A q \in Process \ {p} : job'[q] = job[q]
      /\ job'[p] = Idle
  BY <1>0 DEF SyncDir, Returns, TypeOK, At
<1>2. b \in Range(order)
  BY <1>0, <1>1 DEF Renamed
<1> HIDE DEF b
<1>3. CallsInv'
  BY <1>1, Over
<1>4. DirsWhole'
  BY <1>0, <1>1 DEF DirsWhole
<1>5. Renamed'
  BY <1>0, <1>1, <1>2 DEF Renamed, At, Idle
<1>6. SettledBehind'
  <2>1. order \in Seq(Blob) /\ DOMAIN order = 1..Len(order) /\ Len(order) \in Nat
    BY <1>0, LenProperties DEF TypeOK
  <2>2. PICK k \in DOMAIN order : order[k] = b
    BY <1>2 DEF Range
  <2>3. order # <<>>
    BY <2>1, <2>2, EmptySeq
  <2>4. Len(order) \in DOMAIN order /\ k <= Len(order) /\ order[Len(order)] = dir[Path]
    BY <1>0, <2>1, <2>2, <2>3 DEF Renamed
  <2> QED
    BY <1>0, <1>1, <2>2, <2>4 DEF SettledBehind
<1>7. NoLitter'
  BY <1>0, <1>1 DEF NoLitter, Owns, At, Idle
<1> QED
  BY <1>3, <1>4, <1>5, <1>6, <1>7 DEF PathInv

LEMMA SyncDirSkippedKeeps ==
    ASSUME IInv, NEW p \in Process, SyncDirSkipped(p)
    PROVE  CallsInv' /\ PathInv'
<1>0. /\ TypeOK /\ Renamed /\ NoLitter
  BY DEF IInv
<1>1. /\ UNCHANGED <<dir, durable, file, synced, order, settled, stranded>>
      /\ acked' = acked \cup {job[p].blob}
      /\ At(p, "settle") /\ Returns(p)
      /\ \A q \in Process \ {p} : job'[q] = job[q]
      /\ job'[p] = Idle
  BY <1>0 DEF SyncDirSkipped, Returns, TypeOK, At
<1>2. acked' \subseteq Range(order)
  BY <1>0, <1>1 DEF Renamed
<1>3. CallsInv'
  BY <1>1, Over
<1>4. NoLitter'
  BY <1>0, <1>1 DEF NoLitter, Owns, At, Idle
<1>5. \A q \in Process : At(q, "settle")' => At(q, "settle") /\ job'[q].blob = job[q].blob
  BY <1>1 DEF At, Idle
<1> QED
  BY <1>1, <1>2, <1>3, <1>4, <1>5, PathLeft

\* A call that ends leaving no file of its own behind, or dies.
LEMMA CallOverKeeps ==
    ASSUME IInv, NEW p \in Process, CreateFails(p) \/ LoadReturns(p) \/ Kill(p)
    PROVE  CallsInv' /\ PathInv'
<1>0. /\ TypeOK /\ Renamed /\ NoLitter
  BY DEF IInv
<1>1. /\ UNCHANGED <<dir, durable, file, synced, order, acked, settled>>
      /\ stranded \subseteq stranded'
      /\ Owns(p) => job[p].tmp \in stranded'
      /\ Returns(p)
      /\ \A q \in Process \ {p} : job'[q] = job[q]
      /\ job'[p] = Idle
  BY <1>0 DEF CreateFails, LoadReturns, Kill, Returns, TypeOK, At, Owns, history
<1>2. CallsInv'
  BY <1>1, Over
<1>3. NoLitter'
  <2> SUFFICES ASSUME NEW u \in Tmp, dir'[u] # NoFile
               PROVE  u \in stranded' \/ \E q \in Process : Owns(q)' /\ job'[q].tmp = u
    BY DEF NoLitter
  <2>1. u \in stranded \/ \E q \in Process : Owns(q) /\ job[q].tmp = u
    BY <1>0, <1>1 DEF NoLitter
  <2>2. \A q \in Process \ {p} : Owns(q) => Owns(q)' /\ job'[q].tmp = job[q].tmp
    BY <1>1 DEF Owns
  <2> QED
    BY <1>1, <2>1, <2>2
<1>4. \A q \in Process : At(q, "settle")' => At(q, "settle") /\ job'[q].blob = job[q].blob
  BY <1>1 DEF At, Idle
<1> QED
  BY <1>0, <1>1, <1>2, <1>3, <1>4, PathLeft DEF Renamed

\* A step of a load, which changes nothing but what the load holds.
LEMMA LoadStepKeeps ==
    ASSUME IInv, NEW p \in Process,
           UNCHANGED <<dir, durable, file, synced, order, acked, settled, stranded>>,
           \A q \in Process \ {p} : job'[q] = job[q],
           ~Owns(p), Reading(p)',
           job'[p].fd \in Range(order),
           file[job'[p].fd] = Bytes(job'[p].fd),
           Len(job'[p].got) <= Chunks,
           \A k \in DOMAIN job'[p].got : job'[p].got[k] = job'[p].fd,
           At(p, "loaded")' => Len(job'[p].got) = Chunks
    PROVE  CallsInv' /\ PathInv'
<1>0. /\ TypeOK /\ LocalsSet /\ BlobsOwned /\ FilesWritten /\ ReadsWhole /\ Renamed /\ NoLitter
  BY DEF IInv
<1>1. job'[p].at \in {"read", "loaded"}
  BY DEF Reading, At
<1>2. LocalsSet'
  BY <1>0, <1>1 DEF LocalsSet, At, Making, Owns, Reading, Renamed
<1>3. BlobsOwned'
  BY <1>0, <1>1 DEF BlobsOwned, Making, Owns
<1>4. FilesWritten'
  BY <1>0, <1>1 DEF FilesWritten, At
<1>5. ReadsWhole'
  BY <1>0 DEF ReadsWhole, At, Reading
<1>6. NoLitter'
  BY <1>0 DEF NoLitter, Owns
<1>7. \A q \in Process : At(q, "settle")' => At(q, "settle") /\ job'[q].blob = job[q].blob
  BY <1>1 DEF At
<1>8. PathInv'
  BY <1>0, <1>6, <1>7, PathLeft DEF Renamed
<1> QED
  BY <1>2, <1>3, <1>4, <1>5, <1>8 DEF CallsInv

LEMMA OpenPathKeeps ==
    ASSUME IInv, NEW p \in Process, OpenPath(p)
    PROVE  CallsInv' /\ PathInv'
<1>0. TypeOK /\ LocalsSet /\ DirsWhole
  BY DEF IInv
<1>1. /\ UNCHANGED <<dir, durable, file, synced, order, acked, settled, stranded>>
      /\ \A q \in Process \ {p} : job'[q] = job[q]
      /\ ~Owns(p) /\ job'[p].at = "read" /\ job'[p].fd = dir[Path] /\ dir[Path] # NoFile
      /\ job'[p].got = <<>>
  BY <1>0 DEF OpenPath, history, TypeOK, Job, At, Owns, LocalsSet
<1>2. dir[Path] \in Range(order) /\ file[dir[Path]] = Bytes(dir[Path])
  BY <1>0, <1>1 DEF DirsWhole, TypeOK
<1>3. Len(job'[p].got) <= Chunks /\ DOMAIN job'[p].got = {}
  BY <1>1, EmptySeq, ChunksAssumption
<1> QED
  BY <1>1, <1>2, <1>3, LoadStepKeeps DEF Reading, At

LEMMA ReadChunkKeeps ==
    ASSUME IInv, NEW p \in Process, ReadChunk(p)
    PROVE  CallsInv' /\ PathInv'
<1> DEFINE f == job[p].fd
           g == job[p].got
<1>0. TypeOK /\ LocalsSet /\ ReadsWhole
  BY DEF IInv
<1>1. /\ UNCHANGED <<dir, durable, file, synced, order, acked, settled, stranded>>
      /\ \A q \in Process \ {p} : job'[q] = job[q]
      /\ ~Owns(p) /\ At(p, "read") /\ job'[p].at = "read" /\ job'[p].fd = f
      /\ Len(g) < Len(file[f])
      /\ job'[p].got = Append(g, file[f][Len(g) + 1])
  BY <1>0 DEF ReadChunk, history, TypeOK, Job, At, Owns
<1>2. /\ f \in Range(order) /\ file[f] = Bytes(f) /\ f \in DOMAIN file /\ f \in Blob
      /\ g \in Seq(Blob) /\ Len(g) \in Nat /\ DOMAIN g = 1..Len(g)
      /\ \A k \in DOMAIN g : g[k] = f
  BY <1>0, <1>1, FileFacts, LenProperties DEF ReadsWhole, LocalsSet, Reading, TypeOK, Job
<1>3. Len(file[f]) \in Nat /\ Len(file[f]) <= Chunks /\ DOMAIN file[f] = 1..Len(file[f])
  BY <1>0, <1>2, FileFacts, LenProperties DEF TypeOK
<1>4. Len(g) + 1 \in 1..Chunks
  BY <1>1, <1>2, <1>3, ChunksAssumption
<1>5. file[f][Len(g) + 1] = f
  BY <1>2, <1>4 DEF Bytes
<1> HIDE DEF f, g
<1>6. /\ job'[p].got \in Seq(Blob) /\ Len(job'[p].got) = Len(g) + 1
      /\ \A k \in 1..Len(g) : job'[p].got[k] = g[k]
      /\ job'[p].got[Len(g) + 1] = f
  BY <1>1, <1>2, <1>5, AppendProperties
<1>7. DOMAIN job'[p].got = 1..(Len(g) + 1)
  BY <1>6, LenProperties
<1>8. \A k \in DOMAIN job'[p].got : job'[p].got[k] = f
  <2>1. \A k \in 1..(Len(g) + 1) : k \in 1..Len(g) \/ k = Len(g) + 1
    BY <1>2
  <2> QED
    BY <1>2, <1>6, <1>7, <2>1
<1>9. Len(job'[p].got) <= Chunks
  BY <1>4, <1>6
<1> QED
  BY <1>1, <1>2, <1>8, <1>9, LoadStepKeeps DEF Reading, At

LEMMA ReadToEndKeeps ==
    ASSUME IInv, NEW p \in Process, ReadToEnd(p)
    PROVE  /\ CallsInv' /\ PathInv'
           /\ Len(job[p].got) = Chunks
<1> DEFINE f == job[p].fd
           g == job[p].got
<1>0. TypeOK /\ LocalsSet /\ ReadsWhole
  BY DEF IInv
<1>1. /\ UNCHANGED <<dir, durable, file, synced, order, acked, settled, stranded>>
      /\ \A q \in Process \ {p} : job'[q] = job[q]
      /\ ~Owns(p) /\ At(p, "read") /\ job'[p].at = "loaded" /\ job'[p].fd = f
      /\ Len(g) >= Len(file[f]) /\ job'[p].got = g
  BY <1>0 DEF ReadToEnd, Goes, history, TypeOK, Job, At, Owns
<1>2. /\ f \in Range(order) /\ file[f] = Bytes(f) /\ f \in DOMAIN file
      /\ g \in Seq(Blob) /\ Len(g) <= Chunks
      /\ \A k \in DOMAIN g : g[k] = f
  BY <1>0, <1>1 DEF ReadsWhole, LocalsSet, Reading, TypeOK, Job
<1>3. Len(file[f]) = Chunks
  <2>1. file[f] \in Seq(Blob) /\ DOMAIN file[f] = 1..Chunks
    BY <1>0, <1>2, FileFacts DEF Bytes
  <2> QED
    BY <2>1, LenProperties, ChunksAssumption
<1>4. Len(g) = Chunks
  BY <1>1, <1>2, <1>3, LenProperties, ChunksAssumption
<1> HIDE DEF f, g
<1>5. CallsInv' /\ PathInv'
  BY <1>1, <1>2, <1>4, LoadStepKeeps DEF Reading, At
<1> QED
  BY <1>4, <1>5 DEF g

\* A power loss takes the path back to a file that was whole and on disk.
LEMMA PowerLossKeeps ==
    ASSUME IInv, PowerLoss
    PROVE  CallsInv' /\ PathInv'
<1> DEFINE x == dir'[Path]
<1>0. /\ TypeOK /\ Renamed /\ DirsWhole
  BY DEF IInv
<1>1. /\ dir' \in durable /\ durable' = {dir'} /\ synced' = DOMAIN file
      /\ order' = OrderUpTo(x)
      /\ acked' \subseteq Range(order') /\ settled' \subseteq Range(order')
      /\ stranded' = {t \in Tmp : dir'[t] # NoFile}
  BY DEF PowerLoss
<1>2. /\ DOMAIN file' = DOMAIN file
      /\ \A f \in DOMAIN file : f \in synced /\ f \in Range(dir') => file'[f] = file[f]
  BY DEF PowerLoss
<1>3. \A p \in Process : job'[p] = Idle
  BY DEF PowerLoss
<1>4. dir' \in Directory /\ x \in Range(dir')
  BY <1>0, <1>1 DEF TypeOK, Directory, Range
<1>5. CallsInv'
  <2>1. \A p \in Process : /\ ~Making(p)' /\ ~Owns(p)' /\ ~Reading(p)'
                           /\ job'[p].at = "idle" /\ job'[p].got = <<>>
    BY <1>3 DEF Idle, Making, Owns, Reading, At
  <2> QED
    BY <2>1 DEF CallsInv, LocalsSet, BlobsOwned, FilesWritten, ReadsWhole, At
<1>6. NoLitter'
  BY <1>1 DEF NoLitter
<1>7. \A p \in Process : ~At(p, "settle")'
  BY <1>3 DEF At, Idle
<1>8. CASE x = NoFile
  <2>1. order' = <<>> /\ DOMAIN order' = {} /\ Range(order') = {}
    BY <1>1, <1>8, EmptySeq DEF OrderUpTo, Range
  <2>2. DirsWhole'
    BY <1>1, <1>8 DEF DirsWhole
  <2>3. Renamed'
    BY <1>1, <1>7, <1>8, <2>1 DEF Renamed
  <2>4. SettledBehind'
    BY <1>1, <2>1 DEF SettledBehind
  <2> QED
    BY <1>5, <1>6, <2>2, <2>3, <2>4 DEF PathInv
<1>9. CASE x # NoFile
  <2>1. x \in Range(order) /\ file[x] = Bytes(x) /\ x \in synced /\ x \in DOMAIN file
    BY <1>0, <1>1, <1>9 DEF DirsWhole, TypeOK
  <2>2. file'[x] = Bytes(x)
    BY <1>2, <1>4, <2>1
  <2> DEFINE m == CHOOSE k \in DOMAIN order : order[k] = x
  <2>3. m \in DOMAIN order /\ order[m] = x
    BY <2>1 DEF Range
  <2>4. order' = SubSeq(order, 1, m)
    BY <1>1, <1>9 DEF OrderUpTo
  <2> HIDE DEF m, x
  <2>5. /\ Len(order') = m /\ DOMAIN order' = 1..m
        /\ \A k \in 1..m : k \in DOMAIN order /\ order'[k] = order[k]
    BY <1>0, <2>3, <2>4, Prefix
  <2>6. m \in 1..m
    <3>1. m \in Nat /\ m >= 1
      BY <1>0, <2>3, LenProperties DEF TypeOK
    <3> QED
      BY <3>1
  <2>7. order' # <<>>
    BY <2>5, <2>6, EmptySeq
  <2>8. x \in Range(order') /\ Range(order') \subseteq Range(order)
    BY <2>3, <2>5, <2>6 DEF Range
  <2>9. DirsWhole'
    BY <1>1, <2>1, <2>2, <2>8 DEF DirsWhole, x
  <2>10. Renamed'
    BY <1>0, <1>1, <1>2, <1>7, <2>3, <2>5, <2>6, <2>7, <2>8 DEF Renamed, x
  <2>11. SettledBehind'
    <3> SUFFICES ASSUME NEW b \in settled'
                 PROVE  \E k, n \in DOMAIN order' : k <= n /\ order'[k] = b /\ order'[n] = x
      BY <1>1 DEF SettledBehind, x
    <3>1. PICK k \in DOMAIN order' : order'[k] = b
      BY <1>1 DEF Range
    <3>2. k <= m
      BY <2>5, <3>1
    <3> QED
      BY <2>3, <2>5, <2>6, <3>1, <3>2
  <2> QED
    BY <1>5, <1>6, <2>9, <2>10, <2>11 DEF PathInv
<1> QED
  BY <1>8, <1>9

LEMMA IInvInit == Init => IInv
<1> SUFFICES ASSUME Init PROVE IInv
  OBVIOUS
<1>1. TypeOK
  BY TypeInit
<1>2. /\ \A p \in Process : job[p] = Idle
      /\ dir[Path] = NoFile /\ durable = {dir}
      /\ DOMAIN order = {} /\ order = <<>> /\ Range(order) = {}
      /\ acked = {} /\ settled = {}
      /\ \A t \in Tmp : dir[t] = NoFile
  BY EmptySeq DEF Init, Range
<1>3. \A p \in Process : /\ ~Making(p) /\ ~Owns(p) /\ ~Reading(p)
                         /\ job[p].at = "idle" /\ job[p].got = <<>>
  BY <1>2 DEF Idle, Making, Owns, Reading, At
<1>4. LocalsSet /\ BlobsOwned /\ FilesWritten /\ ReadsWhole
  BY <1>3 DEF LocalsSet, BlobsOwned, FilesWritten, ReadsWhole, At
<1>5. DirsWhole /\ Renamed /\ SettledBehind /\ NoLitter
  BY <1>2, <1>3 DEF DirsWhole, Renamed, SettledBehind, NoLitter, At
<1> QED
  BY <1>1, <1>4, <1>5 DEF IInv

LEMMA IInvNext == IInv /\ [Next]_vars => IInv'
<1> SUFFICES ASSUME IInv, [Next]_vars PROVE IInv'
  OBVIOUS
<1>1. TypeOK'
  BY TypeNext
<1>2. CASE UNCHANGED vars
  BY <1>2 DEF vars, history, IInv, TypeOK, LocalsSet, BlobsOwned, FilesWritten, ReadsWhole,
              DirsWhole, Renamed, SettledBehind, NoLitter, At, Making, Owns, Reading
<1>3. CASE Next
  <2>1. CallsInv' /\ PathInv'
    BY <1>3, BeginSaveKeeps, OpenPathKeeps, CreateTmpKeeps, CallOverKeeps, WriteChunkKeeps,
       SyncFileKeeps, SaveFailsKeeps, RenameKeeps, UnlinkTmpKeeps, SyncDirKeeps,
       SyncDirSkippedKeeps, ReadChunkKeeps, ReadToEndKeeps, PowerLossKeeps
       DEF Next, Proceeds
  <2> QED
    BY <1>1, <2>1 DEF IInv, CallsInv, PathInv
<1> QED
  BY <1>2, <1>3

LEMMA IInvHolds == Spec => []IInv
  BY IInvInit, IInvNext, PTL DEF Spec
-----------------------------------------------------------------------------
(***************************************************************************)
(* What the invariant gives.                                               *)
(***************************************************************************)

\* Every variable of the file system, of the calls and of their history keeps
\* its type, and no file grows longer than a blob (save, load).
THEOREM TypeCorrect == Spec => []TypeOK
<1>1. IInv => TypeOK
  BY DEF IInv
<1> QED
  BY <1>1, IInvHolds, PTL

\* The path holds, now or after a power loss at this moment, no file or one
\* whole blob that is on disk and that nobody can still write to.
THEOREM PathAlwaysWhole == Spec => []PathWhole
<1>1. IInv => PathWhole
  BY DEF IInv, PathWhole, DirsWhole, LocalsSet, BlobsOwned, Making, Owns, At
<1> QED
  BY <1>1, IInvHolds, PTL

\* The temporary name a save holds leads to its own file, also when random
\* suffixes collide: what it renames or unlinks is what it wrote.
THEOREM TmpAlwaysOwned == Spec => []TmpOwned
<1>1. IInv => TmpOwned
  BY TmpsApart DEF IInv, TmpOwned, BlobsOwned
<1> QED
  BY <1>1, IInvHolds, PTL

\* A temporary file that no running save holds is one whose saver was killed, or
\* could not unlink it: no error path of save forgets it.
THEOREM NeverLitters == Spec => []NoLitter
<1>1. IInv => NoLitter
  BY DEF IInv
<1> QED
  BY <1>1, IInvHolds, PTL

\* What a save whose directory fsync succeeded has put at the path is there
\* after any power loss, or what was saved over it.
THEOREM SettledAlwaysSurvives == Spec => []SettledSurvives
<1>1. ASSUME IInv PROVE SettledSurvives
  <2> SUFFICES ASSUME NEW b \in settled, NEW d \in durable
               PROVE  d[Path] # NoFile /\ b \in Range(OrderUpTo(d[Path]))
    BY DEF SettledSurvives, Survives
  <2>0. TypeOK /\ Renamed /\ SettledBehind
    BY <1>1 DEF IInv
  <2>1. PICK k \in DOMAIN order, m \in DOMAIN order :
            k <= m /\ order[k] = b /\ order[m] = d[Path]
    BY <2>0 DEF SettledBehind
  <2>2. d[Path] # NoFile
    <3>1. order[m] \in Blob
      BY <2>0, <2>1, LenProperties, ElementOfSeq DEF TypeOK
    <3> QED
      BY <2>1, <3>1, BlobTyped
  <2>3. (CHOOSE i \in DOMAIN order : order[i] = d[Path]) = m
    BY <2>0, <2>1 DEF Renamed
  <2>4. OrderUpTo(d[Path]) = SubSeq(order, 1, m)
    BY <2>2, <2>3 DEF OrderUpTo
  <2>5. /\ DOMAIN SubSeq(order, 1, m) = 1..m
        /\ \A i \in 1..m : SubSeq(order, 1, m)[i] = order[i]
    BY <2>0, <2>1, Prefix
  <2>6. k \in 1..m
    <3>1. k \in 1..Len(order) /\ m \in 1..Len(order) /\ Len(order) \in Nat
      BY <2>0, <2>1, LenProperties DEF TypeOK
    <3> QED
      BY <2>1, <3>1
  <2> QED
    BY <2>1, <2>2, <2>4, <2>5, <2>6 DEF Range
<1> QED
  BY <1>1, IInvHolds, PTL
-----------------------------------------------------------------------------
(***************************************************************************)
(* The refinement.  Under the invariant the refinement mapping is plain:   *)
(* the file at the path is the blob of the same number, a load has chosen  *)
(* the file it has open, and what it has read in the end is that blob.     *)
(***************************************************************************)
Fallbacks == {d[Path] : d \in durable}
Views == [p \in Process |-> IF Reading(p) THEN job[p].fd ELSE NULL]
Answers == [p \in Process |-> IF At(p, "loaded") THEN job[p].fd ELSE NULL]

Plain ==
    /\ Content(dir[Path]) = dir[Path]
    /\ {Content(d[Path]) : d \in durable} = Fallbacks
    /\ [p \in Process |-> IF At(p, "read") \/ At(p, "loaded") THEN Content(job[p].fd)
                                                              ELSE NULL] = Views
    /\ [p \in Process |-> IF At(p, "loaded") THEN BlobOf(job[p].got) ELSE NULL] = Answers

\* Whole files are told apart by their bytes.
LEMMA BlobOfBytes == \A b \in Blob : BlobOf(Bytes(b)) = b
  BY BytesTell DEF BlobOf

LEMMA MappingPlain == IInv => Plain
<1> SUFFICES ASSUME IInv PROVE Plain
  OBVIOUS
<1>0. TypeOK /\ DirsWhole /\ ReadsWhole /\ LocalsSet
  BY DEF IInv
<1>1. \A d \in durable : Content(d[Path]) = d[Path]
  <2> SUFFICES ASSUME NEW d \in durable, d[Path] # NoFile
               PROVE  Content(d[Path]) = d[Path]
    BY DEF Content
  <2>1. d[Path] \in Blob /\ file[d[Path]] = Bytes(d[Path])
    BY <1>0 DEF DirsWhole, TypeOK, Directory
  <2> QED
    BY <2>1, BlobOfBytes DEF Content
<1>2. \A p \in Process : Reading(p) => Content(job[p].fd) = job[p].fd
  <2> SUFFICES ASSUME NEW p \in Process, Reading(p)
               PROVE  Content(job[p].fd) = job[p].fd
    OBVIOUS
  <2>1. job[p].fd \in Blob /\ file[job[p].fd] = Bytes(job[p].fd)
    BY <1>0, FileFacts DEF ReadsWhole, LocalsSet
  <2> QED
    BY <2>1, BlobOfBytes, BlobTyped DEF Content
<1>3. \A p \in Process : At(p, "loaded") => BlobOf(job[p].got) = job[p].fd
  <2> SUFFICES ASSUME NEW p \in Process, At(p, "loaded")
               PROVE  BlobOf(job[p].got) = job[p].fd
    OBVIOUS
  <2>1. /\ job[p].fd \in Blob /\ job[p].got \in Seq(Blob) /\ Len(job[p].got) = Chunks
        /\ \A k \in DOMAIN job[p].got : job[p].got[k] = job[p].fd
    BY <1>0, FileFacts DEF ReadsWhole, LocalsSet, Reading, TypeOK, Job
  <2>2. job[p].got = Bytes(job[p].fd)
    BY <2>1, AllChunks
  <2> QED
    BY <2>1, <2>2, BlobOfBytes
<1>4. {Content(d[Path]) : d \in durable} = Fallbacks
  BY <1>1 DEF Fallbacks
<1>5. [p \in Process |-> IF At(p, "read") \/ At(p, "loaded") THEN Content(job[p].fd)
                                                             ELSE NULL] = Views
  BY <1>2 DEF Views, Reading
<1>6. [p \in Process |-> IF At(p, "loaded") THEN BlobOf(job[p].got) ELSE NULL] = Answers
  BY <1>3 DEF Answers
<1>7. Content(dir[Path]) = dir[Path]
  BY <1>0, <1>1 DEF TypeOK
<1> QED
  BY <1>4, <1>5, <1>6, <1>7 DEF Plain

\* The steps of AtomicFile, in terms of the plain mapping.
LEMMA PlainSteps ==
    ASSUME Plain, Plain'
    PROVE  /\ /\ dir'[Path] = dir[Path]
              /\ UNCHANGED <<Fallbacks, Views, Answers>>
              => UNCHANGED Promise!vars
           /\ /\ dir'[Path] \in Blob
              /\ Fallbacks' = Fallbacks \cup {dir'[Path]}
              /\ UNCHANGED <<Views, Answers>>
              => Promise!Replace
           /\ /\ Fallbacks' = {dir[Path]}
              /\ dir'[Path] = dir[Path]
              /\ UNCHANGED <<Views, Answers>>
              => Promise!Settle
           /\ /\ dir'[Path] \in Fallbacks
              /\ Fallbacks' = {dir'[Path]}
              /\ Views' = [p \in Process |-> NULL]
              /\ Answers' = [p \in Process |-> NULL]
              => Promise!PowerLoss
           /\ \A p \in Process :
                /\ /\ Views[p] = NULL
                   /\ dir[Path] # NoFile
                   /\ Views' = [Views EXCEPT ![p] = dir[Path]]
                   /\ UNCHANGED <<Fallbacks, Answers>> /\ dir'[Path] = dir[Path]
                   => Promise!Look(p)
                /\ /\ Views[p] # NULL
                   /\ Answers[p] = NULL
                   /\ Answers' = [Answers EXCEPT ![p] = Views[p]]
                   /\ UNCHANGED <<Fallbacks, Views>> /\ dir'[Path] = dir[Path]
                   => Promise!Answer(p)
                /\ /\ Views' = [Views EXCEPT ![p] = NULL]
                   /\ Answers' = [Answers EXCEPT ![p] = NULL]
                   /\ UNCHANGED Fallbacks /\ dir'[Path] = dir[Path]
                   => Promise!Forget(p)
<1>1. dir'[Path] = dir[Path] /\ UNCHANGED <<Fallbacks, Views, Answers>>
      => UNCHANGED Promise!vars
  BY DEF Plain, Promise!vars
<1>2. dir'[Path] \in Blob /\ Fallbacks' = Fallbacks \cup {dir'[Path]}
      /\ UNCHANGED <<Views, Answers>> => Promise!Replace
  BY DEF Plain, Promise!Replace
<1> QED
  BY <1>1, <1>2 DEF Plain, Promise!Settle, Promise!PowerLoss, Promise!Look, Promise!Answer,
                    Promise!Forget

\* What a step that reads nothing leaves alone.
LEMMA ViewsLeft ==
    ASSUME \A q \in Process : /\ Reading(q)' <=> Reading(q)
                              /\ At(q, "loaded")' <=> At(q, "loaded")
                              /\ Reading(q) => job'[q].fd = job[q].fd
    PROVE  UNCHANGED <<Views, Answers>>
<1>1. \A q \in Process : At(q, "loaded") => Reading(q)
  BY DEF Reading
<1>2. Views' = Views
  BY DEF Views
<1>3. Answers' = Answers
  BY <1>1 DEF Answers
<1> QED
  BY <1>2, <1>3

\* A directory operation under a temporary name.
LEMMA FallbacksLeft ==
    ASSUME IInv, dir'[Path] = dir[Path],
           durable' = durable \cup {dir'} \/ durable' = durable
    PROVE  UNCHANGED Fallbacks
<1>1. dir \in durable
  BY DEF IInv, TypeOK
<1>2. \A x : x \in Fallbacks' <=> x \in Fallbacks
  BY <1>1 DEF Fallbacks
<1> QED
  BY <1>2

\* The steps of a save before and after the rename are not seen.
LEMMA QuietSteps ==
    ASSUME IInv, NEW p \in Process,
           \/ BeginSave(p) \/ CreateTmp(p) \/ WriteChunk(p) \/ SyncFile(p)
           \/ WriteOrSyncFails(p) \/ RenameFails(p) \/ UnlinkTmp(p) \/ SyncDirSkipped(p)
           \/ ReadChunk(p)
    PROVE  dir'[Path] = dir[Path] /\ UNCHANGED <<Fallbacks, Views, Answers>>
<1>0. TypeOK /\ LocalsSet
  BY DEF IInv
<1>1. /\ \A q \in Process \ {p} : job'[q] = job[q]
      /\ \/ ~Reading(p) /\ ~Reading(p)'
         \/ At(p, "read") /\ At(p, "read")' /\ job'[p].fd = job[p].fd
  <2>1. CASE BeginSave(p)
    BY <1>0, <2>1 DEF BeginSave, TypeOK, Job, Idle, Reading, At
  <2>2. CASE CreateTmp(p) \/ WriteChunk(p) \/ SyncFile(p) \/ ReadChunk(p)
    BY <1>0, <2>2 DEF CreateTmp, WriteChunk, SyncFile, ReadChunk, Goes, TypeOK, Job, Reading, At
  <2>3. CASE WriteOrSyncFails(p) \/ RenameFails(p) \/ UnlinkTmp(p) \/ SyncDirSkipped(p)
    BY <1>0, <2>3 DEF WriteOrSyncFails, RenameFails, UnlinkTmp, SyncDirSkipped, Goes, Returns,
                      Idle, TypeOK, Job, Reading, At
  <2> QED
    BY <2>1, <2>2, <2>3
<1>2. UNCHANGED <<Views, Answers>>
  BY <1>1, ViewsLeft DEF Reading, At
<1>3. /\ dir'[Path] = dir[Path]
      /\ durable' = durable \cup {dir'} \/ durable' = durable
  <2>1. CASE CreateTmp(p) \/ UnlinkTmp(p)
    <3>1. job[p].tmp \in Tmp /\ job[p].tmp # Path
      BY <1>0, <2>1, NamesAssumption DEF CreateTmp, UnlinkTmp, LocalsSet, Making, At, Path
    <3> QED
      BY <1>0, <2>1, <3>1 DEF CreateTmp, UnlinkTmp, DirBecomes, TypeOK, Directory
  <2>2. CASE ~(CreateTmp(p) \/ UnlinkTmp(p))
    BY <2>2 DEF BeginSave, WriteChunk, SyncFile, WriteOrSyncFails, RenameFails,
                SyncDirSkipped, ReadChunk
  <2> QED
    BY <2>1, <2>2
<1> QED
  BY <1>2, <1>3, FallbacksLeft

\* The rename is the moment at which the file is replaced.
LEMMA RenameReplaces ==
    ASSUME IInv, NEW p \in Process, RenameOverPath(p)
    PROVE  /\ dir'[Path] \in Blob
           /\ Fallbacks' = Fallbacks \cup {dir'[Path]}
           /\ UNCHANGED <<Views, Answers>>
<1>0. TypeOK /\ LocalsSet
  BY DEF IInv
<1>1. job[p].tmp \in Tmp /\ job[p].tmp # Path
  BY <1>0, NamesAssumption DEF RenameOverPath, LocalsSet, Making, At, Path
<1>2. dir'[Path] \in Blob /\ durable' = durable \cup {dir'}
  BY <1>0, <1>1 DEF RenameOverPath, DirBecomes, TypeOK, Directory
<1>3. \A x : x \in Fallbacks' <=> x \in Fallbacks \/ x = dir'[Path]
  BY <1>2 DEF Fallbacks
<1>4. /\ \A q \in Process \ {p} : job'[q] = job[q]
      /\ ~Reading(p) /\ ~Reading(p)'
  BY <1>0 DEF RenameOverPath, Goes, TypeOK, Job, Reading, At
<1>5. UNCHANGED <<Views, Answers>>
  BY <1>4, ViewsLeft DEF Reading, At
<1> QED
  BY <1>2, <1>3, <1>5

LEMMA SyncDirSettles ==
    ASSUME IInv, NEW p \in Process, SyncDir(p)
    PROVE  /\ Fallbacks' = {dir[Path]}
           /\ dir'[Path] = dir[Path]
           /\ UNCHANGED <<Views, Answers>>
<1>1. dir' = dir /\ Fallbacks' = {dir[Path]}
  BY DEF SyncDir, Fallbacks
<1>2. /\ \A q \in Process \ {p} : job'[q] = job[q]
      /\ ~Reading(p) /\ ~Reading(p)'
  BY DEF IInv, SyncDir, Returns, Idle, TypeOK, Job, Reading, At
<1>3. UNCHANGED <<Views, Answers>>
  BY <1>2, ViewsLeft DEF Reading, At
<1> QED
  BY <1>1, <1>3

\* A load has chosen its answer when it has opened the path.
LEMMA OpenPathLooks ==
    ASSUME IInv, NEW p \in Process, OpenPath(p)
    PROVE  /\ Views[p] = NULL
           /\ dir[Path] # NoFile
           /\ Views' = [Views EXCEPT ![p] = dir[Path]]
           /\ UNCHANGED <<Fallbacks, Answers>> /\ dir'[Path] = dir[Path]
<1>1. /\ \A q \in Process \ {p} : job'[q] = job[q]
      /\ job[p].at = "idle" /\ job'[p].at = "read" /\ job'[p].fd = dir[Path]
      /\ dir' = dir /\ durable' = durable /\ dir[Path] # NoFile
  BY DEF IInv, OpenPath, TypeOK, Job, At
<1>2. Views[p] = NULL /\ Views' = [Views EXCEPT ![p] = dir[Path]]
  BY <1>1 DEF Views, Reading, At
<1>3. Answers' = Answers
  BY <1>1 DEF Answers, At
<1> QED
  BY <1>1, <1>2, <1>3, FallbacksLeft

LEMMA ReadToEndAnswers ==
    ASSUME IInv, NEW p \in Process, ReadToEnd(p)
    PROVE  /\ Views[p] # NULL
           /\ Answers[p] = NULL
           /\ Answers' = [Answers EXCEPT ![p] = Views[p]]
           /\ UNCHANGED <<Fallbacks, Views>> /\ dir'[Path] = dir[Path]
<1>1. /\ \A q \in Process \ {p} : job'[q] = job[q]
      /\ job[p].at = "read" /\ job'[p].at = "loaded" /\ job'[p].fd = job[p].fd
      /\ dir' = dir /\ durable' = durable
  BY DEF IInv, ReadToEnd, Goes, TypeOK, Job, At
<1>2. job[p].fd \in Blob
  BY <1>1, FileFacts DEF IInv, LocalsSet, Reading, At
<1>3. job[p].fd # NULL
  BY <1>2, NamesAssumption, ChunksAssumption DEF Blob
<1>4. Views[p] # NULL /\ Views' = Views /\ Views[p] = job[p].fd
  BY <1>1, <1>3 DEF Views, Reading, At
<1>5. Answers[p] = NULL /\ Answers' = [Answers EXCEPT ![p] = Views[p]]
  BY <1>1, <1>4 DEF Answers, At
<1> QED
  BY <1>1, <1>4, <1>5, FallbacksLeft

\* A call that is over, or dead, no longer has an answer.
LEMMA CallOverForgets ==
    ASSUME IInv, NEW p \in Process, CreateFails(p) \/ LoadReturns(p) \/ Kill(p)
    PROVE  /\ Views' = [Views EXCEPT ![p] = NULL]
           /\ Answers' = [Answers EXCEPT ![p] = NULL]
           /\ UNCHANGED Fallbacks /\ dir'[Path] = dir[Path]
<1>1. /\ \A q \in Process \ {p} : job'[q] = job[q]
      /\ job'[p].at = "idle"
      /\ dir' = dir /\ durable' = durable
  BY DEF IInv, CreateFails, LoadReturns, Kill, Returns, Idle, TypeOK
<1>2. Views' = [Views EXCEPT ![p] = NULL] /\ Answers' = [Answers EXCEPT ![p] = NULL]
  BY <1>1 DEF Views, Answers, Reading, At
<1> QED
  BY <1>1, <1>2, FallbacksLeft

LEMMA PowerLossFallsBack ==
    ASSUME PowerLoss
    PROVE  /\ dir'[Path] \in Fallbacks
           /\ Fallbacks' = {dir'[Path]}
           /\ Views' = [p \in Process |-> NULL]
           /\ Answers' = [p \in Process |-> NULL]
<1>1. dir' \in durable /\ durable' = {dir'} /\ \A p \in Process : job'[p].at = "idle"
  BY DEF PowerLoss, Idle
<1> QED
  BY <1>1 DEF Fallbacks, Views, Answers, Reading, At

LEMMA StepKeepsPromise ==
    ASSUME IInv, Plain, Plain', [Next]_vars
    PROVE  [Promise!Next]_(Promise!vars)
<1>1. CASE UNCHANGED vars
  <2>1. UNCHANGED <<dir, Fallbacks, Views, Answers>>
    BY <1>1 DEF vars, Fallbacks, Views, Answers, Reading, At
  <2> QED
    BY <2>1, PlainSteps
<1>2. CASE PowerLoss
  <2>1. Promise!PowerLoss
    BY <1>2, PowerLossFallsBack, PlainSteps
  <2> QED
    BY <2>1 DEF Promise!Next
<1>3. ASSUME NEW p \in Process, BeginSave(p) \/ OpenPath(p) \/ Proceeds(p) \/ Kill(p)
      PROVE  [Promise!Next]_(Promise!vars)
  <2>1. CASE RenameOverPath(p)
    <3>1. Promise!Replace
      BY <2>1, RenameReplaces, PlainSteps
    <3> QED
      BY <3>1 DEF Promise!Next
  <2>2. CASE SyncDir(p)
    <3>1. Promise!Settle
      BY <2>2, SyncDirSettles, PlainSteps
    <3> QED
      BY <3>1 DEF Promise!Next
  <2>3. CASE OpenPath(p)
    <3>1. Promise!Look(p)
      BY <2>3, OpenPathLooks, PlainSteps
    <3> QED
      BY <3>1 DEF Promise!Next
  <2>4. CASE ReadToEnd(p)
    <3>1. Promise!Answer(p)
      BY <2>4, ReadToEndAnswers, PlainSteps
    <3> QED
      BY <3>1 DEF Promise!Next
  <2>5. CASE CreateFails(p) \/ LoadReturns(p) \/ Kill(p)
    <3>1. Promise!Forget(p)
      BY <2>5, CallOverForgets, PlainSteps
    <3> QED
      BY <3>1 DEF Promise!Next
  <2>6. CASE \/ BeginSave(p) \/ CreateTmp(p) \/ WriteChunk(p) \/ SyncFile(p)
             \/ WriteOrSyncFails(p) \/ RenameFails(p) \/ UnlinkTmp(p) \/ SyncDirSkipped(p)
             \/ ReadChunk(p)
    BY <2>6, QuietSteps, PlainSteps
  <2> QED
    BY <1>3, <2>1, <2>2, <2>3, <2>4, <2>5, <2>6 DEF Proceeds
<1> QED
  BY <1>1, <1>2, <1>3 DEF Next

\* save and load implement AtomicFile: what a load returns was the content of
\* the path at one moment of the load, whatever saves, crashes and power
\* losses came in between (save, load).
THEOREM PromiseKept == Spec => KeepsPromise
<1>1. Init => Promise!Init
  <2> SUFFICES ASSUME Init PROVE Promise!Init
    OBVIOUS
  <2>1. Plain
    BY IInvInit, MappingPlain
  <2>2. dir[Path] = NoFile /\ Fallbacks = {NoFile}
    BY DEF Init, Fallbacks
  <2>3. Views = [p \in Process |-> NULL] /\ Answers = [p \in Process |-> NULL]
    BY DEF Init, Idle, Views, Answers, Reading, At
  <2> QED
    BY <2>1, <2>2, <2>3 DEF Plain, Promise!Init
<1>2. IInv /\ Plain /\ Plain' /\ [Next]_vars => [Promise!Next]_(Promise!vars)
  BY StepKeepsPromise
<1> QED
  BY <1>1, <1>2, IInvHolds, MappingPlain, PTL DEF Spec, KeepsPromise, Promise!FSpec
=============================================================================
