----------------------------- MODULE LockedMemory -----------------------------
(***************************************************************************)
(* The locked memory that holds the subkeys of open vaults                 *)
(* (src/mem/locked_secret.rs), as create, open, change_password and drop   *)
(* use it.                                                                 *)
(*                                                                         *)
(* The pages, the quota RLIMIT_MEMLOCK and the allocator belong to the     *)
(* process: threads that work on different vaults take pages, lock them    *)
(* and give them back between each other's steps.  A call on one vault is  *)
(* exclusive, so every vault i has at most one pending call.               *)
(*                                                                         *)
(* The memsec crate is external.  malloc_sized gives a page that no other  *)
(* allocation shares, and tries to lock it without saying whether it could *)
(* (guard pages are never locked and not modelled); munlock is not         *)
(* counted; free wipes, unlocks and releases.                              *)
(*                                                                         *)
(* A definition whose name begins with Slip is the one below it with a     *)
(* mistake in it; no action uses it.                                       *)
(***************************************************************************)
EXTENDS SequencesExt

CONSTANTS
    Inst,       \* vaults of one process
    Page,       \* pages the allocator can hand out
    LockLimit,  \* RLIMIT_MEMLOCK, in pages
    NULL

VARIABLES
    allocated,  \* pages that malloc_sized has handed out
    locked,     \* pages that cannot be swapped out
    bytes,      \* bytes[p]: the subkeys that can be read on page p
    vault,      \* vault[i]: the two containers of an open vault, or NULL
    call        \* call[i]: the pending call on i, with its locals, or NULL

vars == <<allocated, locked, bytes, vault, call>>

\* Of one vault at most three generations of keys exist at a time: a version
\* 1 file's, the new one's, and none or one that is being released.
Generation == 0..3
Subkey == [inst : Inst, gen : Generation, kind : {"enc", "hmac"}]
LockedSecret == [page : Page, key : Subkey]
KeyPair == [enc : LockedSecret, hmac : LockedSecret]
Containers(pair) == <<pair.enc, pair.hmac>>

CallName == {"create", "open_legacy", "change_password", "drop"}
Call == [call : CallName, gen : Generation,
         at : {"malloc", "lock", "copy", "built", "wipe", "free"},
         page : Page \cup {NULL}, base : KeyPair \cup {NULL},
         got : Seq(LockedSecret), gone : Seq(LockedSecret)]

ASSUME MemoryAssumption ==
    /\ LockLimit \in Nat
    /\ IsFiniteSet(Page)
    /\ IsFiniteSet(Inst)
    /\ NULL \notin Page
    /\ NULL \notin KeyPair
    /\ NULL \notin Call

Init ==
    /\ allocated = {}
    /\ locked = {}
    /\ bytes = [p \in Page |-> {}]
    /\ vault = [i \in Inst |-> NULL]
    /\ call = [i \in Inst |-> NULL]

-----------------------------------------------------------------------------
\* Containers that exist: of an open vault, of the vault that open has read
\* from a version 1 file, of the index under construction.  The ones in
\* `gone' are being dropped.
Live(i) ==
    (IF vault[i] = NULL THEN {} ELSE ToSet(Containers(vault[i])))
    \cup (IF call[i] = NULL THEN {}
          ELSE ToSet(call[i].got)
               \cup IF call[i].base = NULL THEN {}
                    ELSE ToSet(Containers(call[i].base)))

\* A fresh salt gives subkeys that are in use nowhere else.
FreshGeneration(i) ==
    CHOOSE g \in Generation :
        \A p \in Page : \A k \in bytes[p] : k.inst = i => k.gen # g

At(i, step) == call[i] # NULL /\ call[i].at = step

\* Where a call goes when it fails or has replaced its keys: to the release
\* of the containers that are dropped with its locals, one after the other.
Releasing(c, containers) ==
    IF containers = <<>> THEN NULL
    ELSE [c EXCEPT !.at = "wipe", !.page = NULL, !.got = <<>>, !.base = NULL,
                   !.gone = containers]

Fails(i) ==
    LET c == call[i] IN
    call' = [call EXCEPT ![i] =
        Releasing(c, c.got \o IF c.base = NULL THEN <<>> ELSE Containers(c.base))]

BuildIndex(c, gen, base) ==
    [c EXCEPT !.at = "malloc", !.gen = gen, !.got = <<>>, !.base = base]

\* Every call that sets up keys: create and open on an absent vault, and
\* change_password on an open one.  The derivation fails before it: no state.
BeginKeySetup(i, name) ==
    /\ call[i] = NULL
    /\ name # "drop"
    /\ name = "change_password" <=> vault[i] # NULL
    /\ call' = [call EXCEPT ![i] =
                  [call |-> name, at |-> "malloc", gen |-> FreshGeneration(i),
                   page |-> NULL, got |-> <<>>, base |-> NULL, gone |-> <<>>]]
    /\ UNCHANGED <<allocated, locked, bytes, vault>>

-----------------------------------------------------------------------------
(***************************************************************************)
(* LockedSecret::new, once for each of the two subkeys.                    *)
(***************************************************************************)
WithinQuota(p) == p \in locked \/ Cardinality(locked) < LockLimit

\* Slip: an allocation that may share a page with another one.
SlipFreePages == Page

FreePages == Page \ allocated

MallocSized(i) ==
    /\ At(i, "malloc")
    /\ \E p \in FreePages :
        /\ allocated' = allocated \cup {p}
        /\ locked' = IF WithinQuota(p) THEN locked \cup {p} ELSE locked
        /\ call' = [call EXCEPT ![i].at = "lock", ![i].page = p]
    /\ UNCHANGED <<bytes, vault>>

AllocFails(i) ==
    /\ At(i, "malloc")
    /\ Fails(i)
    /\ UNCHANGED <<allocated, locked, bytes, vault>>

\* Slip: trusts that malloc_sized has locked the page.
SlipMlock(i) ==
    /\ At(i, "lock")
    /\ call' = [call EXCEPT ![i].at = "copy"]
    /\ UNCHANGED <<allocated, locked, bytes, vault>>

\* Locks again, to learn whether the page is locked.  Another thread may have
\* given a page back since malloc_sized tried.
Mlock(i) ==
    /\ At(i, "lock")
    /\ WithinQuota(call[i].page)
    /\ locked' = locked \cup {call[i].page}
    /\ call' = [call EXCEPT ![i].at = "copy"]
    /\ UNCHANGED <<allocated, bytes, vault>>

\* Slip: returns the error without freeing the region.
SlipMlockFails(i) ==
    /\ At(i, "lock")
    /\ ~WithinQuota(call[i].page)
    /\ Fails(i)
    /\ UNCHANGED <<allocated, locked, bytes, vault>>

\* Slip: tries again until another thread has given a page back.
SlipMlockRetries(i) ==
    /\ At(i, "lock")
    /\ ~WithinQuota(call[i].page)
    /\ allocated' = allocated \ {call[i].page}
    /\ call' = [call EXCEPT ![i].at = "malloc", ![i].page = NULL]
    /\ UNCHANGED <<locked, bytes, vault>>

MlockFails(i) ==
    /\ At(i, "lock")
    /\ ~WithinQuota(call[i].page)
    /\ allocated' = allocated \ {call[i].page}
    /\ Fails(i)
    /\ UNCHANGED <<locked, bytes, vault>>

\* fill(0) over memsec's garbage, then the copy of the subkey.
CopyFromSlice(i) ==
    /\ At(i, "copy")
    /\ LET c == call[i]
           key == [inst |-> i, gen |-> c.gen,
                   kind |-> IF c.got = <<>> THEN "enc" ELSE "hmac"]
       IN /\ bytes' = [bytes EXCEPT ![c.page] = @ \cup {key}]
          /\ call' = [call EXCEPT
                        ![i].got = Append(@, [page |-> c.page, key |-> key]),
                        ![i].page = NULL,
                        ![i].at = IF c.got = <<>> THEN "malloc" ELSE "built"]
    /\ UNCHANGED <<allocated, locked, vault>>

-----------------------------------------------------------------------------
(***************************************************************************)
(* What becomes of a pair of containers.                                   *)
(***************************************************************************)
NewPair(i) == [enc |-> call[i].got[1], hmac |-> call[i].got[2]]

\* create and open return the vault.
ReturnVault(i) ==
    /\ At(i, "built")
    /\ call[i].call = "create"
    /\ vault' = [vault EXCEPT ![i] = NewPair(i)]
    /\ call' = [call EXCEPT ![i] = NULL]
    /\ UNCHANGED <<allocated, locked, bytes>>

\* open on a version 1 file has the file's keys, and begins the re-key.
RekeyLegacy(i) ==
    /\ At(i, "built")
    /\ call[i].call = "open_legacy"
    /\ call[i].base = NULL
    /\ call' = [call EXCEPT ![i] =
                  BuildIndex(@, FreshGeneration(i), NewPair(i))]
    /\ UNCHANGED <<allocated, locked, bytes, vault>>

\* A re-key holds both pairs while it goes through the entries.
Rekeying(i) ==
    /\ At(i, "built")
    /\ call[i].call = "change_password" \/ call[i].base # NULL

ReencryptFails(i) ==
    /\ Rekeying(i)
    /\ Fails(i)
    /\ UNCHANGED <<allocated, locked, bytes, vault>>

\* self.index = new_vault.index drops the old index.
ReplaceIndex(i) ==
    /\ Rekeying(i)
    /\ LET old == IF vault[i] = NULL THEN call[i].base ELSE vault[i] IN
       /\ vault' = [vault EXCEPT ![i] = NewPair(i)]
       /\ call' = [call EXCEPT ![i] = Releasing(@, Containers(old))]
    /\ UNCHANGED <<allocated, locked, bytes>>

DropVault(i) ==
    /\ call[i] = NULL
    /\ vault[i] # NULL
    /\ vault' = [vault EXCEPT ![i] = NULL]
    /\ call' = [call EXCEPT ![i] =
                  [call |-> "drop", at |-> "wipe", gen |-> 0, page |-> NULL,
                   got |-> <<>>, base |-> NULL,
                   gone |-> Containers(vault[i])]]
    /\ UNCHANGED <<allocated, locked, bytes>>

-----------------------------------------------------------------------------
(***************************************************************************)
(* Drop for LockedRegion: wipe while the page is locked, then free, which  *)
(* unlocks the page and gives it back.                                     *)
(***************************************************************************)
Zeroize(i) ==
    /\ At(i, "wipe")
    /\ LET s == Head(call[i].gone) IN
       bytes' = [bytes EXCEPT ![s.page] = @ \ {s.key}]
    /\ call' = [call EXCEPT ![i].at = "free"]
    /\ UNCHANGED <<allocated, locked, vault>>

\* Slip: gives the page back without unlocking it.
SlipFreeRegion(i) ==
    /\ At(i, "free")
    /\ LET s == Head(call[i].gone) IN
       /\ allocated' = allocated \ {s.page}
       /\ bytes' = [bytes EXCEPT ![s.page] = @ \ {s.key}]
    /\ call' = [call EXCEPT ![i] = Releasing(@, Tail(call[i].gone))]
    /\ UNCHANGED <<locked, vault>>

FreeRegion(i) ==
    /\ At(i, "free")
    /\ LET s == Head(call[i].gone) IN
       /\ locked' = locked \ {s.page}
       /\ allocated' = allocated \ {s.page}
       /\ bytes' = [bytes EXCEPT ![s.page] = @ \ {s.key}]
    /\ call' = [call EXCEPT ![i] = Releasing(@, Tail(call[i].gone))]
    /\ UNCHANGED vault

\* A step inside a call.
Step(i) ==
    \/ MallocSized(i)
    \/ AllocFails(i)
    \/ Mlock(i)
    \/ MlockFails(i)
    \/ CopyFromSlice(i)
    \/ ReturnVault(i)
    \/ RekeyLegacy(i)
    \/ ReencryptFails(i)
    \/ ReplaceIndex(i)
    \/ Zeroize(i)
    \/ FreeRegion(i)

Next ==
    \E i \in Inst :
        \/ \E name \in CallName : BeginKeySetup(i, name)
        \/ DropVault(i)
        \/ Step(i)

Spec == Init /\ [][Next]_vars

\* A thread inside a call keeps running: no step of a call waits for another
\* thread.  Nobody has to begin a call.
FairSpec == Spec /\ \A i \in Inst : WF_vars(Step(i))

-----------------------------------------------------------------------------
IsCall(c) ==
    /\ c \in Call
    /\ Len(c.got) <= 2
    /\ (c.gone # <<>>) = (c.at \in {"wipe", "free"})
    /\ (c.page # NULL) = (c.at \in {"lock", "copy"})

TypeOK ==
    /\ allocated \subseteq Page
    /\ locked \subseteq allocated
    /\ bytes \in [Page -> SUBSET Subkey]
    /\ vault \in [Inst -> KeyPair \cup {NULL}]
    /\ call \in [Inst -> Call \cup {NULL}]
    /\ \A i \in Inst : call[i] # NULL => IsCall(call[i])

\* As long as a container lives, its page is locked and holds its subkey and
\* nothing else, whatever other threads lock and unlock meanwhile
\* (LockedRegion: "unlocking one container can never unlock another"); and an
\* open vault has the two subkeys of one derivation.
KeysStayLocked ==
    /\ \A i \in Inst : \A s \in Live(i) :
        /\ s.page \in locked
        /\ bytes[s.page] = {s.key}
    /\ \A i \in Inst : vault[i] # NULL =>
        /\ vault[i].enc.key = [vault[i].hmac.key EXCEPT !.kind = "enc"]
        /\ vault[i].hmac.key.kind = "hmac"

\* No subkey is ever on a page that can be swapped out or that the allocator
\* may hand to someone else: not while it is copied in, not on the way out of
\* a call that failed, not while a container is dropped.
NoKeyUnlocked ==
    \A p \in Page : bytes[p] # {} => p \in locked /\ p \in allocated

\* The quota: the pages in use are those of the containers that live or are
\* being dropped, and the one a call has in hand; two for an open vault, four
\* while it is re-keyed (DESIGN.md section 4).  No failure leaks one.
PagesOf(i) ==
    {s.page : s \in Live(i)}
    \cup (IF call[i] = NULL THEN {}
          ELSE {s.page : s \in ToSet(call[i].gone)}
               \cup ({call[i].page} \ {NULL}))

PagesAccounted ==
    /\ allocated = UNION {PagesOf(i) : i \in Inst}
    /\ \A i \in Inst :
        Cardinality(PagesOf(i))
            <= IF call[i] # NULL THEN 4 ELSE IF vault[i] # NULL THEN 2 ELSE 0

\* Every call returns, whatever the other threads do with the quota: a page
\* that cannot be locked is an error, not a reason to wait.
CallsReturn == \A i \in Inst : call[i] # NULL ~> call[i] = NULL
=============================================================================
