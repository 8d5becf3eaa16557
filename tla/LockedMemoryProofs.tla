-------------------------- MODULE LockedMemoryProofs --------------------------
(***************************************************************************)
(* Proofs about LockedMemory, for every number of vaults, pages and lock   *)
(* quota: a subkey is never on a page that is not locked or not allocated, *)
(* whatever the threads do between each other's steps, and no call leaks a *)
(* page.                                                                   *)
(*                                                                         *)
(* The invariant says of every page that is allocated what it is for: one  *)
(* container of one vault, or the one that one call is about to build.     *)
(* What is locked and what can be read follows from the purpose.           *)
(***************************************************************************)
EXTENDS LockedMemory, SequenceTheorems, FiniteSetTheorems, TLAPS

\* The containers a vault, and the vault read from a version 1 file, consist
\* of; those of the index under construction; those on their way out.
VaultPair(i) == IF vault[i] = NULL THEN {} ELSE {vault[i].enc, vault[i].hmac}
BasePair(i) ==
    IF call[i] = NULL THEN {}
    ELSE IF call[i].base = NULL THEN {} ELSE {call[i].base.enc, call[i].base.hmac}
Got(i) == IF call[i] = NULL THEN {} ELSE ToSet(call[i].got)
Gone(i) == IF call[i] = NULL THEN {} ELSE ToSet(call[i].gone)
Own(i) == VaultPair(i) \cup BasePair(i) \cup Got(i) \cup Gone(i)

\* The page that has been allocated for a container that does not exist yet,
\* and the container whose page has been wiped and is still there.
Hand(i) == IF call[i] = NULL THEN {} ELSE {call[i].page} \ {NULL}
Wiped(i) == IF At(i, "free") THEN {Head(call[i].gone)} ELSE {}

\* No page serves two purposes.
PagesTold ==
    \A i, j \in Inst :
        /\ \A s \in Own(i), t \in Own(j) : s.page = t.page => i = j /\ s = t
        /\ \A p \in Hand(i) : /\ \A t \in Own(j) : t.page # p
                              /\ p \in Hand(j) => i = j

\* What is on a page, for each purpose it may serve.
BytesTold ==
    /\ \A i \in Inst :
        /\ \A s \in Own(i) : /\ s.page \in locked
                             /\ s \notin Wiped(i) => bytes[s.page] = {s.key}
                             /\ s \in Wiped(i) => bytes[s.page] = {}
        /\ \A p \in Hand(i) : bytes[p] = {} /\ (At(i, "copy") => p \in locked)
    /\ \A p \in Page \ allocated : bytes[p] = {}

\* Page p is one of i's.
UsedBy(p, i) == p \in Hand(i) \/ \E s \in Own(i) : s.page = p

MemoryInv ==
    /\ allocated \subseteq Page
    /\ locked \subseteq allocated
    /\ bytes \in [Page -> SUBSET Subkey]
    /\ \A p \in Page : p \in allocated <=> \E i \in Inst : UsedBy(p, i)
    /\ PagesTold
    /\ BytesTold

\* No container comes twice.
Apart(s) == \A k, m \in DOMAIN s : s[k] = s[m] => k = m

\* The two subkeys of one derivation for vault i.
PairOf(x, i) ==
    /\ x.hmac.key.inst = i
    /\ x.hmac.key.kind = "hmac"
    /\ x.enc.key = [x.hmac.key EXCEPT !.kind = "enc"]

SettingUp(i) == call[i] # NULL /\ call[i].at \in {"malloc", "lock", "copy", "built"}
Dropping(i) == call[i] # NULL /\ call[i].at \in {"wipe", "free"}

\* The k-th container a call builds is for this key.
KindAt(k) == IF k = 1 THEN "enc" ELSE "hmac"

\* While a call sets up keys it has what it has built so far, and the keys of
\* a version 1 file; the vault is there in change_password alone.
SetUp(i) ==
    LET c == call[i] IN
    /\ c.call # "drop"
    /\ c.call = "change_password" <=> vault[i] # NULL
    /\ c.base # NULL => PairOf(c.base, i) /\ c.call = "open_legacy"
    /\ \A k \in DOMAIN c.got :
        /\ c.got[k].key = [inst |-> i, gen |-> c.gen,
                           kind |-> KindAt(k)]
        /\ c.got[k] \notin VaultPair(i) \cup BasePair(i)
    /\ Len(c.got) = 2 <=> c.at = "built"

\* While it drops containers it has nothing else, and each of them once.
Dropped(i) ==
    LET c == call[i] IN
    /\ c.got = <<>> /\ c.base = NULL
    /\ Len(c.gone) <= IF vault[i] = NULL THEN 4 ELSE 2
    /\ \A s \in Gone(i) : s.key.inst = i /\ s \notin VaultPair(i)
    /\ Apart(c.gone)

CallInv(i) ==
    /\ vault[i] \in KeyPair \cup {NULL}
    /\ call[i] \in Call \cup {NULL}
    /\ call[i] # NULL => IsCall(call[i])
    /\ vault[i] # NULL => PairOf(vault[i], i)
    /\ SettingUp(i) => SetUp(i)
    /\ Dropping(i) => Dropped(i)

IInv ==
    /\ vault \in [Inst -> KeyPair \cup {NULL}]
    /\ call \in [Inst -> Call \cup {NULL}]
    /\ MemoryInv
    /\ \A i \in Inst : CallInv(i)
-----------------------------------------------------------------------------
(***************************************************************************)
(* Sequences of containers.                                                *)
(***************************************************************************)
LEMMA PairContainers ==
    ASSUME NEW x \in KeyPair
    PROVE  /\ Containers(x) \in Seq(LockedSecret)
           /\ Len(Containers(x)) = 2
           /\ DOMAIN Containers(x) = 1..2
           /\ Containers(x)[1] = x.enc /\ Containers(x)[2] = x.hmac
           /\ ToSet(Containers(x)) = {x.enc, x.hmac}
           /\ x.enc \in LockedSecret /\ x.hmac \in LockedSecret
<1>1. x.enc \in LockedSecret /\ x.hmac \in LockedSecret
  BY DEF KeyPair
<1>2. /\ Containers(x) \in Seq(LockedSecret)
      /\ Len(Containers(x)) = 2
      /\ Containers(x)[1] = x.enc /\ Containers(x)[2] = x.hmac
  BY <1>1 DEF Containers
<1>3. DOMAIN Containers(x) = 1..2
  BY <1>2, LenProperties
<1>4. \A k : k \in 1..2 <=> k = 1 \/ k = 2
  OBVIOUS
<1>5. ToSet(Containers(x)) = {x.enc, x.hmac}
  BY <1>2, <1>3, <1>4 DEF ToSet
<1> QED
  BY <1>1, <1>2, <1>3, <1>5

\* What is dropped when a call fails: one list of containers after another.
LEMMA Joined ==
    ASSUME NEW s \in Seq(LockedSecret), NEW t \in Seq(LockedSecret),
           Apart(s), Apart(t), ToSet(s) \cap ToSet(t) = {}
    PROVE  /\ s \o t \in Seq(LockedSecret)
           /\ Len(s \o t) = Len(s) + Len(t)
           /\ ToSet(s \o t) = ToSet(s) \cup ToSet(t)
           /\ Apart(s \o t)
<1> DEFINE u == s \o t
<1>1. /\ Len(s) \in Nat /\ DOMAIN s = 1..Len(s)
      /\ Len(t) \in Nat /\ DOMAIN t = 1..Len(t)
  BY LenProperties
<1>2. /\ u \in Seq(LockedSecret)
      /\ Len(u) = Len(s) + Len(t)
      /\ \A k \in 1..(Len(s) + Len(t)) : u[k] = IF k <= Len(s) THEN s[k] ELSE t[k - Len(s)]
  BY ConcatProperties
<1>3. DOMAIN u = 1..(Len(s) + Len(t))
  BY <1>2, LenProperties
<1> HIDE DEF u
<1>4. \A k \in DOMAIN u : \/ k \in DOMAIN s /\ u[k] = s[k]
                          \/ k - Len(s) \in DOMAIN t /\ u[k] = t[k - Len(s)]
  BY <1>1, <1>2, <1>3
<1>5. /\ \A k \in DOMAIN s : k \in DOMAIN u /\ u[k] = s[k]
      /\ \A k \in DOMAIN t : k + Len(s) \in DOMAIN u /\ u[k + Len(s)] = t[k]
  BY <1>1, <1>2, <1>3
<1>6. ToSet(u) = ToSet(s) \cup ToSet(t)
  <2>1. \A x : x \in ToSet(u) => x \in ToSet(s) \cup ToSet(t)
    BY <1>4 DEF ToSet
  <2>2. \A x : x \in ToSet(s) \cup ToSet(t) => x \in ToSet(u)
    BY <1>5 DEF ToSet
  <2> QED
    BY <2>1, <2>2
<1>7. Apart(u)
  <2> SUFFICES ASSUME NEW k \in DOMAIN u, NEW m \in DOMAIN u, u[k] = u[m]
               PROVE  k = m
    BY DEF Apart
  <2>1. \A a \in DOMAIN s, b \in DOMAIN t : s[a] # t[b]
    BY DEF ToSet
  <2>2. CASE k \in DOMAIN s /\ u[k] = s[k]
    BY <1>4, <2>1, <2>2 DEF Apart
  <2>3. CASE k - Len(s) \in DOMAIN t /\ u[k] = t[k - Len(s)]
    <3>1. m - Len(s) \in DOMAIN t /\ u[m] = t[m - Len(s)]
      BY <1>4, <2>1, <2>3
    <3>2. k - Len(s) = m - Len(s)
      BY <2>3, <3>1 DEF Apart
    <3>3. k \in Int /\ m \in Int
      BY <1>1, <1>3
    <3> QED
      BY <1>1, <3>2, <3>3
  <2> QED
    BY <1>4, <2>2, <2>3
<1> QED
  BY <1>2, <1>6, <1>7 DEF u

\* The next container is dropped.
LEMMA TailOf ==
    ASSUME NEW s \in Seq(LockedSecret), s # <<>>, Apart(s)
    PROVE  /\ Head(s) \in LockedSecret /\ Head(s) \in ToSet(s)
           /\ Tail(s) \in Seq(LockedSecret)
           /\ Len(Tail(s)) = Len(s) - 1
           /\ ToSet(Tail(s)) = ToSet(s) \ {Head(s)}
           /\ Apart(Tail(s))
<1> DEFINE t == Tail(s)
<1>1. Len(s) \in Nat \ {0} /\ DOMAIN s = 1..Len(s)
  BY EmptySeq, LenProperties
<1>2. /\ Head(s) \in LockedSecret
      /\ t \in Seq(LockedSecret)
      /\ Len(t) = Len(s) - 1
      /\ \A k \in 1..Len(t) : t[k] = s[k + 1]
  BY HeadTailProperties
<1>3. DOMAIN t = 1..(Len(s) - 1) /\ Head(s) = s[1]
  BY <1>2, LenProperties
<1> HIDE DEF t
<1>4. \A k \in DOMAIN t : k + 1 \in DOMAIN s /\ t[k] = s[k + 1] /\ k + 1 # 1
  BY <1>1, <1>2, <1>3
<1>5. \A k \in DOMAIN s : k = 1 \/ (k - 1 \in DOMAIN t /\ t[k - 1] = s[k])
  BY <1>1, <1>2, <1>3
<1>6. 1 \in DOMAIN s
  BY <1>1
<1>7. ToSet(t) = ToSet(s) \ {Head(s)}
  <2>1. ASSUME NEW x \in ToSet(t)
        PROVE  x \in ToSet(s) \ {Head(s)}
    BY <1>3, <1>4, <1>6 DEF ToSet, Apart
  <2>2. ASSUME NEW x \in ToSet(s) \ {Head(s)}
        PROVE  x \in ToSet(t)
    BY <1>3, <1>5 DEF ToSet
  <2> QED
    BY <2>1, <2>2
<1>8. Apart(t)
  <2> SUFFICES ASSUME NEW k \in DOMAIN t, NEW m \in DOMAIN t, t[k] = t[m]
               PROVE  k = m
    BY DEF Apart
  <2>1. k + 1 = m + 1
    BY <1>4 DEF Apart
  <2> QED
    BY <1>1, <1>3, <2>1
<1> QED
  BY <1>2, <1>3, <1>6, <1>7, <1>8 DEF t, ToSet
-----------------------------------------------------------------------------
(***************************************************************************)
(* Steps that move containers and leave the memory alone.                  *)
(***************************************************************************)
\* A step of the call on i: nothing changes for the other vaults.
OnlyOn(i) == \A j \in Inst \ {i} : vault'[j] = vault[j] /\ call'[j] = call[j]

LEMMA OthersLeft ==
    ASSUME IInv, NEW i \in Inst, OnlyOn(i), NEW j \in Inst \ {i}
    PROVE  /\ Own(j)' = Own(j) /\ Hand(j)' = Hand(j) /\ Wiped(j)' = Wiped(j)
           /\ At(j, "copy")' <=> At(j, "copy")
           /\ CallInv(j)'
<1>1. vault'[j] = vault[j] /\ call'[j] = call[j]
  BY DEF OnlyOn
<1>2. /\ VaultPair(j)' = VaultPair(j) /\ BasePair(j)' = BasePair(j)
      /\ Got(j)' = Got(j) /\ Gone(j)' = Gone(j)
      /\ Hand(j)' = Hand(j) /\ Wiped(j)' = Wiped(j)
      /\ At(j, "copy")' <=> At(j, "copy")
  BY <1>1 DEF VaultPair, BasePair, Got, Gone, Hand, Wiped, At
<1>3. CallInv(j)
  BY DEF IInv
<1>4. CallInv(j)'
  BY <1>1, <1>2, <1>3 DEF CallInv, SettingUp, Dropping, SetUp, Dropped
<1> QED
  BY <1>2, <1>4 DEF Own

LEMMA MemoryKept ==
    ASSUME IInv, NEW i \in Inst, OnlyOn(i), UNCHANGED <<allocated, locked, bytes>>,
           Own(i)' = Own(i), Hand(i)' = Hand(i), Wiped(i)' = Wiped(i),
           At(i, "copy")' => At(i, "copy")
    PROVE  MemoryInv'
<1>1. \A j \in Inst : /\ Own(j)' = Own(j) /\ Hand(j)' = Hand(j) /\ Wiped(j)' = Wiped(j)
                      /\ At(j, "copy")' => At(j, "copy")
  BY OthersLeft
<1>2. MemoryInv
  BY DEF IInv
<1>3. \A j \in Inst : \A p : UsedBy(p, j)' <=> UsedBy(p, j)
  BY <1>1 DEF UsedBy
<1>4. PagesTold'
  BY <1>1, <1>2 DEF MemoryInv, PagesTold
<1>5. BytesTold'
  BY <1>1, <1>2 DEF MemoryInv, BytesTold
<1> QED
  BY <1>2, <1>3, <1>4, <1>5 DEF MemoryInv

LEMMA UpToTwo == \A n \in Nat : n <= 2 => n \in 0..2
  OBVIOUS

\* The keys of the containers that a call has built.
LEMMA KeysBuilt ==
    ASSUME NEW i, SetUp(i), NEW k \in DOMAIN call[i].got
    PROVE  /\ call[i].got[k].key.inst = i
           /\ call[i].got[k].key.gen = call[i].gen
           /\ call[i].got[k].key.kind = KindAt(k)
           /\ call[i].got[k] \notin VaultPair(i) \cup BasePair(i)
<1>1. /\ call[i].got[k].key = [inst |-> i, gen |-> call[i].gen, kind |-> KindAt(k)]
      /\ call[i].got[k] \notin VaultPair(i) \cup BasePair(i)
  BY DEF SetUp
<1> QED
  BY <1>1

\* What a call has at each of its steps.
LEMMA CallFacts ==
    ASSUME NEW i \in Inst, CallInv(i), call[i] # NULL
    PROVE  /\ call[i] \in Call
           /\ call[i].got \in Seq(LockedSecret) /\ Len(call[i].got) \in 0..2
           /\ DOMAIN call[i].got = 1..Len(call[i].got)
           /\ Got(i) = ToSet(call[i].got) /\ Gone(i) = ToSet(call[i].gone)
           /\ SettingUp(i) => Gone(i) = {} /\ SetUp(i) /\ Wiped(i) = {}
           /\ Dropping(i) => /\ Got(i) = {} /\ BasePair(i) = {} /\ Hand(i) = {}
                             /\ Dropped(i) /\ call[i].gone # <<>>
           /\ call[i].at \in {"lock", "copy"} =>
                 call[i].page \in Page /\ Hand(i) = {call[i].page}
           /\ call[i].at \notin {"lock", "copy"} => Hand(i) = {}
<1>1. /\ call[i] \in Call /\ IsCall(call[i])
      /\ SettingUp(i) => SetUp(i)
      /\ Dropping(i) => Dropped(i)
  BY DEF CallInv
<1>2. /\ call[i].got \in Seq(LockedSecret) /\ Len(call[i].got) \in Nat
      /\ DOMAIN call[i].got = 1..Len(call[i].got)
  BY <1>1, LenProperties DEF Call
<1>3. Len(call[i].got) \in 0..2
  <2>1. Len(call[i].got) <= 2
    BY <1>1 DEF IsCall
  <2> QED
    BY <1>2, <2>1, UpToTwo
<1>4. ToSet(<<>>) = {}
  BY DEF ToSet
<1>5. call[i].page \in Page \cup {NULL}
  BY <1>1 DEF Call
<1> QED
  BY <1>1, <1>2, <1>3, <1>4, <1>5
     DEF IsCall, Got, Gone, BasePair, Hand, Wiped, At, SettingUp, Dropping, Dropped

\* The two subkeys of a derivation are not the same container.
LEMMA KindsApart ==
    ASSUME NEW i \in Inst, NEW x \in KeyPair, PairOf(x, i)
    PROVE  /\ x.enc # x.hmac /\ Apart(Containers(x))
           /\ x.enc.key.inst = i /\ x.hmac.key.inst = i
           /\ x.enc.key.gen = x.hmac.key.gen
<1>1. /\ x.hmac.key \in Subkey /\ x.enc.key = [x.hmac.key EXCEPT !.kind = "enc"]
      /\ x.hmac.key.inst = i /\ x.hmac.key.kind = "hmac"
  BY DEF PairOf, KeyPair, LockedSecret
<1>2. /\ x.enc.key.kind = "enc" /\ x.enc.key.inst = i /\ x.enc.key.gen = x.hmac.key.gen
  BY <1>1 DEF Subkey
<1>3. x.enc # x.hmac
  BY <1>1, <1>2
<1>4. Apart(Containers(x))
  BY <1>3, PairContainers DEF Apart
<1> QED
  BY <1>1, <1>2, <1>3, <1>4

\* So are the containers of the index under construction.
LEMMA GotApart ==
    ASSUME NEW i \in Inst, CallInv(i), SettingUp(i)
    PROVE  Apart(call[i].got)
<1>1. /\ DOMAIN call[i].got = 1..Len(call[i].got) /\ Len(call[i].got) \in 0..2
      /\ \A k \in DOMAIN call[i].got :
            call[i].got[k].key.kind = KindAt(k)
  BY CallFacts, KeysBuilt DEF SettingUp
<1>2. \A k \in DOMAIN call[i].got : k = 1 \/ k = 2
  BY <1>1
<1> QED
  BY <1>1, <1>2 DEF Apart, KindAt

\* A call that fails drops what it has built and what it has read.
LEMMA FailsDrops ==
    ASSUME IInv, NEW i \in Inst, SettingUp(i), Fails(i), vault' = vault
    PROVE  /\ OnlyOn(i) /\ CallInv(i)'
           /\ Own(i)' = Own(i) /\ Hand(i)' = {} /\ Wiped(i)' = {}
           /\ ~At(i, "copy")'
<1> DEFINE c == call[i]
           g == c.got
           b == IF c.base = NULL THEN <<>> ELSE Containers(c.base)
           u == g \o b
<1>0. CallInv(i) /\ call[i] # NULL /\ i \in DOMAIN call
  BY DEF IInv, SettingUp
<1>1. /\ c \in Call /\ g \in Seq(LockedSecret) /\ Len(g) \in 0..2
      /\ Got(i) = ToSet(g) /\ Gone(i) = {} /\ SetUp(i)
  BY <1>0, CallFacts
<1>2. c.base # NULL => /\ c.base \in KeyPair /\ PairOf(c.base, i) /\ vault[i] = NULL
  BY <1>1 DEF SetUp, Call
<1>3. /\ b \in Seq(LockedSecret) /\ Apart(b) /\ ToSet(b) = BasePair(i)
      /\ Len(b) = IF c.base = NULL THEN 0 ELSE 2
  <2>1. CASE c.base = NULL
    BY <1>0, <2>1, EmptySeq DEF BasePair, Apart, ToSet
  <2>2. CASE c.base # NULL
    BY <1>0, <1>2, <2>2, PairContainers, KindsApart DEF BasePair
  <2> QED
    BY <2>1, <2>2
<1>4. Apart(g)
  BY <1>0, GotApart
<1>5. /\ \A s \in ToSet(g) : s.key.inst = i /\ s \notin VaultPair(i) \cup BasePair(i)
      /\ \A s \in BasePair(i) : s.key.inst = i /\ s \notin VaultPair(i)
  <2>1. \A s \in ToSet(g) : s.key.inst = i /\ s \notin VaultPair(i) \cup BasePair(i)
    BY <1>1, KeysBuilt DEF ToSet
  <2>2. \A s \in BasePair(i) : s.key.inst = i /\ s \notin VaultPair(i)
    BY <1>2, KindsApart DEF BasePair, VaultPair
  <2> QED
    BY <2>1, <2>2
<1>6. call' = [call EXCEPT ![i] = Releasing(c, u)]
  BY DEF Fails
<1> HIDE DEF g, b
<1>7. /\ u \in Seq(LockedSecret) /\ Apart(u)
      /\ ToSet(u) = Got(i) \cup BasePair(i)
      /\ Len(u) <= IF vault[i] = NULL THEN 4 ELSE 2
      /\ \A s \in ToSet(u) : s.key.inst = i /\ s \notin VaultPair(i)
  <2>1. ToSet(g) \cap ToSet(b) = {}
    BY <1>3, <1>5
  <2>2. /\ u \in Seq(LockedSecret) /\ Apart(u)
        /\ ToSet(u) = ToSet(g) \cup ToSet(b) /\ Len(u) = Len(g) + Len(b)
    BY <1>1, <1>3, <1>4, <2>1, Joined
  <2> QED
    BY <1>1, <1>2, <1>3, <1>5, <2>2
<1> HIDE DEF u
<1>8. OnlyOn(i)
  BY <1>6 DEF OnlyOn
<1>9. VaultPair(i)' = VaultPair(i)
  BY DEF VaultPair
<1>10. CASE u = <<>>
  <2>1. call'[i] = NULL /\ ToSet(u) = {}
    BY <1>0, <1>6, <1>10 DEF Releasing, ToSet
  <2> QED
    BY <1>0, <1>1, <1>7, <1>8, <1>9, <2>1
       DEF CallInv, SettingUp, Dropping, Own, BasePair, Got, Gone, Hand, Wiped, At
<1>11. CASE u # <<>>
  <2>1. call'[i] = [c EXCEPT !.at = "wipe", !.page = NULL, !.got = <<>>, !.base = NULL,
                             !.gone = u]
    BY <1>0, <1>6, <1>11 DEF Releasing
  <2>2. <<>> \in Seq(LockedSecret) /\ Len(<<>>) = 0 /\ ToSet(<<>>) = {}
    BY EmptySeq DEF ToSet
  <2>3. /\ call'[i] \in Call /\ call'[i].at = "wipe" /\ call'[i].page = NULL
        /\ call'[i].got = <<>> /\ call'[i].base = NULL /\ call'[i].gone = u
    BY <1>1, <1>7, <2>1, <2>2 DEF Call
  <2>4. call'[i] # NULL
    BY <2>3, MemoryAssumption
  <2>5. IsCall(call[i])'
    BY <1>11, <2>2, <2>3 DEF IsCall
  <2>6. /\ BasePair(i)' = {} /\ Got(i)' = {} /\ Gone(i)' = ToSet(u)
        /\ Hand(i)' = {} /\ Wiped(i)' = {} /\ ~At(i, "copy")'
    BY <2>2, <2>3, <2>4 DEF BasePair, Got, Gone, Hand, Wiped, At
  <2>7. Dropped(i)'
    BY <1>7, <1>9, <2>3, <2>6 DEF Dropped
  <2>8. CallInv(i)'
    BY <1>0, <2>3, <2>4, <2>5, <2>7 DEF CallInv, SettingUp
  <2> QED
    BY <1>1, <1>7, <1>8, <1>9, <2>6, <2>8 DEF Own
<1> QED
  BY <1>10, <1>11

\* Whatever a vault or a call has, its subkeys are of that vault.
LEMMA OwnKeys ==
    ASSUME IInv, NEW i \in Inst, NEW s \in Own(i)
    PROVE  s \in LockedSecret /\ s.key.inst = i
<1>0. CallInv(i)
  BY DEF IInv
<1>1. CASE s \in VaultPair(i)
  BY <1>0, <1>1, KindsApart, PairContainers DEF CallInv, VaultPair
<1>2. ASSUME call[i] # NULL
      PROVE  SettingUp(i) \/ Dropping(i)
  BY <1>0, <1>2 DEF CallInv, SettingUp, Dropping, Call
<1>3. CASE s \in BasePair(i)
  <2>1. call[i] # NULL /\ call[i].base # NULL /\ s \in {call[i].base.enc, call[i].base.hmac}
    BY <1>3 DEF BasePair
  <2>2. SettingUp(i)
    BY <1>0, <1>2, <2>1 DEF CallInv, Dropped
  <2>3. call[i].base \in KeyPair /\ PairOf(call[i].base, i)
    BY <1>0, <2>1, <2>2 DEF CallInv, SetUp, Call
  <2> QED
    BY <2>1, <2>3, KindsApart, PairContainers
<1>4. CASE s \in Got(i)
  <2>1. call[i] # NULL /\ s \in ToSet(call[i].got)
    BY <1>4 DEF Got
  <2>2. SettingUp(i)
    BY <1>0, <1>2, <1>4, <2>1, CallFacts
  <2>3. PICK k \in DOMAIN call[i].got : s = call[i].got[k]
    BY <2>1 DEF ToSet
  <2>4. SetUp(i) /\ call[i].got \in Seq(LockedSecret) /\ DOMAIN call[i].got = 1..Len(call[i].got)
    BY <1>0, <2>1, <2>2, CallFacts
  <2> QED
    BY <2>3, <2>4, KeysBuilt, ElementOfSeq
<1>5. CASE s \in Gone(i)
  <2>1. call[i] # NULL /\ s \in ToSet(call[i].gone)
    BY <1>5 DEF Gone
  <2>2. Dropping(i)
    BY <1>0, <1>2, <1>5, <2>1, CallFacts
  <2>3. PICK k \in DOMAIN call[i].gone : s = call[i].gone[k]
    BY <2>1 DEF ToSet
  <2>4. call[i].gone \in Seq(LockedSecret)
    BY <1>0, <2>1 DEF CallInv, Call
  <2>5. s \in LockedSecret
    BY <2>3, <2>4, ElementOfSeq, LenProperties
  <2> QED
    BY <1>0, <1>5, <2>2, <2>5 DEF CallInv, Dropped
<1> QED
  BY <1>1, <1>3, <1>4, <1>5 DEF Own

\* As long as all that vault i has is of one generation, another is free.
LEMMA GenerationFree ==
    ASSUME IInv, NEW i \in Inst, NEW gen, \A s \in Own(i) : s.key.gen = gen
    PROVE  FreshGeneration(i) \in Generation
<1>1. PICK g \in Generation : g # gen
  <2>1. 0 \in Generation /\ 1 \in Generation /\ 0 # 1
    BY DEF Generation
  <2> QED
    BY <2>1
<1>2. ASSUME NEW p \in Page, NEW k \in bytes[p], k.inst = i
      PROVE  k.gen # g
  <2>1. p \in allocated
    BY <1>2 DEF IInv, MemoryInv, BytesTold
  <2>2. PICK j \in Inst : UsedBy(p, j)
    BY <2>1 DEF IInv, MemoryInv
  <2>3. p \notin Hand(j)
    BY <1>2, <2>2 DEF IInv, MemoryInv, BytesTold
  <2>4. PICK s \in Own(j) : s.page = p
    BY <2>2, <2>3 DEF UsedBy
  <2>5. k = s.key
    <3>1. bytes[p] = {} \/ bytes[p] = {s.key}
      BY <2>4 DEF IInv, MemoryInv, BytesTold
    <3> QED
      BY <1>2, <3>1
  <2>6. j = i
    BY <1>2, <2>5, OwnKeys
  <2> QED
    BY <1>1, <2>4, <2>5, <2>6
<1> QED
  BY <1>1, <1>2 DEF FreshGeneration

\* The containers that a call has built are a vault's.
LEMMA NewPairFacts ==
    ASSUME NEW i \in Inst, CallInv(i), At(i, "built")
    PROVE  /\ NewPair(i) \in KeyPair /\ PairOf(NewPair(i), i)
           /\ Got(i) = {NewPair(i).enc, NewPair(i).hmac}
           /\ NewPair(i).hmac.key.gen = call[i].gen
<1> DEFINE g == call[i].got
<1>1. /\ g \in Seq(LockedSecret) /\ DOMAIN g = 1..Len(g) /\ Got(i) = ToSet(g)
      /\ SetUp(i) /\ Len(g) = 2
  BY CallFacts DEF At, SettingUp, SetUp
<1>2. /\ 1 \in DOMAIN g /\ 2 \in DOMAIN g /\ \A k \in DOMAIN g : k = 1 \/ k = 2
  BY <1>1
<1>3. /\ g[1].key = [inst |-> i, gen |-> call[i].gen, kind |-> "enc"]
      /\ g[2].key = [inst |-> i, gen |-> call[i].gen, kind |-> "hmac"]
  <2>1. /\ g[1].key = [inst |-> i, gen |-> call[i].gen, kind |-> KindAt(1)]
        /\ g[2].key = [inst |-> i, gen |-> call[i].gen, kind |-> KindAt(2)]
    BY <1>1, <1>2 DEF SetUp
  <2> QED
    BY <2>1 DEF KindAt
<1>4. /\ NewPair(i).enc = g[1] /\ NewPair(i).hmac = g[2]
      /\ NewPair(i) = [enc |-> g[1], hmac |-> g[2]]
  BY DEF NewPair
<1>5. g[1] \in LockedSecret /\ g[2] \in LockedSecret
  BY <1>1, <1>2, ElementOfSeq
<1>6. ToSet(g) = {g[1], g[2]}
  BY <1>2 DEF ToSet
<1>7. /\ g[2].key.inst = i /\ g[2].key.kind = "hmac" /\ g[2].key.gen = call[i].gen
      /\ g[1].key = [g[2].key EXCEPT !.kind = "enc"]
  BY <1>3
<1> HIDE DEF g
<1>8. NewPair(i) \in KeyPair
  BY <1>4, <1>5 DEF KeyPair
<1>9. PairOf(NewPair(i), i)
  BY <1>4, <1>7 DEF PairOf
<1> QED
  BY <1>1, <1>4, <1>6, <1>7, <1>8, <1>9

\* A pair that is no longer used is dropped.
LEMMA PairDropped ==
    ASSUME NEW i \in Inst, NEW x \in KeyPair, PairOf(x, i),
           call'[i] \in Call, call'[i].at = "wipe", call'[i].page = NULL,
           call'[i].got = <<>>, call'[i].base = NULL, call'[i].gone = Containers(x),
           (vault[i])' \in KeyPair \cup {NULL},
           (vault[i])' # NULL => PairOf(vault[i], i)',
           {x.enc, x.hmac} \cap VaultPair(i)' = {}
    PROVE  /\ CallInv(i)'
           /\ Own(i)' = VaultPair(i)' \cup {x.enc, x.hmac}
           /\ Hand(i)' = {} /\ Wiped(i)' = {} /\ ~At(i, "copy")'
<1>1. /\ Containers(x) \in Seq(LockedSecret) /\ Len(Containers(x)) = 2
      /\ ToSet(Containers(x)) = {x.enc, x.hmac} /\ Apart(Containers(x))
      /\ \A s \in {x.enc, x.hmac} : s.key.inst = i
  BY PairContainers, KindsApart
<1>2. <<>> \in Seq(LockedSecret) /\ ToSet(<<>>) = {} /\ Len(<<>>) <= 2 /\ Containers(x) # <<>>
  <2>1. <<>> \in Seq(LockedSecret) /\ Len(<<>>) = 0
    BY EmptySeq
  <2>2. ToSet(<<>>) = {}
    BY DEF ToSet
  <2>3. Len(<<>>) <= 2
    BY <2>1
  <2>4. Containers(x) # <<>>
    BY DEF Containers
  <2> QED
    BY <2>1, <2>2, <2>3, <2>4
<1>3. call'[i] # NULL
  BY MemoryAssumption
<1>4. IsCall(call[i])'
  BY <1>2 DEF IsCall
<1>5. /\ BasePair(i)' = {} /\ Got(i)' = {} /\ Gone(i)' = {x.enc, x.hmac}
      /\ Hand(i)' = {} /\ Wiped(i)' = {} /\ ~At(i, "copy")'
  BY <1>1, <1>2, <1>3 DEF BasePair, Got, Gone, Hand, Wiped, At
<1>6. Dropped(i)'
  <2>1. Len(Containers(x)) <= 4 /\ Len(Containers(x)) <= 2
    BY <1>1
  <2>2. \A s \in Gone(i)' : s.key.inst = i /\ s \notin VaultPair(i)'
    BY <1>1, <1>5
  <2> QED
    BY <1>1, <2>1, <2>2 DEF Dropped
<1>7. CallInv(i)'
  BY <1>3, <1>4, <1>6 DEF CallInv, SettingUp
<1> QED
  BY <1>5, <1>7 DEF Own
-----------------------------------------------------------------------------
LEMMA BeginKeySetupKeeps ==
    ASSUME IInv, NEW i \in Inst, NEW name \in CallName, BeginKeySetup(i, name)
    PROVE  OnlyOn(i) /\ CallInv(i)' /\ MemoryInv'
<1> DEFINE c == [call |-> name, at |-> "malloc", gen |-> FreshGeneration(i),
                 page |-> NULL, got |-> <<>>, base |-> NULL, gone |-> <<>>]
<1>0. CallInv(i) /\ i \in DOMAIN call
  BY DEF IInv
<1>1. /\ call[i] = NULL /\ name # "drop" /\ (name = "change_password" <=> vault[i] # NULL)
      /\ call' = [call EXCEPT ![i] = c]
      /\ UNCHANGED <<allocated, locked, bytes, vault>>
  BY DEF BeginKeySetup
<1>2. FreshGeneration(i) \in Generation
  <2>1. \A s \in Own(i) : s.key.gen = vault[i].hmac.key.gen
    BY <1>0, <1>1, KindsApart DEF Own, VaultPair, BasePair, Got, Gone, CallInv
  <2> QED
    BY <2>1, GenerationFree
<1>3. <<>> \in Seq(LockedSecret) /\ Len(<<>>) = 0
  BY EmptySeq
<1>4. ToSet(<<>>) = {}
  BY DEF ToSet
<1>5. /\ call'[i] \in Call /\ call'[i].call = name /\ call'[i].at = "malloc"
      /\ call'[i].page = NULL /\ call'[i].got = <<>> /\ call'[i].base = NULL
      /\ call'[i].gone = <<>>
  BY <1>0, <1>1, <1>2, <1>3 DEF Call
<1>6. call'[i] # NULL
  BY <1>5, MemoryAssumption
<1>7. /\ VaultPair(i)' = VaultPair(i) /\ BasePair(i)' = {} /\ Got(i)' = {} /\ Gone(i)' = {}
      /\ Hand(i)' = {} /\ Wiped(i)' = {} /\ ~At(i, "copy")'
  BY <1>1, <1>4, <1>5, <1>6 DEF VaultPair, BasePair, Got, Gone, Hand, Wiped, At
<1>8. Own(i)' = Own(i) /\ Hand(i)' = Hand(i) /\ Wiped(i)' = Wiped(i)
  BY <1>1, <1>7 DEF Own, BasePair, Got, Gone, Hand, Wiped, At
<1>9. OnlyOn(i)
  BY <1>1 DEF OnlyOn
<1>10. IsCall(call[i])'
  BY <1>3, <1>5 DEF IsCall
<1>11. SetUp(i)'
  <2>1. Len(<<>>) # 2 /\ DOMAIN <<>> = {}
    BY <1>3
  <2> QED
    BY <1>1, <1>5, <2>1 DEF SetUp
<1>12. CallInv(i)'
  BY <1>0, <1>1, <1>5, <1>6, <1>10, <1>11 DEF CallInv, Dropping
<1> QED
  BY <1>1, <1>7, <1>8, <1>9, <1>12, MemoryKept

LEMMA FailureKeeps ==
    ASSUME IInv, NEW i \in Inst, AllocFails(i) \/ ReencryptFails(i)
    PROVE  OnlyOn(i) /\ CallInv(i)' /\ MemoryInv'
<1>1. /\ call[i] # NULL /\ call[i].at \in {"malloc", "built"} /\ SettingUp(i)
      /\ Fails(i)
      /\ UNCHANGED <<allocated, locked, bytes, vault>>
  BY DEF AllocFails, ReencryptFails, Rekeying, At, SettingUp
<1>2. Hand(i) = {} /\ Wiped(i) = {}
  BY <1>1, CallFacts DEF IInv
<1>3. /\ OnlyOn(i) /\ CallInv(i)' /\ Own(i)' = Own(i)
      /\ Hand(i)' = {} /\ Wiped(i)' = {} /\ ~At(i, "copy")'
  BY <1>1, FailsDrops
<1> QED
  BY <1>1, <1>2, <1>3, MemoryKept

LEMMA ReturnVaultKeeps ==
    ASSUME IInv, NEW i \in Inst, ReturnVault(i)
    PROVE  OnlyOn(i) /\ CallInv(i)' /\ MemoryInv'
<1>0. /\ CallInv(i) /\ i \in DOMAIN call /\ i \in DOMAIN vault
      /\ SettingUp(i) /\ call[i] # NULL /\ At(i, "built")
  BY DEF IInv, ReturnVault, At, SettingUp
<1>1. /\ call'[i] = NULL /\ vault'[i] = NewPair(i)
      /\ call[i].call = "create"
      /\ UNCHANGED <<allocated, locked, bytes>> /\ OnlyOn(i)
  BY <1>0 DEF ReturnVault, OnlyOn
<1>2. /\ NewPair(i) \in KeyPair /\ PairOf(NewPair(i), i)
      /\ Got(i) = {NewPair(i).enc, NewPair(i).hmac} /\ NewPair(i) # NULL
  BY <1>0, NewPairFacts, MemoryAssumption
<1>3. /\ VaultPair(i) = {} /\ BasePair(i) = {} /\ Gone(i) = {}
      /\ Hand(i) = {} /\ Wiped(i) = {}
  BY <1>0, <1>1, CallFacts DEF SetUp, VaultPair, BasePair, At
<1>4. /\ VaultPair(i)' = Got(i) /\ BasePair(i)' = {} /\ Got(i)' = {} /\ Gone(i)' = {}
      /\ Hand(i)' = {} /\ Wiped(i)' = {} /\ ~At(i, "copy")'
  BY <1>1, <1>2 DEF VaultPair, BasePair, Got, Gone, Hand, Wiped, At
<1>5. CallInv(i)'
  <2>1. PairOf(vault[i], i)'
    BY <1>1, <1>2 DEF PairOf
  <2> QED
    BY <1>1, <1>2, <2>1 DEF CallInv, SettingUp, Dropping
<1>6. Own(i)' = Own(i)
  BY <1>3, <1>4 DEF Own
<1> QED
  BY <1>1, <1>3, <1>4, <1>5, <1>6, MemoryKept

LEMMA RekeyLegacyKeeps ==
    ASSUME IInv, NEW i \in Inst, RekeyLegacy(i)
    PROVE  OnlyOn(i) /\ CallInv(i)' /\ MemoryInv'
<1> DEFINE c == call[i]
           x == NewPair(i)
           gen == FreshGeneration(i)
<1>0. /\ CallInv(i) /\ i \in DOMAIN call
      /\ SettingUp(i) /\ call[i] # NULL /\ At(i, "built")
  BY DEF IInv, RekeyLegacy, At, SettingUp
<1>1. /\ call' = [call EXCEPT ![i] = BuildIndex(call[i], gen, x)]
      /\ c.call = "open_legacy" /\ c.base = NULL
      /\ UNCHANGED <<allocated, locked, bytes, vault>>
  BY <1>0 DEF RekeyLegacy
<1>2. /\ x \in KeyPair /\ PairOf(x, i) /\ Got(i) = {x.enc, x.hmac} /\ x # NULL
      /\ x.hmac.key.gen = c.gen /\ x.enc.key.gen = c.gen
  BY <1>0, NewPairFacts, KindsApart, MemoryAssumption
<1>3. /\ VaultPair(i) = {} /\ BasePair(i) = {} /\ Gone(i) = {} /\ vault[i] = NULL
      /\ Hand(i) = {} /\ Wiped(i) = {} /\ c \in Call /\ c.gone = <<>>
  <2>1. /\ SetUp(i) /\ c \in Call /\ Gone(i) = {} /\ Hand(i) = {} /\ Wiped(i) = {}
    BY <1>0, CallFacts DEF At
  <2>2. c.gone = <<>>
    BY <1>0 DEF CallInv, IsCall, At
  <2> QED
    BY <1>0, <1>1, <2>1, <2>2 DEF SetUp, VaultPair, BasePair
<1>4. gen \in Generation
  <2>1. \A s \in Own(i) : s.key.gen = c.gen
    BY <1>2, <1>3 DEF Own
  <2> QED
    BY <2>1, GenerationFree
<1>5. <<>> \in Seq(LockedSecret) /\ Len(<<>>) = 0
  BY EmptySeq
<1>6. ToSet(<<>>) = {}
  BY DEF ToSet
<1> HIDE DEF x, gen
<1>7. /\ call'[i] \in Call /\ call'[i].call = "open_legacy" /\ call'[i].at = "malloc"
      /\ call'[i].page = c.page /\ call'[i].got = <<>> /\ call'[i].base = x
      /\ call'[i].gone = <<>>
  BY <1>0, <1>1, <1>2, <1>3, <1>4, <1>5 DEF Call, BuildIndex
<1>8. call'[i] # NULL
  BY <1>7, MemoryAssumption
<1>9. c.page = NULL
  BY <1>0 DEF CallInv, IsCall, At
<1>10. /\ VaultPair(i)' = {} /\ BasePair(i)' = {x.enc, x.hmac} /\ Got(i)' = {} /\ Gone(i)' = {}
       /\ Hand(i)' = {} /\ Wiped(i)' = {} /\ ~At(i, "copy")'
  BY <1>1, <1>2, <1>3, <1>6, <1>7, <1>8, <1>9 DEF VaultPair, BasePair, Got, Gone, Hand, Wiped, At
<1>11. Own(i)' = Own(i)
  BY <1>2, <1>3, <1>10 DEF Own
<1>12. OnlyOn(i)
  BY <1>1 DEF OnlyOn
<1>13. IsCall(call[i])'
  BY <1>5, <1>7, <1>9 DEF IsCall
<1>14. SetUp(i)'
  <2>1. Len(<<>>) # 2 /\ DOMAIN <<>> = {}
    BY <1>5
  <2>2. PairOf(call[i].base, i)'
    BY <1>2, <1>7 DEF PairOf
  <2> QED
    BY <1>1, <1>3, <1>7, <2>1, <2>2 DEF SetUp
<1>15. CallInv(i)'
  BY <1>0, <1>1, <1>3, <1>7, <1>8, <1>13, <1>14 DEF CallInv, Dropping
<1> QED
  BY <1>1, <1>3, <1>10, <1>11, <1>12, <1>15, MemoryKept

LEMMA ReplaceIndexKeeps ==
    ASSUME IInv, NEW i \in Inst, ReplaceIndex(i)
    PROVE  OnlyOn(i) /\ CallInv(i)' /\ MemoryInv'
<1> DEFINE x == NewPair(i)
           old == IF vault[i] = NULL THEN call[i].base ELSE vault[i]
<1>0. /\ CallInv(i) /\ i \in DOMAIN call /\ i \in DOMAIN vault
      /\ SettingUp(i) /\ call[i] # NULL /\ At(i, "built")
  BY DEF IInv, ReplaceIndex, Rekeying, At, SettingUp
<1>1. /\ vault'[i] = x /\ OnlyOn(i)
      /\ call'[i] = Releasing(call[i], Containers(old))
      /\ call[i].call = "change_password" \/ call[i].base # NULL
      /\ UNCHANGED <<allocated, locked, bytes>>
  BY <1>0 DEF ReplaceIndex, Rekeying, OnlyOn
<1>2. /\ x \in KeyPair /\ PairOf(x, i) /\ Got(i) = {x.enc, x.hmac} /\ x # NULL
  BY <1>0, NewPairFacts, MemoryAssumption
<1>3. /\ SetUp(i) /\ Gone(i) = {} /\ Hand(i) = {} /\ Wiped(i) = {} /\ call[i] \in Call
      /\ Got(i) = ToSet(call[i].got)
  BY <1>0, CallFacts DEF At
<1>4. /\ old \in KeyPair /\ PairOf(old, i)
      /\ VaultPair(i) \cup BasePair(i) = {old.enc, old.hmac}
  BY <1>0, <1>1, <1>3 DEF SetUp, VaultPair, BasePair, CallInv, Call
<1>5. Got(i) \cap (VaultPair(i) \cup BasePair(i)) = {}
  BY <1>3, KeysBuilt DEF ToSet
<1> HIDE DEF x, old
<1>6. Containers(old) # <<>>
  BY DEF Containers
<1>7. /\ call'[i] \in Call /\ call'[i].at = "wipe" /\ call'[i].page = NULL
      /\ call'[i].got = <<>> /\ call'[i].base = NULL /\ call'[i].gone = Containers(old)
  <2>1. call'[i] = [call[i] EXCEPT !.at = "wipe", !.page = NULL, !.got = <<>>, !.base = NULL,
                                   !.gone = Containers(old)]
    BY <1>1, <1>6 DEF Releasing
  <2>2. Containers(old) \in Seq(LockedSecret) /\ <<>> \in Seq(LockedSecret)
    BY <1>4, PairContainers, EmptySeq
  <2> QED
    BY <1>3, <2>1, <2>2 DEF Call
<1>8. VaultPair(i)' = {x.enc, x.hmac} /\ PairOf(vault[i], i)'
  BY <1>1, <1>2 DEF VaultPair, PairOf
<1>9. /\ CallInv(i)'
      /\ Own(i)' = VaultPair(i)' \cup {old.enc, old.hmac}
      /\ Hand(i)' = {} /\ Wiped(i)' = {} /\ ~At(i, "copy")'
  <2>1. {old.enc, old.hmac} \cap VaultPair(i)' = {}
    BY <1>2, <1>4, <1>5, <1>8
  <2> QED
    BY <1>1, <1>2, <1>4, <1>7, <1>8, <2>1, PairDropped
<1>10. Own(i)' = Own(i)
  BY <1>2, <1>3, <1>4, <1>8, <1>9 DEF Own
<1> QED
  BY <1>1, <1>3, <1>9, <1>10, MemoryKept

LEMMA DropVaultKeeps ==
    ASSUME IInv, NEW i \in Inst, DropVault(i)
    PROVE  OnlyOn(i) /\ CallInv(i)' /\ MemoryInv'
<1> DEFINE v == vault[i]
           c == [call |-> "drop", at |-> "wipe", gen |-> 0, page |-> NULL,
                 got |-> <<>>, base |-> NULL, gone |-> Containers(v)]
<1>0. /\ CallInv(i) /\ i \in DOMAIN call /\ i \in DOMAIN vault
      /\ call[i] = NULL /\ v # NULL
  BY DEF IInv, DropVault
<1>1. /\ vault'[i] = NULL /\ call'[i] = c /\ OnlyOn(i)
      /\ UNCHANGED <<allocated, locked, bytes>>
  BY <1>0 DEF DropVault, OnlyOn
<1>2. v \in KeyPair /\ PairOf(v, i) /\ VaultPair(i) = {v.enc, v.hmac}
  BY <1>0 DEF CallInv, VaultPair
<1>3. c \in Call
  BY <1>2, PairContainers, EmptySeq DEF Call, CallName, Generation
<1>4. VaultPair(i)' = {}
  BY <1>1 DEF VaultPair
<1>5. /\ call'[i] \in Call /\ call'[i].at = "wipe" /\ call'[i].page = NULL
      /\ call'[i].got = <<>> /\ call'[i].base = NULL /\ call'[i].gone = Containers(v)
  BY <1>1, <1>3
<1> HIDE DEF v, c
<1>6. /\ CallInv(i)'
      /\ Own(i)' = VaultPair(i)' \cup {v.enc, v.hmac}
      /\ Hand(i)' = {} /\ Wiped(i)' = {} /\ ~At(i, "copy")'
  BY <1>1, <1>2, <1>4, <1>5, PairDropped
<1>7. Own(i)' = Own(i) /\ Hand(i) = {} /\ Wiped(i) = {}
  BY <1>0, <1>2, <1>4, <1>6 DEF Own, BasePair, Got, Gone, Hand, Wiped, At
<1> QED
  BY <1>1, <1>6, <1>7, MemoryKept
-----------------------------------------------------------------------------
(***************************************************************************)
(* Steps that take, lock, fill, wipe and give back pages.                  *)
(***************************************************************************)
\* The memory before a step on i, said once.
LEMMA MemoryFacts ==
    ASSUME IInv, NEW i \in Inst
    PROVE  /\ allocated \subseteq Page /\ locked \subseteq allocated
           /\ bytes \in [Page -> SUBSET Subkey]
           /\ \A p \in Page : p \in allocated <=> \E j \in Inst : UsedBy(p, j)
           /\ \A p \in Page \ allocated : bytes[p] = {}
           /\ \A j \in Inst : \A s \in Own(j) :
                /\ s.page \in locked /\ s.page \in Page /\ s.page \in allocated
                /\ s \notin Wiped(j) => bytes[s.page] = {s.key}
                /\ s \in Wiped(j) => bytes[s.page] = {}
           /\ \A j \in Inst : \A p \in Hand(j) : bytes[p] = {}
           /\ \A j \in Inst : At(j, "copy") => Hand(j) \subseteq locked
           /\ \A j, k \in Inst : \A s \in Own(j), t \in Own(k) : s.page = t.page => j = k /\ s = t
           /\ \A j, k \in Inst : \A p \in Hand(j), t \in Own(k) : t.page # p
           /\ \A j, k \in Inst : \A p \in Hand(j) : p \in Hand(k) => j = k
           /\ CallInv(i)
<1>1. MemoryInv /\ PagesTold /\ BytesTold /\ CallInv(i)
  BY DEF IInv, MemoryInv
<1>2. \A j \in Inst : \A s \in Own(j) : s.page \in Page
  BY OwnKeys DEF LockedSecret
<1> QED
  BY <1>1, <1>2 DEF MemoryInv, PagesTold, BytesTold

\* A call goes on with a page in hand.
LEMMA InHand ==
    ASSUME IInv, NEW i \in Inst, SettingUp(i), call[i].at # "built", vault' = vault,
           NEW a \in {"lock", "copy"}, NEW q \in Page,
           call' = [call EXCEPT ![i] = [call[i] EXCEPT !.at = a, !.page = q]]
    PROVE  /\ OnlyOn(i) /\ CallInv(i)'
           /\ Own(i)' = Own(i) /\ Hand(i)' = {q} /\ Wiped(i)' = {} /\ Wiped(i) = {}
           /\ At(i, "copy")' <=> a = "copy"
<1> DEFINE c == call[i]
<1>0. CallInv(i) /\ i \in DOMAIN call /\ c # NULL /\ q # NULL
  BY MemoryAssumption DEF IInv, SettingUp
<1>1. c \in Call /\ SetUp(i) /\ Wiped(i) = {} /\ IsCall(c)
  BY <1>0, CallFacts DEF CallInv
<1>2. /\ call'[i] \in Call /\ call'[i].at = a /\ call'[i].page = q
      /\ call'[i].call = c.call /\ call'[i].gen = c.gen /\ call'[i].base = c.base
      /\ call'[i].got = c.got /\ call'[i].gone = c.gone
  BY <1>0, <1>1 DEF Call
<1>3. call'[i] # NULL
  BY <1>2, MemoryAssumption
<1>4. OnlyOn(i)
  BY DEF OnlyOn
<1>5. /\ VaultPair(i)' = VaultPair(i) /\ BasePair(i)' = BasePair(i)
      /\ Got(i)' = Got(i) /\ Gone(i)' = Gone(i) /\ Hand(i)' = {q} /\ Wiped(i)' = {}
      /\ At(i, "copy")' <=> a = "copy"
  BY <1>0, <1>2, <1>3 DEF VaultPair, BasePair, Got, Gone, Hand, Wiped, At
<1>6. IsCall(call[i])'
  <2>1. c.gone = <<>> /\ Len(c.got) <= 2
    BY <1>1 DEF IsCall, SettingUp
  <2> QED
    BY <1>0, <1>2, <2>1 DEF IsCall
<1>7. SetUp(i)'
  <2>1. PairOf(call[i].base, i)' <=> PairOf(call[i].base, i)
    BY <1>2 DEF PairOf
  <2>2. Len(c.got) # 2
    BY <1>1 DEF SetUp
  <2> QED
    BY <1>1, <1>2, <1>5, <2>1, <2>2 DEF SetUp
<1>8. CallInv(i)'
  <2>1. PairOf(vault[i], i)' <=> PairOf(vault[i], i)
    BY DEF PairOf
  <2> QED
    BY <1>0, <1>2, <1>3, <1>6, <1>7, <2>1 DEF CallInv, Dropping
<1> QED
  BY <1>1, <1>4, <1>5, <1>8 DEF Own

LEMMA MallocSizedKeeps ==
    ASSUME IInv, NEW i \in Inst, MallocSized(i)
    PROVE  OnlyOn(i) /\ CallInv(i)' /\ MemoryInv'
<1>1. PICK p \in FreePages :
        /\ allocated' = allocated \cup {p}
        /\ locked' = IF WithinQuota(p) THEN locked \cup {p} ELSE locked
        /\ call' = [call EXCEPT ![i].at = "lock", ![i].page = p]
  BY DEF MallocSized
<1>2. /\ SettingUp(i) /\ call[i].at = "malloc" /\ p \in Page /\ p \notin allocated
      /\ UNCHANGED <<bytes, vault>>
      /\ locked \subseteq locked' /\ locked' \subseteq locked \cup {p}
  BY <1>1 DEF MallocSized, At, SettingUp, FreePages
<1>3. call' = [call EXCEPT ![i] = [call[i] EXCEPT !.at = "lock", !.page = p]]
  BY <1>1
<1>4. /\ OnlyOn(i) /\ CallInv(i)' /\ Own(i)' = Own(i) /\ Hand(i)' = {p}
      /\ Wiped(i)' = {} /\ Wiped(i) = {} /\ ~At(i, "copy")'
  BY <1>2, <1>3, InHand
<1>5. \A j \in Inst : /\ Own(j)' = Own(j) /\ Wiped(j)' = Wiped(j)
                      /\ At(j, "copy")' => At(j, "copy") /\ Hand(j)' = Hand(j)
                      /\ Hand(j)' = IF j = i THEN {p} ELSE Hand(j)
  BY <1>4, OthersLeft
<1>6. Hand(i) = {}
  BY <1>2, CallFacts DEF IInv, SettingUp
<1>7. \A j \in Inst : p \notin Hand(j) /\ \A t \in Own(j) : t.page # p
  BY <1>2, MemoryFacts DEF UsedBy
<1>8. ASSUME NEW q \in Page
      PROVE  q \in allocated' <=> \E j \in Inst : UsedBy(q, j)'
  <2>1. \A j \in Inst : UsedBy(q, j)' <=> UsedBy(q, j) \/ (j = i /\ q = p)
    BY <1>5, <1>6 DEF UsedBy
  <2> QED
    BY <1>1, <2>1, MemoryFacts
<1>9. PagesTold'
  BY <1>5, <1>7, MemoryFacts DEF PagesTold
<1>10. BytesTold'
  <2>1. \A q \in Page \ allocated' : bytes'[q] = {}
    BY <1>1, <1>2, MemoryFacts
  <2>2. \A j \in Inst : \A t \in Own(j)' :
            /\ t.page \in locked'
            /\ t \notin Wiped(j)' => bytes'[t.page] = {t.key}
            /\ t \in Wiped(j)' => bytes'[t.page] = {}
    BY <1>2, <1>5, MemoryFacts
  <2>3. \A j \in Inst : \A q \in Hand(j)' : bytes'[q] = {}
    BY <1>2, <1>5, MemoryFacts
  <2>4. \A j \in Inst : At(j, "copy")' => Hand(j)' \subseteq locked'
    BY <1>2, <1>5, MemoryFacts
  <2> QED
    BY <2>1, <2>2, <2>3, <2>4 DEF BytesTold
<1>11. /\ allocated' \subseteq Page /\ locked' \subseteq allocated'
       /\ bytes' \in [Page -> SUBSET Subkey]
  BY <1>1, <1>2, MemoryFacts
<1> QED
  BY <1>4, <1>8, <1>9, <1>10, <1>11 DEF MemoryInv

LEMMA MlockKeeps ==
    ASSUME IInv, NEW i \in Inst, Mlock(i)
    PROVE  OnlyOn(i) /\ CallInv(i)' /\ MemoryInv'
<1> DEFINE p == call[i].page
<1>1. /\ SettingUp(i) /\ call[i].at = "lock"
      /\ locked' = locked \cup {p}
      /\ call' = [call EXCEPT ![i].at = "copy"]
      /\ UNCHANGED <<allocated, bytes, vault>>
  BY DEF Mlock, At, SettingUp
<1>2. p \in Page /\ Hand(i) = {p} /\ call[i] \in Call /\ i \in DOMAIN call
  BY <1>1, CallFacts DEF IInv, SettingUp
<1>3. call' = [call EXCEPT ![i] = [call[i] EXCEPT !.at = "copy", !.page = p]]
  <2>1. [call[i] EXCEPT !.at = "copy"] = [call[i] EXCEPT !.at = "copy", !.page = p]
    BY <1>2 DEF Call
  <2> QED
    BY <1>1, <2>1
<1> HIDE DEF p
<1>4. /\ OnlyOn(i) /\ CallInv(i)' /\ Own(i)' = Own(i) /\ Hand(i)' = {p}
      /\ Wiped(i)' = {} /\ Wiped(i) = {}
  BY <1>1, <1>2, <1>3, InHand
<1>5. \A j \in Inst : /\ Own(j)' = Own(j) /\ Wiped(j)' = Wiped(j) /\ Hand(j)' = Hand(j)
                      /\ At(j, "copy")' => At(j, "copy") \/ Hand(j) = {p}
  BY <1>2, <1>4, OthersLeft
<1>6. p \in allocated
  BY <1>2, MemoryFacts DEF UsedBy
<1>7. \A q \in Page : q \in allocated' <=> \E j \in Inst : UsedBy(q, j)'
  <2>1. \A q \in Page : \A j \in Inst : UsedBy(q, j)' <=> UsedBy(q, j)
    BY <1>5 DEF UsedBy
  <2> QED
    BY <1>1, <2>1, MemoryFacts
<1>8. PagesTold'
  BY <1>5, MemoryFacts DEF PagesTold
<1>9. BytesTold'
  <2>1. \A q \in Page \ allocated' : bytes'[q] = {}
    BY <1>1, MemoryFacts
  <2>2. \A j \in Inst : \A t \in Own(j)' :
            /\ t.page \in locked'
            /\ t \notin Wiped(j)' => bytes'[t.page] = {t.key}
            /\ t \in Wiped(j)' => bytes'[t.page] = {}
    BY <1>1, <1>5, MemoryFacts
  <2>3. \A j \in Inst : \A q \in Hand(j)' : bytes'[q] = {}
    BY <1>1, <1>5, MemoryFacts
  <2>4. \A j \in Inst : At(j, "copy")' => Hand(j)' \subseteq locked'
    BY <1>1, <1>5, MemoryFacts
  <2> QED
    BY <2>1, <2>2, <2>3, <2>4 DEF BytesTold
<1>10. /\ allocated' \subseteq Page /\ locked' \subseteq allocated'
       /\ bytes' \in [Page -> SUBSET Subkey]
  BY <1>1, <1>6, MemoryFacts
<1> QED
  BY <1>4, <1>7, <1>8, <1>9, <1>10 DEF MemoryInv

LEMMA MlockFailsKeeps ==
    ASSUME IInv, NEW i \in Inst, MlockFails(i)
    PROVE  OnlyOn(i) /\ CallInv(i)' /\ MemoryInv'
<1> DEFINE p == call[i].page
<1>1. /\ SettingUp(i) /\ call[i].at = "lock" /\ p \notin locked
      /\ allocated' = allocated \ {p} /\ Fails(i)
      /\ UNCHANGED <<locked, bytes, vault>>
  BY DEF MlockFails, At, SettingUp, WithinQuota
<1>2. p \in Page /\ Hand(i) = {p} /\ Wiped(i) = {}
  BY <1>1, CallFacts DEF IInv, SettingUp
<1> HIDE DEF p
<1>3. /\ OnlyOn(i) /\ CallInv(i)' /\ Own(i)' = Own(i) /\ Hand(i)' = {}
      /\ Wiped(i)' = {} /\ ~At(i, "copy")'
  BY <1>1, FailsDrops
<1>4. \A j \in Inst : /\ Own(j)' = Own(j) /\ Wiped(j)' = Wiped(j)
                      /\ Hand(j)' = IF j = i THEN {} ELSE Hand(j)
                      /\ At(j, "copy")' => At(j, "copy")
  BY <1>2, <1>3, OthersLeft
<1>5. \A q \in Page : q \in allocated' <=> \E j \in Inst : UsedBy(q, j)'
  <2>1. ASSUME NEW q \in Page
        PROVE  \A j \in Inst : UsedBy(q, j)' <=> UsedBy(q, j) /\ q # p
    BY <1>2, <1>4, MemoryFacts DEF UsedBy
  <2> QED
    BY <1>1, <2>1, MemoryFacts
<1>6. PagesTold'
  BY <1>4, MemoryFacts DEF PagesTold
<1>7. BytesTold'
  <2>1. \A q \in Page \ allocated' : bytes'[q] = {}
    BY <1>1, <1>2, MemoryFacts
  <2>2. \A j \in Inst : \A t \in Own(j)' :
            /\ t.page \in locked'
            /\ t \notin Wiped(j)' => bytes'[t.page] = {t.key}
            /\ t \in Wiped(j)' => bytes'[t.page] = {}
    BY <1>1, <1>4, MemoryFacts
  <2>3. \A j \in Inst : \A q \in Hand(j)' : bytes'[q] = {}
    BY <1>1, <1>4, MemoryFacts
  <2>4. \A j \in Inst : At(j, "copy")' => Hand(j)' \subseteq locked'
    BY <1>1, <1>4, MemoryFacts
  <2> QED
    BY <2>1, <2>2, <2>3, <2>4 DEF BytesTold
<1>8. /\ allocated' \subseteq Page /\ locked' \subseteq allocated'
      /\ bytes' \in [Page -> SUBSET Subkey]
  BY <1>1, MemoryFacts
<1> QED
  BY <1>3, <1>5, <1>6, <1>7, <1>8 DEF MemoryInv

LEMMA CopyFromSliceKeeps ==
    ASSUME IInv, NEW i \in Inst, CopyFromSlice(i)
    PROVE  OnlyOn(i) /\ CallInv(i)' /\ MemoryInv'
<1> DEFINE c == call[i]
           p == c.page
           key == [inst |-> i, gen |-> c.gen,
                   kind |-> IF c.got = <<>> THEN "enc" ELSE "hmac"]
           s == [page |-> p, key |-> key]
           g == Append(c.got, s)
           a == IF c.got = <<>> THEN "malloc" ELSE "built"
<1>1. /\ SettingUp(i) /\ At(i, "copy") /\ c.at = "copy" /\ c # NULL
      /\ bytes' = [bytes EXCEPT ![p] = @ \cup {key}]
      /\ call' = [call EXCEPT ![i] = [c EXCEPT !.got = g, !.page = NULL, !.at = a]]
      /\ UNCHANGED <<allocated, locked, vault>>
  BY DEF CopyFromSlice, At, SettingUp
<1>2. /\ CallInv(i) /\ i \in DOMAIN call /\ c \in Call /\ IsCall(c) /\ SetUp(i)
      /\ c.got \in Seq(LockedSecret) /\ Len(c.got) \in 0..2 /\ DOMAIN c.got = 1..Len(c.got)
      /\ Got(i) = ToSet(c.got) /\ Gone(i) = {} /\ Wiped(i) = {}
      /\ p \in Page /\ Hand(i) = {p}
  BY <1>1, CallFacts DEF IInv, CallInv
<1>3. Len(c.got) \in {0, 1} /\ (c.got = <<>> <=> Len(c.got) = 0)
  <2>1. Len(c.got) # 2
    BY <1>1, <1>2 DEF SetUp
  <2>2. c.got = <<>> <=> Len(c.got) = 0
    BY <1>2, EmptySeq
  <2> QED
    BY <1>2, <2>1, <2>2
<1>4. /\ key \in Subkey /\ s \in LockedSecret /\ s.page = p /\ s.key = key
      /\ key = [inst |-> i, gen |-> c.gen, kind |-> KindAt(Len(c.got) + 1)]
  <2>1. key \in Subkey
    BY <1>2 DEF Call, Subkey
  <2>2. s \in LockedSecret /\ s.page = p /\ s.key = key
    BY <1>2, <2>1 DEF LockedSecret
  <2>3. KindAt(Len(c.got) + 1) = IF c.got = <<>> THEN "enc" ELSE "hmac"
    BY <1>3 DEF KindAt
  <2> QED
    BY <2>1, <2>2, <2>3
<1> HIDE DEF key, s
<1>5. /\ g \in Seq(LockedSecret) /\ Len(g) = Len(c.got) + 1 /\ DOMAIN g = 1..(Len(c.got) + 1)
      /\ \A k \in DOMAIN g : \/ k \in DOMAIN c.got /\ g[k] = c.got[k]
                             \/ k = Len(c.got) + 1 /\ g[k] = s
      /\ \A k \in DOMAIN c.got : k \in DOMAIN g /\ g[k] = c.got[k]
      /\ Len(c.got) + 1 \in DOMAIN g /\ g[Len(c.got) + 1] = s
  <2>1. /\ g \in Seq(LockedSecret) /\ Len(g) = Len(c.got) + 1
        /\ \A k \in 1..Len(c.got) : g[k] = c.got[k]
        /\ g[Len(c.got) + 1] = s
    BY <1>2, <1>4, AppendProperties
  <2>2. DOMAIN g = 1..(Len(c.got) + 1)
    BY <2>1, LenProperties
  <2> HIDE DEF g
  <2> QED
    BY <1>2, <2>1, <2>2
<1> HIDE DEF g
<1>6. ToSet(g) = Got(i) \cup {s}
  <2>1. \A x : x \in ToSet(g) => x \in Got(i) \cup {s}
    BY <1>2, <1>5 DEF ToSet
  <2>2. \A x : x \in Got(i) \cup {s} => x \in ToSet(g)
    BY <1>2, <1>5 DEF ToSet
  <2> QED
    BY <2>1, <2>2
<1>7. a \in {"malloc", "built"} /\ (a = "built" <=> Len(g) = 2)
  BY <1>3, <1>5
<1> HIDE DEF a
<1>8. /\ call'[i] \in Call /\ call'[i].at = a /\ call'[i].page = NULL
      /\ call'[i].call = c.call /\ call'[i].gen = c.gen /\ call'[i].base = c.base
      /\ call'[i].got = g /\ call'[i].gone = c.gone
  BY <1>1, <1>2, <1>5, <1>7 DEF Call
<1>9. call'[i] # NULL
  BY <1>8, MemoryAssumption
<1>10. OnlyOn(i)
  BY <1>1 DEF OnlyOn
<1>11. /\ VaultPair(i)' = VaultPair(i) /\ BasePair(i)' = BasePair(i)
       /\ Got(i)' = Got(i) \cup {s} /\ Gone(i)' = {} /\ Hand(i)' = {} /\ Wiped(i)' = {}
       /\ ~At(i, "copy")'
  BY <1>1, <1>2, <1>6, <1>7, <1>8, <1>9 DEF VaultPair, BasePair, Got, Gone, Hand, Wiped, At
<1>12. Own(i)' = Own(i) \cup {s}
  BY <1>2, <1>11 DEF Own
<1>13. \A j \in Inst : /\ Own(j) \subseteq Own(j)' /\ Wiped(j)' = Wiped(j)
                       /\ \A t \in Own(j)' : t \in Own(j) \/ (j = i /\ t = s)
                       /\ Hand(j)' = IF j = i THEN {} ELSE Hand(j)
                       /\ At(j, "copy")' => At(j, "copy") /\ j # i
  BY <1>2, <1>10, <1>11, <1>12, OthersLeft
<1>14. \A j \in Inst : \A t \in Own(j) : t.page # p
  BY <1>2, MemoryFacts
<1>15. \A j \in Inst : j # i => p \notin Hand(j)
  BY <1>2, MemoryFacts
<1>16. CallInv(i)'
  <2>1. IsCall(call[i])'
    BY <1>1, <1>2, <1>3, <1>5, <1>7, <1>8 DEF IsCall
  <2>2. s \notin VaultPair(i) \cup BasePair(i)
    BY <1>4, <1>14 DEF Own
  <2>3. \A k \in DOMAIN g : /\ g[k].key = [inst |-> i, gen |-> c.gen, kind |-> KindAt(k)]
                            /\ g[k] \notin VaultPair(i) \cup BasePair(i)
    <3> SUFFICES ASSUME NEW k \in DOMAIN g
                 PROVE  /\ g[k].key = [inst |-> i, gen |-> c.gen, kind |-> KindAt(k)]
                        /\ g[k] \notin VaultPair(i) \cup BasePair(i)
      OBVIOUS
    <3>1. CASE k \in DOMAIN c.got /\ g[k] = c.got[k]
      BY <1>2, <3>1 DEF SetUp
    <3>2. CASE k = Len(c.got) + 1 /\ g[k] = s
      BY <1>4, <2>2, <3>2
    <3> QED
      BY <1>5, <3>1, <3>2
  <2>4. PairOf(call[i].base, i)' <=> PairOf(call[i].base, i)
    BY <1>8 DEF PairOf
  <2>5. SetUp(i)'
    BY <1>1, <1>2, <1>7, <1>8, <1>11, <2>3, <2>4 DEF SetUp
  <2>6. PairOf(vault[i], i)' <=> PairOf(vault[i], i)
    BY <1>1 DEF PairOf
  <2> QED
    BY <1>1, <1>2, <1>7, <1>8, <1>9, <2>1, <2>5, <2>6 DEF CallInv, Dropping
<1>17. ASSUME NEW q \in Page
       PROVE  q \in allocated' <=> \E j \in Inst : UsedBy(q, j)'
  <2>1. \A j \in Inst : UsedBy(q, j) => UsedBy(q, j)'
    <3> SUFFICES ASSUME NEW j \in Inst, UsedBy(q, j) PROVE UsedBy(q, j)'
      OBVIOUS
    <3>1. CASE \E t \in Own(j) : t.page = q
      BY <1>13, <3>1 DEF UsedBy
    <3>2. CASE q \in Hand(j) /\ j = i
      BY <1>2, <1>4, <1>12, <3>2 DEF UsedBy
    <3>3. CASE q \in Hand(j) /\ j # i
      BY <1>13, <3>3 DEF UsedBy
    <3> QED
      BY <3>1, <3>2, <3>3 DEF UsedBy
  <2>2. \A j \in Inst : UsedBy(q, j)' => UsedBy(q, j)
    BY <1>2, <1>4, <1>13 DEF UsedBy
  <2> QED
    BY <1>1, <2>1, <2>2, MemoryFacts
<1>18. PagesTold'
  <2> SUFFICES ASSUME NEW j \in Inst, NEW k \in Inst
               PROVE  /\ \A t \in Own(j)', u \in Own(k)' : t.page = u.page => j = k /\ t = u
                      /\ \A q \in Hand(j)' : /\ \A t \in Own(k)' : t.page # q
                                             /\ q \in Hand(k)' => j = k
    BY DEF PagesTold
  <2>1. \A t \in Own(j)', u \in Own(k)' : t.page = u.page => j = k /\ t = u
    BY <1>4, <1>13, <1>14, MemoryFacts
  <2>2. \A q \in Hand(j)' : q \in Hand(j) /\ q # p
    BY <1>13, <1>15
  <2> QED
    BY <1>4, <1>13, <2>1, <2>2, MemoryFacts
<1>19. bytes[p] = {} /\ p \in locked
  BY <1>1, <1>2, MemoryFacts
<1>20. /\ bytes'[p] = {key}
       /\ \A q \in Page : q # p => bytes'[q] = bytes[q]
  BY <1>1, <1>2, <1>19, MemoryFacts
<1>21. BytesTold'
  <2>1. \A q \in Page \ allocated' : bytes'[q] = {}
    BY <1>1, <1>19, <1>20, MemoryFacts
  <2>2. ASSUME NEW j \in Inst, NEW t \in Own(j)'
        PROVE  /\ t.page \in locked'
               /\ t \notin Wiped(j)' => bytes'[t.page] = {t.key}
               /\ t \in Wiped(j)' => bytes'[t.page] = {}
    <3>1. CASE t \in Own(j)
      BY <1>1, <1>13, <1>14, <1>20, <3>1, MemoryFacts
    <3>2. CASE j = i /\ t = s
      BY <1>1, <1>4, <1>11, <1>19, <1>20, <3>2
    <3> QED
      BY <1>13, <3>1, <3>2
  <2>3. \A j \in Inst : \A q \in Hand(j)' : bytes'[q] = {}
    <3>1. \A j \in Inst : \A q \in Hand(j) : q \in Page
      BY DEF Hand, IInv, CallInv, Call
    <3>2. \A j \in Inst : \A q \in Hand(j)' : q \in Hand(j) /\ q # p
      BY <1>13, <1>15
    <3> QED
      BY <1>20, <3>1, <3>2, MemoryFacts
  <2>4. \A j \in Inst : At(j, "copy")' => Hand(j)' \subseteq locked'
    BY <1>1, <1>13, MemoryFacts
  <2> QED
    BY <2>1, <2>2, <2>3, <2>4 DEF BytesTold
<1>22. /\ allocated' \subseteq Page /\ locked' \subseteq allocated'
       /\ bytes' \in [Page -> SUBSET Subkey]
  BY <1>1, <1>2, <1>4, MemoryFacts
<1> QED
  BY <1>10, <1>16, <1>17, <1>18, <1>21, <1>22 DEF MemoryInv

\* A call that drops containers: what the next one is.
LEMMA NextDropped ==
    ASSUME IInv, NEW i \in Inst, Dropping(i)
    PROVE  /\ call[i] \in Call /\ IsCall(call[i]) /\ Dropped(i) /\ i \in DOMAIN call
           /\ call[i].gone \in Seq(LockedSecret) /\ call[i].gone # <<>>
           /\ Gone(i) = ToSet(call[i].gone) /\ Apart(call[i].gone)
           /\ Head(call[i].gone) \in Own(i) /\ Head(call[i].gone) \in LockedSecret
           /\ Got(i) = {} /\ BasePair(i) = {} /\ Hand(i) = {}
           /\ Head(call[i].gone) \notin VaultPair(i)
<1>1. CallInv(i) /\ call[i] # NULL /\ i \in DOMAIN call
  BY DEF IInv, Dropping
<1>2. /\ call[i] \in Call /\ IsCall(call[i]) /\ Dropped(i)
      /\ call[i].gone \in Seq(LockedSecret) /\ call[i].gone # <<>>
      /\ Gone(i) = ToSet(call[i].gone) /\ Apart(call[i].gone)
      /\ Got(i) = {} /\ BasePair(i) = {} /\ Hand(i) = {}
  BY <1>1, CallFacts DEF CallInv, Dropped, Call
<1>3. Head(call[i].gone) \in ToSet(call[i].gone) /\ Head(call[i].gone) \in LockedSecret
  BY <1>2, TailOf
<1> QED
  BY <1>1, <1>2, <1>3 DEF Own, Dropped

LEMMA ZeroizeKeeps ==
    ASSUME IInv, NEW i \in Inst, Zeroize(i)
    PROVE  OnlyOn(i) /\ CallInv(i)' /\ MemoryInv'
<1> DEFINE c == call[i]
           s == Head(c.gone)
<1>1. /\ Dropping(i) /\ c.at = "wipe" /\ c # NULL
      /\ bytes' = [bytes EXCEPT ![s.page] = @ \ {s.key}]
      /\ call' = [call EXCEPT ![i].at = "free"]
      /\ UNCHANGED <<allocated, locked, vault>>
  BY DEF Zeroize, At, Dropping
<1>2. /\ c \in Call /\ IsCall(c) /\ Dropped(i) /\ i \in DOMAIN call
      /\ s \in Own(i) /\ s \in LockedSecret
      /\ Got(i) = {} /\ BasePair(i) = {} /\ Hand(i) = {}
  BY <1>1, NextDropped
<1>3. Wiped(i) = {}
  BY <1>1 DEF Wiped, At
<1>4. /\ call'[i] \in Call /\ call'[i].at = "free" /\ call'[i].page = c.page
      /\ call'[i].got = c.got /\ call'[i].base = c.base /\ call'[i].gone = c.gone
  BY <1>1, <1>2 DEF Call
<1>5. call'[i] # NULL
  BY <1>4, MemoryAssumption
<1>6. OnlyOn(i)
  BY <1>1 DEF OnlyOn
<1>7. /\ VaultPair(i)' = VaultPair(i) /\ BasePair(i)' = BasePair(i) /\ Got(i)' = Got(i)
      /\ Gone(i)' = Gone(i) /\ Hand(i)' = Hand(i) /\ Wiped(i)' = {s} /\ ~At(i, "copy")'
  BY <1>1, <1>4, <1>5 DEF VaultPair, BasePair, Got, Gone, Hand, Wiped, At
<1>8. CallInv(i)'
  <2>1. IsCall(call[i])'
    BY <1>1, <1>2, <1>4 DEF IsCall
  <2>2. Dropped(i)'
    BY <1>1, <1>2, <1>4, <1>7 DEF Dropped
  <2>3. PairOf(vault[i], i)' <=> PairOf(vault[i], i)
    BY <1>1 DEF PairOf
  <2>4. CallInv(i)
    BY DEF IInv
  <2> QED
    BY <1>1, <1>4, <1>5, <2>1, <2>2, <2>3, <2>4 DEF CallInv, SettingUp
<1>9. \A j \in Inst : /\ Own(j)' = Own(j) /\ Hand(j)' = Hand(j)
                      /\ j # i => Wiped(j)' = Wiped(j)
                      /\ At(j, "copy")' => At(j, "copy")
  BY <1>6, <1>7, OthersLeft DEF Own
<1> HIDE DEF s
<1>10. s.page \in Page /\ bytes[s.page] = {s.key}
  BY <1>2, <1>3, MemoryFacts
<1>11. bytes'[s.page] = {} /\ \A q \in Page : q # s.page => bytes'[q] = bytes[q]
  BY <1>1, <1>10, MemoryFacts
<1>12. \A q \in Page : q \in allocated' <=> \E j \in Inst : UsedBy(q, j)'
  <2>1. \A q \in Page : \A j \in Inst : UsedBy(q, j)' <=> UsedBy(q, j)
    BY <1>9 DEF UsedBy
  <2> QED
    BY <1>1, <2>1, MemoryFacts
<1>13. PagesTold'
  BY <1>9, MemoryFacts DEF PagesTold
<1>14. BytesTold'
  <2>1. \A q \in Page \ allocated' : bytes'[q] = {}
    BY <1>1, <1>11, MemoryFacts
  <2>2. ASSUME NEW j \in Inst, NEW t \in Own(j)'
        PROVE  /\ t.page \in locked'
               /\ t \notin Wiped(j)' => bytes'[t.page] = {t.key}
               /\ t \in Wiped(j)' => bytes'[t.page] = {}
    <3>1. t \in Own(j) /\ t.page \in locked' /\ t.page \in Page
      BY <1>1, <1>9, MemoryFacts
    <3>2. CASE t.page = s.page
      <4>1. j = i /\ t = s
        BY <1>2, <3>1, <3>2, MemoryFacts
      <4> QED
        BY <1>7, <1>11, <3>1, <4>1
    <3>3. CASE t.page # s.page
      <4>1. bytes'[t.page] = bytes[t.page]
        BY <1>11, <3>1, <3>3
      <4>2. t \in Wiped(j)' <=> t \in Wiped(j)
        BY <1>3, <1>7, <1>9, <3>3
      <4> QED
        BY <3>1, <4>1, <4>2, MemoryFacts
    <3> QED
      BY <3>2, <3>3
  <2>3. \A j \in Inst : \A q \in Hand(j)' : bytes'[q] = {}
    <3>1. \A j \in Inst : \A q \in Hand(j) : q \in Page
      BY DEF Hand, IInv, CallInv, Call
    <3> QED
      BY <1>9, <1>11, <3>1, MemoryFacts
  <2>4. \A j \in Inst : At(j, "copy")' => Hand(j)' \subseteq locked'
    BY <1>1, <1>9, MemoryFacts
  <2> QED
    BY <2>1, <2>2, <2>3, <2>4 DEF BytesTold
<1>15. /\ allocated' \subseteq Page /\ locked' \subseteq allocated'
       /\ bytes' \in [Page -> SUBSET Subkey]
  BY <1>1, <1>10, MemoryFacts
<1> QED
  BY <1>6, <1>8, <1>12, <1>13, <1>14, <1>15 DEF MemoryInv

LEMMA FreeRegionKeeps ==
    ASSUME IInv, NEW i \in Inst, FreeRegion(i)
    PROVE  OnlyOn(i) /\ CallInv(i)' /\ MemoryInv'
<1> DEFINE c == call[i]
           s == Head(c.gone)
           u == Tail(c.gone)
<1>1. /\ Dropping(i) /\ c.at = "free" /\ c # NULL /\ At(i, "free")
      /\ locked' = locked \ {s.page}
      /\ allocated' = allocated \ {s.page}
      /\ bytes' = [bytes EXCEPT ![s.page] = @ \ {s.key}]
      /\ call' = [call EXCEPT ![i] = Releasing(c, u)]
      /\ UNCHANGED vault
  BY DEF FreeRegion, At, Dropping
<1>2. /\ c \in Call /\ IsCall(c) /\ Dropped(i) /\ i \in DOMAIN call
      /\ c.gone \in Seq(LockedSecret) /\ c.gone # <<>>
      /\ Gone(i) = ToSet(c.gone) /\ Apart(c.gone)
      /\ s \in Own(i) /\ s \in LockedSecret /\ s \notin VaultPair(i)
      /\ Got(i) = {} /\ BasePair(i) = {} /\ Hand(i) = {}
  BY <1>1, NextDropped
<1>3. Wiped(i) = {s}
  BY <1>1 DEF Wiped
<1>4. /\ u \in Seq(LockedSecret) /\ Len(u) = Len(c.gone) - 1 /\ Len(c.gone) \in Nat
      /\ ToSet(u) = Gone(i) \ {s} /\ Apart(u)
  BY <1>2, TailOf, LenProperties
<1> HIDE DEF s, u
<1>5. OnlyOn(i)
  BY <1>1 DEF OnlyOn
<1>6. VaultPair(i)' = VaultPair(i) /\ Own(i) = VaultPair(i) \cup Gone(i)
  BY <1>1, <1>2 DEF VaultPair, Own
<1>7. /\ CallInv(i)'
      /\ Own(i)' = VaultPair(i) \cup ToSet(u)
      /\ Hand(i)' = {} /\ Wiped(i)' = {} /\ ~At(i, "copy")'
  <2>0. /\ CallInv(i) /\ (PairOf(vault[i], i)' <=> PairOf(vault[i], i))
    BY <1>1 DEF IInv, PairOf
  <2>1. CASE u = <<>>
    <3>1. call'[i] = NULL
      BY <1>1, <1>2, <2>1 DEF Releasing
    <3>2. ToSet(u) = {}
      BY <2>1 DEF ToSet
    <3>3. /\ BasePair(i)' = {} /\ Got(i)' = {} /\ Gone(i)' = {}
          /\ Hand(i)' = {} /\ Wiped(i)' = {} /\ ~At(i, "copy")'
      BY <3>1 DEF BasePair, Got, Gone, Hand, Wiped, At
    <3>4. CallInv(i)'
      BY <1>1, <2>0, <3>1 DEF CallInv, SettingUp, Dropping
    <3> QED
      BY <1>6, <3>2, <3>3, <3>4 DEF Own
  <2>2. CASE u # <<>>
    <3>1. call'[i] = [c EXCEPT !.at = "wipe", !.page = NULL, !.got = <<>>, !.base = NULL,
                               !.gone = u]
      BY <1>1, <1>2, <2>2 DEF Releasing
    <3>2. <<>> \in Seq(LockedSecret) /\ Len(<<>>) = 0
      BY EmptySeq
    <3>3. ToSet(<<>>) = {}
      BY DEF ToSet
    <3>4. /\ call'[i] \in Call /\ call'[i].at = "wipe" /\ call'[i].page = NULL
          /\ call'[i].got = <<>> /\ call'[i].base = NULL /\ call'[i].gone = u
      BY <1>2, <1>4, <3>1, <3>2 DEF Call
    <3>5. call'[i] # NULL
      BY <3>4, MemoryAssumption
    <3>6. /\ BasePair(i)' = {} /\ Got(i)' = {} /\ Gone(i)' = ToSet(u)
          /\ Hand(i)' = {} /\ Wiped(i)' = {} /\ ~At(i, "copy")'
      BY <3>3, <3>4, <3>5 DEF BasePair, Got, Gone, Hand, Wiped, At
    <3>7. IsCall(call[i])'
      BY <2>2, <3>2, <3>4 DEF IsCall
    <3>8. Len(u) <= IF vault'[i] = NULL THEN 4 ELSE 2
      BY <1>1, <1>2, <1>4 DEF Dropped
    <3>9. \A t \in ToSet(u) : t.key.inst = i /\ t \notin VaultPair(i)
      BY <1>2, <1>4 DEF Dropped
    <3>10. Dropped(i)'
      BY <1>4, <1>6, <3>4, <3>6, <3>8, <3>9 DEF Dropped
    <3>11. CallInv(i)'
      BY <1>1, <2>0, <3>4, <3>5, <3>7, <3>10 DEF CallInv, SettingUp
    <3> QED
      BY <1>6, <3>6, <3>11 DEF Own
  <2> QED
    BY <2>1, <2>2
<1>8. Own(i)' = Own(i) \ {s}
  BY <1>2, <1>4, <1>6, <1>7
<1>9. \A j \in Inst : /\ \A t \in Own(j)' : t \in Own(j) /\ (j = i => t # s)
                      /\ \A t \in Own(j) : t \in Own(j)' \/ (j = i /\ t = s)
                      /\ Hand(j)' = Hand(j)
                      /\ j # i => Wiped(j)' = Wiped(j)
                      /\ At(j, "copy")' => At(j, "copy")
  BY <1>2, <1>5, <1>7, <1>8, OthersLeft
<1>10. s.page \in Page /\ bytes[s.page] = {}
  BY <1>2, <1>3, MemoryFacts
<1>11. bytes' = bytes
  <2>1. bytes \in [Page -> SUBSET Subkey]
    BY MemoryFacts
  <2>2. \A q \in Page : bytes'[q] = bytes[q]
    BY <1>1, <1>10, <2>1
  <2> QED
    BY <1>1, <2>1, <2>2
<1>12. \A j \in Inst : \A t \in Own(j)' : t.page # s.page
  BY <1>2, <1>9, MemoryFacts
<1>13. \A j \in Inst : s.page \notin Hand(j)
  BY <1>2, MemoryFacts
<1>14. ASSUME NEW q \in Page
       PROVE  q \in allocated' <=> \E j \in Inst : UsedBy(q, j)'
  <2>1. \A j \in Inst : UsedBy(q, j)' <=> UsedBy(q, j) /\ q # s.page
    BY <1>9, <1>12, <1>13 DEF UsedBy
  <2> QED
    BY <1>1, <2>1, MemoryFacts
<1>15. PagesTold'
  BY <1>9, MemoryFacts DEF PagesTold
<1>16. BytesTold'
  <2>1. \A q \in Page \ allocated' : bytes'[q] = {}
    BY <1>1, <1>10, <1>11, MemoryFacts
  <2>2. ASSUME NEW j \in Inst, NEW t \in Own(j)'
        PROVE  /\ t.page \in locked'
               /\ t \notin Wiped(j)' => bytes'[t.page] = {t.key}
               /\ t \in Wiped(j)' => bytes'[t.page] = {}
    <3>1. t \in Own(j) /\ t.page \in locked /\ t.page # s.page
      BY <1>9, <1>12, MemoryFacts
    <3>2. t \in Wiped(j)' <=> t \in Wiped(j)
      BY <1>3, <1>7, <1>9
    <3> QED
      BY <1>1, <1>11, <3>1, <3>2, MemoryFacts
  <2>3. \A j \in Inst : \A q \in Hand(j)' : bytes'[q] = {}
    BY <1>9, <1>11, MemoryFacts
  <2>4. \A j \in Inst : At(j, "copy")' => Hand(j)' \subseteq locked'
    BY <1>1, <1>9, <1>13, MemoryFacts
  <2> QED
    BY <2>1, <2>2, <2>3, <2>4 DEF BytesTold
<1>17. /\ allocated' \subseteq Page /\ locked' \subseteq allocated'
       /\ bytes' \in [Page -> SUBSET Subkey]
  BY <1>1, <1>11, MemoryFacts
<1> QED
  BY <1>5, <1>7, <1>14, <1>15, <1>16, <1>17 DEF MemoryInv
-----------------------------------------------------------------------------
(***************************************************************************)
(* The invariant.                                                          *)
(***************************************************************************)
LEMMA IInvInit == Init => IInv
<1> SUFFICES ASSUME Init PROVE IInv
  OBVIOUS
<1>1. /\ vault \in [Inst -> KeyPair \cup {NULL}]
      /\ call \in [Inst -> Call \cup {NULL}]
      /\ \A i \in Inst : vault[i] = NULL /\ call[i] = NULL
  BY DEF Init
<1>2. \A i \in Inst : Own(i) = {} /\ Hand(i) = {} /\ Wiped(i) = {}
  BY <1>1 DEF Own, VaultPair, BasePair, Got, Gone, Hand, Wiped, At
<1>3. \A i \in Inst : CallInv(i)
  BY <1>1 DEF CallInv, SettingUp, Dropping
<1>4. PagesTold
  BY <1>2 DEF PagesTold
<1>5. allocated = {} /\ locked = {} /\ bytes \in [Page -> SUBSET Subkey]
      /\ \A p \in Page : bytes[p] = {}
  BY DEF Init
<1>6. BytesTold
  BY <1>2, <1>5 DEF BytesTold
<1>7. \A p \in Page : p \in allocated <=> \E i \in Inst : UsedBy(p, i)
  BY <1>2, <1>5 DEF UsedBy
<1> QED
  BY <1>1, <1>3, <1>4, <1>5, <1>6, <1>7 DEF IInv, MemoryInv

\* A step leaves functions of the vaults.
LEMMA FunctionsKept ==
    ASSUME IInv, [Next]_vars
    PROVE  DOMAIN vault' = Inst /\ DOMAIN call' = Inst
           /\ vault' = [i \in Inst |-> vault'[i]] /\ call' = [i \in Inst |-> call'[i]]
<1>1. vault = [i \in Inst |-> vault[i]] /\ call = [i \in Inst |-> call[i]]
  BY DEF IInv
<1>2. CASE UNCHANGED vars
  BY <1>1, <1>2 DEF vars
<1>3. ASSUME NEW i \in Inst, NEW name \in CallName, BeginKeySetup(i, name)
      PROVE  /\ vault' = vault
             /\ \E c : call' = [call EXCEPT ![i] = c]
  BY <1>3 DEF BeginKeySetup
<1>4. ASSUME NEW i \in Inst, DropVault(i) \/ Step(i)
      PROVE  /\ \E v : vault' = [vault EXCEPT ![i] = v]
             /\ \E c : call' = [call EXCEPT ![i] = c]
  <2>1. vault = [vault EXCEPT ![i] = vault[i]]
    BY <1>1
  <2>2. CASE DropVault(i)
    BY <2>2 DEF DropVault
  <2>3. CASE MallocSized(i)
    BY <2>1, <2>3 DEF MallocSized
  <2>4. CASE AllocFails(i)
    BY <2>1, <2>4 DEF AllocFails, Fails
  <2>5. CASE Mlock(i)
    BY <2>1, <2>5 DEF Mlock
  <2>6. CASE MlockFails(i)
    BY <2>1, <2>6 DEF MlockFails, Fails
  <2>7. CASE CopyFromSlice(i)
    BY <2>1, <2>7 DEF CopyFromSlice
  <2>8. CASE ReturnVault(i)
    BY <2>1, <2>8 DEF ReturnVault
  <2>9. CASE RekeyLegacy(i)
    BY <2>1, <2>9 DEF RekeyLegacy
  <2>10. CASE ReencryptFails(i)
    BY <2>1, <2>10 DEF ReencryptFails, Fails
  <2>11. CASE ReplaceIndex(i)
    BY <2>11 DEF ReplaceIndex
  <2>12. CASE Zeroize(i)
    BY <2>1, <2>12 DEF Zeroize
  <2>13. CASE FreeRegion(i)
    BY <2>1, <2>13 DEF FreeRegion
  <2> QED
    BY <1>4, <2>2, <2>3, <2>4, <2>5, <2>6, <2>7, <2>8, <2>9, <2>10, <2>11, <2>12, <2>13 DEF Step
<1>5. CASE Next
  <2>1. PICK i \in Inst : \/ \E name \in CallName : BeginKeySetup(i, name)
                          \/ DropVault(i) \/ Step(i)
    BY <1>5 DEF Next
  <2>2. /\ vault' = vault \/ \E v : vault' = [vault EXCEPT ![i] = v]
        /\ \E c : call' = [call EXCEPT ![i] = c]
    BY <1>3, <1>4, <2>1
  <2>3. vault' = [j \in Inst |-> vault'[j]]
    BY <1>1, <2>2
  <2>4. call' = [j \in Inst |-> call'[j]]
    BY <1>1, <2>2
  <2> QED
    BY <2>3, <2>4
<1> QED
  BY <1>2, <1>5

LEMMA IInvNext == IInv /\ [Next]_vars => IInv'
<1> SUFFICES ASSUME IInv, [Next]_vars PROVE IInv'
  OBVIOUS
<1>1. ASSUME NEW i \in Inst, OnlyOn(i), CallInv(i)', MemoryInv'
      PROVE  IInv'
  <2>1. \A j \in Inst : CallInv(j)'
    BY <1>1, OthersLeft
  <2>2. \A j \in Inst : vault'[j] \in KeyPair \cup {NULL} /\ call'[j] \in Call \cup {NULL}
    BY <2>1 DEF CallInv
  <2>3. /\ vault' \in [Inst -> KeyPair \cup {NULL}]
        /\ call' \in [Inst -> Call \cup {NULL}]
    BY <2>2, FunctionsKept
  <2> QED
    BY <1>1, <2>1, <2>3 DEF IInv
<1>2. CASE UNCHANGED vars
  <2>1. UNCHANGED <<allocated, locked, bytes, vault, call>>
    BY <1>2 DEF vars
  <2>2. \A i \in Inst : CallInv(i)'
    BY <2>1 DEF IInv, CallInv, IsCall, PairOf, SettingUp, Dropping, SetUp, Dropped,
                VaultPair, BasePair, Gone
  <2>3. \A i \in Inst : /\ Own(i)' = Own(i) /\ Hand(i)' = Hand(i) /\ Wiped(i)' = Wiped(i)
                        /\ At(i, "copy")' = At(i, "copy")
    BY <2>1 DEF Own, VaultPair, BasePair, Got, Gone, Hand, Wiped, At
  <2>4. MemoryInv'
    BY <2>1, <2>3 DEF IInv, MemoryInv, PagesTold, BytesTold, UsedBy
  <2> QED
    BY <2>1, <2>2, <2>4 DEF IInv
<1>3. CASE Next
  <2>1. PICK i \in Inst : \/ \E name \in CallName : BeginKeySetup(i, name)
                          \/ DropVault(i) \/ Step(i)
    BY <1>3 DEF Next
  <2>2. OnlyOn(i) /\ CallInv(i)' /\ MemoryInv'
    BY <2>1, BeginKeySetupKeeps, DropVaultKeeps, MallocSizedKeeps, FailureKeeps, MlockKeeps,
       MlockFailsKeeps, CopyFromSliceKeeps, ReturnVaultKeeps, RekeyLegacyKeeps,
       ReplaceIndexKeeps, ZeroizeKeeps, FreeRegionKeeps DEF Step
  <2> QED
    BY <1>1, <2>2
<1> QED
  BY <1>2, <1>3

THEOREM IInvHolds == Spec => []IInv
<1>1. Init => IInv
  BY IInvInit
<1>2. IInv /\ [Next]_vars => IInv'
  BY IInvNext
<1> QED
  BY <1>1, <1>2, PTL DEF Spec
-----------------------------------------------------------------------------
(***************************************************************************)
(* What follows from it.                                                   *)
(***************************************************************************)
\* Every variable keeps its type; in particular nothing is locked that is not
\* allocated, and a call that has begun to drop has something to drop.
THEOREM TypeCorrect == Spec => []TypeOK
<1>1. IInv => TypeOK
  BY DEF IInv, MemoryInv, CallInv, TypeOK
<1> QED
  BY <1>1, IInvHolds, PTL

\* The containers of a vault that is open, and those a call has built or
\* read, are among what it owns, and their pages have not been wiped.
LEMMA LiveOwned ==
    ASSUME IInv, NEW i \in Inst
    PROVE  /\ Live(i) = VaultPair(i) \cup BasePair(i) \cup Got(i)
           /\ Live(i) \subseteq Own(i)
           /\ Live(i) \cap Wiped(i) = {}
<1>1. CallInv(i)
  BY DEF IInv
<1>2. vault[i] # NULL => ToSet(Containers(vault[i])) = VaultPair(i)
  BY <1>1, PairContainers DEF CallInv, VaultPair
<1>3. call[i] # NULL /\ call[i].base # NULL => ToSet(Containers(call[i].base)) = BasePair(i)
  BY <1>1, PairContainers DEF CallInv, Call, BasePair
<1>4. Live(i) = VaultPair(i) \cup BasePair(i) \cup Got(i)
  <2>1. (IF vault[i] = NULL THEN {} ELSE ToSet(Containers(vault[i]))) = VaultPair(i)
    BY <1>2 DEF VaultPair
  <2>2. CASE call[i] = NULL
    BY <2>1, <2>2 DEF Live, BasePair, Got
  <2>3. CASE call[i] # NULL /\ call[i].base = NULL
    BY <2>1, <2>3 DEF Live, BasePair, Got
  <2>4. CASE call[i] # NULL /\ call[i].base # NULL
    BY <1>3, <2>1, <2>4 DEF Live, BasePair, Got
  <2> QED
    BY <2>2, <2>3, <2>4
<1>5. Live(i) \cap Wiped(i) = {}
  <2>1. CASE ~At(i, "free")
    BY <2>1 DEF Wiped
  <2>2. CASE At(i, "free")
    <3>1. Dropping(i)
      BY <2>2 DEF At, Dropping
    <3> QED
      BY <1>4, <2>2, <3>1, NextDropped DEF Wiped
  <2> QED
    BY <2>1, <2>2
<1> QED
  BY <1>4, <1>5 DEF Own

\* A container that lives has its page locked and its subkey on it, and
\* nothing else there, whatever the other threads lock and unlock.
THEOREM KeysAlwaysLocked == Spec => []KeysStayLocked
<1>1. IInv => KeysStayLocked
  <2> SUFFICES ASSUME IInv PROVE KeysStayLocked
    OBVIOUS
  <2>1. \A i \in Inst : \A s \in Live(i) : s.page \in locked /\ bytes[s.page] = {s.key}
    BY LiveOwned, MemoryFacts
  <2>2. \A i \in Inst : vault[i] # NULL => PairOf(vault[i], i)
    BY DEF IInv, CallInv
  <2> QED
    BY <2>1, <2>2 DEF KeysStayLocked, PairOf
<1> QED
  BY <1>1, IInvHolds, PTL

\* A subkey is never on a page that can be swapped out or handed out again:
\* also while it is copied in, while a call that failed gives its pages back,
\* and while a container is dropped.
THEOREM NoKeyEverUnlocked == Spec => []NoKeyUnlocked
<1>1. IInv => NoKeyUnlocked
  <2> SUFFICES ASSUME IInv, NEW p \in Page, bytes[p] # {}
               PROVE  p \in locked /\ p \in allocated
    BY DEF NoKeyUnlocked
  <2>1. p \in allocated
    BY DEF IInv, MemoryInv, BytesTold
  <2>2. PICK i \in Inst : UsedBy(p, i)
    BY <2>1 DEF IInv, MemoryInv
  <2>3. p \notin Hand(i)
    BY <2>2 DEF IInv, MemoryInv, BytesTold
  <2>4. PICK s \in Own(i) : s.page = p
    BY <2>2, <2>3 DEF UsedBy
  <2> QED
    BY <2>1, <2>4, MemoryFacts
<1> QED
  BY <1>1, IInvHolds, PTL
-----------------------------------------------------------------------------
(***************************************************************************)
(* The quota.                                                              *)
(***************************************************************************)
LEMMA UpToFour ==
    ASSUME NEW a, NEW b, NEW c, NEW d, NEW S, S \subseteq {a, b, c, d}
    PROVE  /\ Cardinality(S) <= 4
           /\ S \subseteq {a, b} => Cardinality(S) <= 2
<1>1. /\ IsFiniteSet({a}) /\ Cardinality({a}) = 1
  BY FS_Singleton
<1>2. IsFiniteSet({a, b}) /\ Cardinality({a, b}) \in {1, 2}
  <2>1. {a, b} = {a} \cup {b}
    OBVIOUS
  <2> QED
    BY <1>1, <2>1, FS_AddElement
<1>3. IsFiniteSet({a, b, c}) /\ Cardinality({a, b, c}) \in {1, 2, 3}
  <2>1. {a, b, c} = {a, b} \cup {c}
    OBVIOUS
  <2> QED
    BY <1>2, <2>1, FS_AddElement
<1>4. IsFiniteSet({a, b, c, d}) /\ Cardinality({a, b, c, d}) \in {1, 2, 3, 4}
  <2>1. {a, b, c, d} = {a, b, c} \cup {d}
    OBVIOUS
  <2> QED
    BY <1>3, <2>1, FS_AddElement
<1>5. \A T : IsFiniteSet(T) /\ S \subseteq T => Cardinality(S) <= Cardinality(T) /\ Cardinality(S) \in Nat
  BY FS_Subset, FS_CardinalityType
<1>6. Cardinality(S) <= 4
  <2>1. Cardinality(S) <= Cardinality({a, b, c, d}) /\ Cardinality(S) \in Nat
    BY <1>4, <1>5
  <2> QED
    BY <1>4, <2>1
<1>7. ASSUME S \subseteq {a, b}
      PROVE  Cardinality(S) <= 2
  <2>1. Cardinality(S) <= Cardinality({a, b}) /\ Cardinality(S) \in Nat
    BY <1>2, <1>5, <1>7
  <2> QED
    BY <1>2, <2>1
<1> QED
  BY <1>6, <1>7

\* The first few containers of a list.
LEMMA FirstOnes ==
    ASSUME NEW s \in Seq(LockedSecret)
    PROVE  /\ Len(s) <= 1 => ToSet(s) \subseteq {s[1]}
           /\ Len(s) <= 2 => ToSet(s) \subseteq {s[1], s[2]}
           /\ Len(s) <= 4 => ToSet(s) \subseteq {s[1], s[2], s[3], s[4]}
<1>1. Len(s) \in Nat /\ DOMAIN s = 1..Len(s)
  BY LenProperties
<1>2. \A k \in DOMAIN s : /\ Len(s) <= 1 => k = 1
                          /\ Len(s) <= 2 => k = 1 \/ k = 2
                          /\ Len(s) <= 4 => k = 1 \/ k = 2 \/ k = 3 \/ k = 4
  BY <1>1
<1> QED
  BY <1>2 DEF ToSet

\* The pages of a vault are those of what it owns, and the one in hand.
LEMMA PagesOwned ==
    ASSUME IInv, NEW i \in Inst
    PROVE  PagesOf(i) = {s.page : s \in Own(i)} \cup Hand(i)
<1>1. Live(i) \cup Gone(i) = Own(i)
  BY LiveOwned DEF Own
<1>2. CASE call[i] = NULL
  BY <1>1, <1>2 DEF PagesOf, Gone, Hand
<1>3. CASE call[i] # NULL
  <2>1. PagesOf(i) = {s.page : s \in Live(i)} \cup ({s.page : s \in Gone(i)} \cup Hand(i))
    BY <1>3 DEF PagesOf, Gone, Hand
  <2>2. {s.page : s \in Live(i)} \cup {s.page : s \in Gone(i)} = {s.page : s \in Own(i)}
    BY <1>1
  <2> QED
    BY <2>1, <2>2
<1> QED
  BY <1>2, <1>3

\* At most four containers at a time, or three and a page in hand.
LEMMA OwnFew ==
    ASSUME IInv, NEW i \in Inst
    PROVE  Cardinality(PagesOf(i))
               <= IF call[i] # NULL THEN 4 ELSE IF vault[i] # NULL THEN 2 ELSE 0
<1>0. CallInv(i) /\ PagesOf(i) = {s.page : s \in Own(i)} \cup Hand(i)
  BY PagesOwned DEF IInv
<1>1. CASE call[i] = NULL /\ vault[i] = NULL
  <2>1. PagesOf(i) = {}
    BY <1>0, <1>1 DEF Own, VaultPair, BasePair, Got, Gone, Hand
  <2> QED
    BY <1>1, <2>1, FS_EmptySet
<1>2. CASE call[i] = NULL /\ vault[i] # NULL
  <2> DEFINE a == vault[i].enc.page
             b == vault[i].hmac.page
  <2>1. PagesOf(i) \subseteq {a, b}
    BY <1>0, <1>2 DEF Own, VaultPair, BasePair, Got, Gone, Hand
  <2> HIDE DEF a, b
  <2>2. PagesOf(i) \subseteq {a, b, a, b}
    BY <2>1
  <2>3. Cardinality(PagesOf(i)) <= 2
    BY <2>1, <2>2, UpToFour
  <2> QED
    BY <1>2, <2>3
<1>3. CASE SettingUp(i)
  <2> DEFINE g == call[i].got
             x == IF vault[i] # NULL THEN vault[i] ELSE call[i].base
  <2>1. /\ g \in Seq(LockedSecret) /\ Len(g) \in 0..2 /\ SetUp(i) /\ Gone(i) = {}
        /\ Got(i) = ToSet(g) /\ call[i] # NULL
        /\ call[i].at \in {"lock", "copy"} => Hand(i) = {call[i].page}
        /\ call[i].at \notin {"lock", "copy"} => Hand(i) = {}
    BY <1>0, <1>3, CallFacts DEF SettingUp
  <2>2. VaultPair(i) \cup BasePair(i) \subseteq {x.enc, x.hmac}
    BY <2>1 DEF SetUp, VaultPair, BasePair
  <2>3. CASE Hand(i) = {}
    <3>0. ToSet(g) \subseteq {g[1], g[2]}
      <4> HIDE DEF g
      <4>1. Len(g) <= 2
        <5>1. Len(g) \in 0..2
          BY <2>1
        <5>2. \A n \in 0..2 : n <= 2
          OBVIOUS
        <5> QED
          BY <5>1, <5>2
      <4> QED
        BY <2>1, <4>1, FirstOnes
    <3>1. Own(i) \subseteq {x.enc, x.hmac, g[1], g[2]}
      BY <2>1, <2>2, <3>0 DEF Own
    <3>2. PagesOf(i) \subseteq {x.enc.page, x.hmac.page, g[1].page, g[2].page}
      BY <1>0, <2>3, <3>1
    <3> QED
      BY <2>1, <3>2, UpToFour
  <2>4. CASE Hand(i) = {call[i].page} /\ call[i].at \in {"lock", "copy"}
    <3>1. Len(g) <= 1
      BY <2>1, <2>4 DEF SetUp
    <3>2. Own(i) \subseteq {x.enc, x.hmac, g[1]}
      BY <2>1, <2>2, <3>1, FirstOnes DEF Own
    <3>3. PagesOf(i) \subseteq {x.enc.page, x.hmac.page, g[1].page, call[i].page}
      BY <1>0, <2>4, <3>2
    <3> QED
      BY <2>1, <3>3, UpToFour
  <2> QED
    BY <2>1, <2>3, <2>4
<1>4. CASE Dropping(i)
  <2> DEFINE g == call[i].gone
  <2>1. /\ g \in Seq(LockedSecret) /\ Dropped(i) /\ Gone(i) = ToSet(g)
        /\ Got(i) = {} /\ BasePair(i) = {} /\ Hand(i) = {}
    BY <1>4, NextDropped
  <2>2. CASE vault[i] = NULL
    <3>1. Own(i) \subseteq {g[1], g[2], g[3], g[4]}
      BY <2>1, <2>2, FirstOnes DEF Own, Dropped, VaultPair
    <3>2. PagesOf(i) \subseteq {g[1].page, g[2].page, g[3].page, g[4].page}
      BY <1>0, <2>1, <3>1
    <3> QED
      BY <1>4, <3>2, UpToFour DEF Dropping
  <2>3. CASE vault[i] # NULL
    <3>1. Own(i) \subseteq {vault[i].enc, vault[i].hmac, g[1], g[2]}
      BY <2>1, <2>3, FirstOnes DEF Own, Dropped, VaultPair
    <3>2. PagesOf(i) \subseteq {vault[i].enc.page, vault[i].hmac.page, g[1].page, g[2].page}
      BY <1>0, <2>1, <3>1
    <3> QED
      BY <1>4, <3>2, UpToFour DEF Dropping
  <2> QED
    BY <2>2, <2>3
<1> QED
  BY <1>0, <1>1, <1>2, <1>3, <1>4 DEF CallInv, SettingUp, Dropping, Call

\* Every page that is taken is a vault's, of one of its containers or about
\* to become one: at most two for an open vault, four while a call is at work
\* on it, none for a vault that is closed.  No failure leaks a page.
THEOREM PagesAlwaysAccounted == Spec => []PagesAccounted
<1>1. IInv => PagesAccounted
  <2> SUFFICES ASSUME IInv PROVE PagesAccounted
    OBVIOUS
  <2>1. \A i \in Inst : \A p : p \in PagesOf(i) <=> UsedBy(p, i)
    BY PagesOwned DEF UsedBy
  <2>2. \A i \in Inst : \A p : UsedBy(p, i) => p \in Page
    <3>1. \A i \in Inst : \A p \in Hand(i) : p \in Page
      BY DEF Hand, IInv, CallInv, Call
    <3> QED
      BY <3>1, MemoryFacts DEF UsedBy
  <2>3. allocated = UNION {PagesOf(i) : i \in Inst}
    <3>1. \A p : p \in allocated <=> \E i \in Inst : p \in PagesOf(i)
      <4>1. /\ allocated \subseteq Page
            /\ \A p \in Page : p \in allocated <=> \E i \in Inst : UsedBy(p, i)
        BY DEF IInv, MemoryInv
      <4>2. \A p : (\E i \in Inst : UsedBy(p, i)) => p \in Page
        BY <2>2
      <4>3. \A p : p \in allocated <=> \E i \in Inst : UsedBy(p, i)
        BY <4>1, <4>2
      <4> QED
        BY <2>1, <4>3
    <3>2. \A p : p \in UNION {PagesOf(i) : i \in Inst} <=> \E i \in Inst : p \in PagesOf(i)
      OBVIOUS
    <3> QED
      BY <3>1, <3>2
  <2> QED
    BY <2>3, OwnFew DEF PagesAccounted
<1> QED
  BY <1>1, IInvHolds, PTL
=============================================================================
