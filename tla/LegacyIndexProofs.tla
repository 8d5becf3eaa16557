--------------------------- MODULE LegacyIndexProofs ---------------------------
(***************************************************************************)
(* Proofs about LegacyIndex, for every document: decode_index_v1 loses no  *)
(* entry, and rejects only for a cause that is in the document, in         *)
(* whatever order its loop takes the entries.                              *)
(***************************************************************************)
EXTENDS LegacyIndex, SequenceTheorems, FiniteSetTheorems, WellFoundedInduction, TLAPS

\* The names in the document.
Keys == {m.key : m \in Members}

\* Where in the document a name stands.
At(key) == {k \in DOMAIN doc.members : doc.members[k].key = key}

\* The loop is at work, or has come to its end.
Loaded == parsed # NULL /\ result # "CorruptedData"

\* What the loop has made of the names it has taken.
Progress ==
    /\ Cardinality(Keys) <= MAX_INDEX_ENTRIES
    /\ todo \subseteq Keys
    /\ DOMAIN files = {key \in Keys \ todo : ~parsed[key].is_dummy}
    /\ \A key \in DOMAIN files :
        EntryOk(key, parsed[key]) /\ files[key] = IndexEntry(parsed[key])

IInv ==
    /\ doc \in Document
    /\ result \in {NULL, "Ok", "CorruptedData"}
    /\ parsed \in {NULL, FromMembers(doc.members)}
    /\ parsed = NULL => files = <<>> /\ result # "Ok"
    /\ result = "Ok" => todo = {}
    /\ Loaded => Progress
    /\ RejectedForACause
-----------------------------------------------------------------------------
\* A set of positions has a last one.
LEMMA LastPosition ==
    ASSUME NEW n \in Nat, NEW S \in SUBSET (1..n), S # {}
    PROVE  Max(S) \in S /\ \A k \in S : k <= Max(S)
<1> DEFINE R == {ss \in Nat \X Nat : ss[1] < ss[2]}
           T == {n - k : k \in S}
<1>1. IsWellFoundedOn(R, Nat)
  BY NatLessThanWellFounded DEF OpToRel
<1>2. T \subseteq Nat /\ T # {}
  <2>1. \A k \in S : k \in 1..n
    OBVIOUS
  <2>2. \A k \in 1..n : n - k \in Nat
    OBVIOUS
  <2> QED
    BY <2>1, <2>2
<1>3. \A x, y \in Nat : y < x => <<y, x>> \in R
  OBVIOUS
<1> HIDE DEF R, T
<1>4. PICK x \in T : \A y \in T : ~(<<y, x>> \in R)
  BY <1>1, <1>2, WFMin
<1>5. PICK m \in S : x = n - m
  BY DEF T
<1>6. \A k \in S : k <= m
  <2> SUFFICES ASSUME NEW k \in S PROVE k <= m
    OBVIOUS
  <2>1. n - k \in T
    BY DEF T
  <2>2. ~(n - k < n - m)
    BY <1>2, <1>3, <1>4, <1>5, <2>1
  <2> QED
    BY <2>2
<1>7. \A k \in S : m >= k
  BY <1>6
<1> QED
  BY <1>7 DEF Max

\* Every name in a document has one effective member, the last of its name,
\* and that is the one serde's map holds.
LEMMA EffectiveFacts ==
    ASSUME doc \in Document
    PROVE  /\ DOMAIN FromMembers(doc.members) = Keys
           /\ \A m \in Effective : m.key \in Keys /\ FromMembers(doc.members)[m.key] = m.meta
           /\ \A key \in Keys : \E m \in Effective :
                m.key = key /\ m.meta = FromMembers(doc.members)[key]
<1> DEFINE ms == doc.members
           n == Len(ms)
<1>1. n \in Nat /\ DOMAIN ms = 1..n
  <2>1. ms \in Seq(Range(ms))
    BY DocumentAssumption
  <2> HIDE DEF ms
  <2> QED
    BY <2>1, LenProperties
<1>2. \A key \in Keys : At(key) \in SUBSET (1..n) /\ At(key) # {}
  BY <1>1 DEF Keys, Members, At, Range
<1>3. \A key \in Keys : /\ Max(At(key)) \in At(key)
                        /\ \A k \in At(key) : k <= Max(At(key))
  <2> HIDE DEF n
  <2> QED
    BY <1>1, <1>2, LastPosition
<1>4. /\ DOMAIN FromMembers(ms) = Keys
      /\ \A key \in Keys : FromMembers(ms)[key] = ms[Max(At(key))].meta
  BY DEF FromMembers, Keys, Members, At
<1>5. \A k \in DOMAIN ms : ms[k].key \in Keys /\ k \in At(ms[k].key)
  BY DEF Keys, Members, At, Range
<1>6. \A k \in DOMAIN ms : ~Superseded(k) => k = Max(At(ms[k].key))
  <2> SUFFICES ASSUME NEW k \in DOMAIN ms, ~Superseded(k)
               PROVE  k = Max(At(ms[k].key))
    OBVIOUS
  <2> DEFINE l == Max(At(ms[k].key))
  <2>1. l \in At(ms[k].key) /\ k <= l
    BY <1>3, <1>5
  <2>2. l \in DOMAIN ms /\ ms[l].key = ms[k].key
    BY <2>1 DEF At
  <2>3. ~(l > k)
    BY <2>2 DEF Superseded
  <2> HIDE DEF l
  <2> QED
    BY <1>1, <2>1, <2>2, <2>3 DEF l
<1>7. \A key \in Keys : ~Superseded(Max(At(key)))
  <2> SUFFICES ASSUME NEW key \in Keys, Superseded(Max(At(key)))
               PROVE  FALSE
    OBVIOUS
  <2> DEFINE l == Max(At(key))
  <2>1. l \in DOMAIN ms /\ ms[l].key = key
    BY <1>3 DEF At
  <2>2. PICK k \in DOMAIN ms : k > l /\ ms[k].key = ms[l].key
    BY DEF Superseded
  <2>3. k \in At(key)
    BY <2>1, <2>2 DEF At
  <2>4. k <= l
    BY <1>3, <2>3
  <2> HIDE DEF l
  <2> QED
    BY <1>1, <2>1, <2>2, <2>4
<1>8. ASSUME NEW m \in Effective
      PROVE  m.key \in Keys /\ FromMembers(ms)[m.key] = m.meta
  <2>1. PICK k \in DOMAIN ms : m = ms[k] /\ ~Superseded(k)
    BY DEF Effective
  <2> QED
    BY <1>4, <1>5, <1>6, <2>1
<1>9. ASSUME NEW key \in Keys
      PROVE  \E m \in Effective : m.key = key /\ m.meta = FromMembers(ms)[key]
  <2> DEFINE l == Max(At(key))
  <2>1. l \in DOMAIN ms /\ ms[l].key = key
    BY <1>3 DEF At
  <2>2. ms[l] \in Effective
    BY <1>7, <2>1 DEF Effective
  <2> QED
    BY <1>4, <2>1, <2>2
<1> QED
  BY <1>4, <1>8, <1>9

\* A document has finitely many names.
LEMMA KeysFinite ==
    ASSUME doc \in Document
    PROVE  IsFiniteSet(Keys)
<1> DEFINE ms == doc.members
           n == Len(ms)
           f == [k \in 1..n |-> ms[k].key]
<1>1. n \in Nat /\ DOMAIN ms = 1..n
  <2>1. ms \in Seq(Range(ms))
    BY DocumentAssumption
  <2> HIDE DEF ms
  <2> QED
    BY <2>1, LenProperties
<1>2. \A key \in Keys : \E k \in 1..n : f[k] = key
  BY <1>1 DEF Keys, Members, Range
<1>3. \A k \in 1..n : f[k] \in Keys
  BY <1>1 DEF Keys, Members, Range
<1>4. f \in Surjection(1..n, Keys)
  BY <1>2, <1>3 DEF Surjection
<1> HIDE DEF f, n
<1>5. IsFiniteSet(1..n)
  BY <1>1, FS_Interval
<1> QED
  BY <1>4, <1>5, FS_Surjection
-----------------------------------------------------------------------------
LEMMA InitHolds == Init => IInv
  BY DocumentAssumption DEF Init, IInv, Loaded, RejectedForACause

\* What the document says does not change.
LEMMA SameDocument ==
    ASSUME UNCHANGED doc
    PROVE  /\ Keys' = Keys /\ Real' = Real
           /\ FromMembers(doc.members)' = FromMembers(doc.members)
           /\ \A m \in Real : Storable(m)' <=> Storable(m)
  BY DEF Keys, Members, Real, Effective, Superseded, FromMembers, Storable

LEMMA FromSliceStep ==
    ASSUME IInv, FromSlice
    PROVE  IInv'
<1>1. /\ doc \in Document /\ parsed = NULL /\ files = <<>> /\ UNCHANGED <<doc, files>>
      /\ result \in {NULL, "CorruptedData"} /\ parsed' = FromMembers(doc.members)
  BY DEF IInv, FromSlice, Rejects
<1>2. DOMAIN parsed' = Keys
  BY <1>1, EffectiveFacts
<1>3. parsed' \in {NULL, FromMembers(doc.members)}'
  BY <1>1
<1>4. CASE \/ doc.version # LEGACY_INDEX_VERSION_1
           \/ Cardinality(DOMAIN parsed') > MAX_INDEX_ENTRIES
  <2>1. result' = "CorruptedData"
    BY <1>4 DEF FromSlice, Rejects
  <2>2. RejectedForACause'
    BY <1>1, <1>2, <1>4 DEF RejectedForACause, Keys, Members
  <2> QED
    BY <1>1, <1>3, <2>1, <2>2, DocumentAssumption DEF IInv, Loaded
<1>5. CASE /\ doc.version = LEGACY_INDEX_VERSION_1
           /\ ~(Cardinality(DOMAIN parsed') > MAX_INDEX_ENTRIES)
  <2>1. todo' = Keys /\ result' = result
    BY <1>2, <1>5 DEF FromSlice
  <2>2. Cardinality(Keys) <= MAX_INDEX_ENTRIES
    <3>1. Cardinality(Keys) \in Nat
      BY <1>1, KeysFinite, FS_CardinalityType
    <3> QED
      BY <1>2, <1>5, <3>1, DocumentAssumption
  <2>3. Progress'
    BY <1>1, <2>1, <2>2, SameDocument DEF Progress
  <2>4. RejectedForACause'
    BY <1>1, <2>1 DEF IInv, RejectedForACause, Members, Real, Effective, Superseded, Storable
  <2> QED
    BY <1>1, <1>3, <2>1, <2>3, <2>4, DocumentAssumption DEF IInv
<1> QED
  BY <1>4, <1>5

LEMMA TakeEntryStep ==
    ASSUME IInv, TakeEntry
    PROVE  IInv'
<1>1. /\ doc \in Document /\ parsed # NULL /\ result = NULL /\ Progress
      /\ parsed = FromMembers(doc.members) /\ UNCHANGED <<doc, parsed>>
  BY DocumentAssumption DEF IInv, TakeEntry, Running, Rejects, Loaded
<1>2. PICK key \in todo :
        LET meta == parsed[key] IN
        IF Skips(meta) \/ EntryOk(key, meta)
        THEN /\ todo' = todo \ {key}
             /\ files' = IF Skips(meta) THEN files
                         ELSE [k \in DOMAIN files \cup {key} |->
                                  IF k = key THEN IndexEntry(meta) ELSE files[k]]
             /\ UNCHANGED <<doc, result>>
        ELSE Rejects
  BY DEF TakeEntry
<1>3. key \in Keys
  BY <1>1 DEF Progress
<1>4. CASE Skips(parsed[key])
  <2>1. todo' = todo \ {key} /\ UNCHANGED <<files, result>>
    BY <1>2, <1>4
  <2>2. Progress'
    BY <1>1, <1>4, <2>1, SameDocument DEF Progress, Skips, EntryOk, EntrySizesOk, IndexEntry
  <2> QED
    BY <1>1, <2>1, <2>2, SameDocument, DocumentAssumption DEF IInv, RejectedForACause
<1>5. CASE ~Skips(parsed[key]) /\ EntryOk(key, parsed[key])
  <2>1. /\ todo' = todo \ {key} /\ result' = result
        /\ files' = [k \in DOMAIN files \cup {key} |->
                        IF k = key THEN IndexEntry(parsed[key]) ELSE files[k]]
    BY <1>2, <1>5
  <2>2. DOMAIN files' = DOMAIN files \cup {key}
    BY <2>1
  <2>3. \A k \in DOMAIN files' : EntryOk(k, parsed[k]) /\ files'[k] = IndexEntry(parsed[k])
    BY <1>1, <1>5, <2>1 DEF Progress
  <2>4. DOMAIN files' = {k \in Keys \ todo' : ~parsed[k].is_dummy}
    BY <1>1, <1>3, <1>5, <2>1, <2>2 DEF Progress, Skips
  <2>5. Progress'
    BY <1>1, <2>1, <2>3, <2>4, SameDocument DEF Progress
  <2> QED
    BY <1>1, <2>1, <2>5, SameDocument, DocumentAssumption DEF IInv, RejectedForACause
<1>6. CASE ~Skips(parsed[key]) /\ ~EntryOk(key, parsed[key])
  <2>1. result' = "CorruptedData"
    BY <1>2, <1>6 DEF Rejects
  <2>2. PICK m \in Effective : m.key = key /\ m.meta = parsed[key]
    BY <1>1, <1>3, EffectiveFacts
  <2>3. m \in Real /\ ~Storable(m)
    BY <1>6, <2>2 DEF Real, Skips, EntryOk, Storable
  <2>4. RejectedForACause'
    BY <1>1, <2>3, SameDocument DEF RejectedForACause
  <2> QED
    BY <1>1, <2>1, <2>4, SameDocument, DocumentAssumption DEF IInv, Loaded
<1> QED
  BY <1>4, <1>5, <1>6

LEMMA FinishStep ==
    ASSUME IInv, Finish
    PROVE  IInv'
  BY DocumentAssumption, SameDocument
  DEF IInv, Finish, Running, Loaded, Progress, RejectedForACause, EntryOk, IndexEntry

LEMMA NextHolds == IInv /\ [Next]_vars => IInv'
<1> SUFFICES ASSUME IInv, [Next]_vars PROVE IInv'
  OBVIOUS
<1>1. CASE UNCHANGED vars
  BY <1>1, SameDocument DEF vars, IInv, Loaded, Progress, RejectedForACause, Members, Storable
<1>2. CASE FromSlice
  BY <1>2, FromSliceStep
<1>3. CASE TakeEntry
  BY <1>3, TakeEntryStep
<1>4. CASE Finish
  BY <1>4, FinishStep
<1>5. CASE Returned
  BY <1>1, <1>5 DEF Returned
<1> QED
  BY <1>1, <1>2, <1>3, <1>4, <1>5 DEF Next

\* Every state of the decoder has IInv.
THEOREM IInvHolds == Spec => []IInv
  BY InitHolds, NextHolds, PTL DEF Spec

\* What an accepted document holds is all in the map.
LEMMA NoneMissing == IInv => NoEntryLost
<1> SUFFICES ASSUME IInv, result = "Ok"
             PROVE  /\ DOMAIN files = {m.key : m \in Real}
                    /\ \A m \in Real : Storable(m) /\ files[m.key] = IndexEntry(m.meta)
                    /\ Cardinality(DOMAIN files) <= MAX_INDEX_ENTRIES
  BY DEF NoEntryLost
<1>1. /\ doc \in Document /\ parsed = FromMembers(doc.members) /\ todo = {} /\ Progress
  BY DEF IInv, Loaded
<1>2. DOMAIN files = {key \in Keys : ~parsed[key].is_dummy}
  BY <1>1 DEF Progress
<1>3. \A m \in Real : m.key \in Keys /\ parsed[m.key] = m.meta /\ m.key \in DOMAIN files
  BY <1>1, <1>2, EffectiveFacts DEF Real
<1>4. DOMAIN files = {m.key : m \in Real}
  <2>1. \A key \in DOMAIN files : \E m \in Real : m.key = key
    BY <1>1, <1>2, EffectiveFacts DEF Real
  <2> QED
    BY <1>3, <2>1
<1>5. \A m \in Real : Storable(m) /\ files[m.key] = IndexEntry(m.meta)
  BY <1>1, <1>3 DEF Progress, EntryOk, Storable
<1>6. Cardinality(DOMAIN files) <= MAX_INDEX_ENTRIES
  <2>1. IsFiniteSet(Keys) /\ DOMAIN files \in SUBSET Keys
    BY <1>1, <1>2, KeysFinite
  <2>2. /\ Cardinality(DOMAIN files) \in Nat /\ Cardinality(Keys) \in Nat
        /\ Cardinality(DOMAIN files) <= Cardinality(Keys)
    BY <2>1, FS_Subset, FS_CardinalityType
  <2> QED
    BY <1>1, <2>2, DocumentAssumption DEF Progress
<1> QED
  BY <1>4, <1>5, <1>6

\* An accepted version 1 index has lost no entry on its way into the current
\* format, whatever the order in which decode_index_v1 took them.
THEOREM NothingLost == Spec => []NoEntryLost
  BY IInvHolds, NoneMissing, PTL

\* A version 1 index is rejected for its version, its size or a real entry:
\* never for its padding, and never because of the order.
THEOREM RejectionsJustified == Spec => []RejectedForACause
<1>1. IInv => RejectedForACause
  BY DEF IInv
<1> QED
  BY <1>1, IInvHolds, PTL
=============================================================================
