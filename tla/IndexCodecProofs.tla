--------------------------- MODULE IndexCodecProofs ---------------------------
(***************************************************************************)
(* Proofs about IndexCodec, for inputs of every length, any number of      *)
(* entries and any limits: the decoder stays within its input, accepts     *)
(* what the encoder writes and nothing else.                               *)
(*                                                                         *)
(* The first part is about the encoder: where in its output each field of  *)
(* each entry stands, and how long the output is.  Both are sums over the  *)
(* entries; facts about all k are proved from the least k that would break *)
(* them.  The second part is the invariant of the decoder: the entries it  *)
(* has read are the first ones of an encoding, and the cursor stands where *)
(* the encoder would be.                                                   *)
(***************************************************************************)
EXTENDS IndexCodec, SequenceTheorems, FiniteSetTheorems, WellFoundedInduction, TLAPS

FieldName == {"version", "nonce_counter", "data_nonce_counter", "entry_count",
              "entry_key", "entry_data_counter", "entry_name_length", "entry_name",
              "entry_data_length", "entry_data"}
FieldValue == Version \cup Counter \cup EntryKey \cup Nat
AnyField == [name : FieldName, value : FieldValue]

LEMMA Limits ==
    /\ USIZE \in Nat /\ MAX_INDEX_ENTRIES \in Nat
    /\ NameLens \subseteq Nat /\ DataLens \subseteq Nat
    /\ \A n \in NameLens \cup DataLens : n >= 40
    /\ Count \subseteq Nat /\ CtLen \subseteq Nat /\ InputLen \subseteq Nat
    /\ VAULT_INDEX_VERSION \in Version
    /\ \A n \in Count \cup InputLen : n < USIZE
    /\ MAX_INDEX_ENTRIES * 128 < USIZE
<1>1. MIN_ENTRY_LEN = 128 /\ MIN_ENCRYPTED_LEN = 40
  BY DEF MIN_ENTRY_LEN, ENTRY_FIXED_LEN, ENTRY_KEY_LEN, MIN_ENCRYPTED_LEN,
         XCHACHA20_NONCE_LEN, POLY1305_OUTSIZE
<1>2. USIZE \in Nat /\ MAX_INDEX_ENTRIES \in Nat /\ MAX_ENTRY_NAME_LEN \in Nat
      /\ MAX_ENTRY_DATA_SIZE \in Nat
  BY CodecAssumption
<1>3. NameLens \subseteq Nat /\ DataLens \subseteq Nat /\ \A n \in NameLens \cup DataLens : n >= 40
  BY <1>1, <1>2 DEF NameLens, DataLens, MAX_ENCRYPTED_NAME_LEN, MAX_ENCRYPTED_DATA_LEN
<1>4. Count \cup CtLen \cup InputLen \subseteq 0..(USIZE - 1)
  BY CodecAssumption
<1>5. \A n \in 0..(USIZE - 1) : n \in Nat /\ n < USIZE
  BY <1>2
<1> QED
  BY <1>1, <1>2, <1>3, <1>4, <1>5, CodecAssumption

\* A set of numbers that is not empty has a least member.
LEMMA LeastMember ==
    ASSUME NEW S \in SUBSET Nat, S # {}
    PROVE  \E k \in S : \A m \in S : k <= m
<1> DEFINE R == {ss \in Nat \X Nat : ss[1] < ss[2]}
<1>1. IsWellFoundedOn(R, Nat)
  BY NatLessThanWellFounded DEF OpToRel
<1>2. \A x, y \in Nat : y < x => <<y, x>> \in R
  OBVIOUS
<1> HIDE DEF R
<1>3. PICK k \in S : \A m \in S : ~(<<m, k>> \in R)
  BY <1>1, WFMin
<1>4. \A m \in S : ~(m < k)
  BY <1>2, <1>3
<1>5. \A m \in S : k <= m
  BY <1>4
<1> QED
  BY <1>5

-----------------------------------------------------------------------------
(***************************************************************************)
(* The length of an encoding.                                              *)
(***************************************************************************)
EntryLen(e) == 48 + e.name_len + e.data_len

LEMMA EntriesAreSequences ==
    ASSUME NEW n \in Nat, NEW es \in [1..n -> Entry]
    PROVE  /\ es \in Seq(Entry) /\ Len(es) = n /\ DOMAIN es = 1..n
           /\ \A k \in 1..n : es[k] \in Entry
<1>1. es \in Seq(Entry)
  BY SeqDef
<1>2. DOMAIN es = 1..n /\ DOMAIN es = 1..Len(es) /\ Len(es) \in Nat
  BY <1>1, LenProperties
<1>3. Len(es) = n
  BY <1>2
<1> QED
  BY <1>1, <1>2, <1>3

LEMMA EntryFacts ==
    ASSUME NEW e \in Entry
    PROVE  /\ e.name_len \in Nat /\ e.data_len \in Nat
           /\ EntryLen(e) \in Nat /\ EntryLen(e) >= 128
<1>1. e.name_len \in NameLens /\ e.data_len \in DataLens
  BY DEF Entry
<1>2. e.name_len \in Nat /\ e.data_len \in Nat /\ e.name_len >= 40 /\ e.data_len >= 40
  BY <1>1, Limits
<1> QED
  BY <1>2 DEF EntryLen

\* The recursion in LenUpTo has a solution.
LEMMA LenUpToFacts ==
    ASSUME NEW n \in Nat, NEW es \in [1..n -> Entry]
    PROVE  /\ LenUpTo(es)[0] = 22
           /\ \A k \in 1..n : LenUpTo(es)[k] = LenUpTo(es)[k - 1] + EntryLen(es[k])
           /\ \A k \in 0..n : LenUpTo(es)[k] \in Nat
<1> DEFINE Sums(m, f) == f = [k \in 0..m |->
                                IF k = 0 THEN INDEX_PREAMBLE_LEN
                                ELSE f[k - 1] + ENTRY_FIXED_LEN + es[k].name_len + es[k].data_len]
           Broken == {m \in 0..n : ~\E f : Sums(m, f)}
<1>0. Len(es) = n /\ \A k \in 1..n : es[k] \in Entry
  BY EntriesAreSequences
<1>1. INDEX_PREAMBLE_LEN = 22 /\ ENTRY_FIXED_LEN = 48
  BY DEF INDEX_PREAMBLE_LEN, ENTRY_FIXED_LEN, ENTRY_KEY_LEN
<1>2. Broken = {}
  <2> SUFFICES ASSUME Broken # {} PROVE FALSE
    OBVIOUS
  <2>1. PICK m \in Broken : \A l \in Broken : m <= l
    <3>1. Broken \subseteq Nat
      OBVIOUS
    <3> HIDE DEF Broken
    <3> QED
      BY <3>1, LeastMember
  <2>2. m \in 0..n /\ m \in Nat
    OBVIOUS
  <2>3. CASE m = 0
    <3> DEFINE g == [k \in 0..0 |-> INDEX_PREAMBLE_LEN]
    <3>1. Sums(0, g)
      OBVIOUS
    <3> QED
      BY <2>3, <3>1
  <2>4. CASE m # 0
    <3>1. m - 1 \in 0..n /\ ~(m <= m - 1)
      BY <2>2, <2>4
    <3>2. PICK f : Sums(m - 1, f)
      BY <2>1, <3>1
    <3> DEFINE g == [k \in 0..m |->
                       IF k = m
                       THEN f[m - 1] + ENTRY_FIXED_LEN + es[m].name_len + es[m].data_len
                       ELSE f[k]]
    <3>3. \A k \in 0..m : k # m => k \in 0..(m - 1) /\ (k # 0 => k - 1 \in 0..(m - 1))
      BY <2>2
    <3>4. \A k \in 0..m : g[k] = IF k = 0 THEN INDEX_PREAMBLE_LEN
                ELSE g[k - 1] + ENTRY_FIXED_LEN + es[k].name_len + es[k].data_len
      <4> SUFFICES ASSUME NEW k \in 0..m
                   PROVE g[k] = IF k = 0 THEN INDEX_PREAMBLE_LEN
                            ELSE g[k - 1] + ENTRY_FIXED_LEN + es[k].name_len + es[k].data_len
        OBVIOUS
      <4>1. CASE k = m
        <5>1. m - 1 \in 0..m /\ m - 1 # m
          BY <2>2, <2>4
        <5>2. g[m - 1] = f[m - 1]
          BY <5>1
        <5> QED
          BY <2>4, <4>1, <5>2
      <4>2. CASE k # m
        <5>1. k \in 0..(m - 1) /\ g[k] = f[k]
          BY <3>3, <4>2
        <5>2. f[k] = IF k = 0 THEN INDEX_PREAMBLE_LEN
                ELSE f[k - 1] + ENTRY_FIXED_LEN + es[k].name_len + es[k].data_len
          BY <3>2, <5>1
        <5>3. CASE k = 0
          BY <5>1, <5>2, <5>3
        <5>4. CASE k # 0
          <6>1. k - 1 \in 0..m /\ k - 1 # m
            BY <2>2, <5>1, <5>4
          <6>2. g[k - 1] = f[k - 1]
            BY <6>1
          <6> QED
            BY <5>1, <5>2, <5>4, <6>2
        <5> QED
          BY <5>3, <5>4
      <4> QED
        BY <4>1, <4>2
    <3>5. Sums(m, g)
      BY <3>4
    <3> QED
      BY <3>5
  <2> QED
    BY <2>3, <2>4
<1>3. LenUpTo(es) = CHOOSE f : Sums(n, f)
  BY <1>0 DEF LenUpTo
<1>4. Sums(n, LenUpTo(es))
  <2>1. n \in 0..n
    OBVIOUS
  <2>2. \E f : Sums(n, f)
    BY <1>2, <2>1
  <2> HIDE DEF Sums
  <2> QED
    BY <1>3, <2>2
<1>5. /\ LenUpTo(es)[0] = 22
      /\ \A k \in 1..n : LenUpTo(es)[k] = LenUpTo(es)[k - 1] + 48 + es[k].name_len + es[k].data_len
  BY <1>1, <1>4
<1> DEFINE Odd == {k \in 0..n : LenUpTo(es)[k] \notin Nat}
<1>6. Odd = {}
  <2> SUFFICES ASSUME Odd # {} PROVE FALSE
    OBVIOUS
  <2>1. PICK m \in Odd : \A l \in Odd : m <= l
    <3>1. Odd \subseteq Nat
      OBVIOUS
    <3> HIDE DEF Odd
    <3> QED
      BY <3>1, LeastMember
  <2>2. m # 0
    BY <1>5
  <2>3. m - 1 \in 0..n /\ ~(m <= m - 1) /\ m \in 1..n
    BY <2>2
  <2>4. LenUpTo(es)[m - 1] \in Nat
    BY <2>1, <2>3
  <2>5. es[m].name_len \in Nat /\ es[m].data_len \in Nat
    BY <1>0, <2>3, EntryFacts
  <2> QED
    BY <1>5, <2>3, <2>4, <2>5
<1>7. \A k \in 0..n : LenUpTo(es)[k] \in Nat
  BY <1>6
<1>8. \A k \in 1..n : LenUpTo(es)[k] = LenUpTo(es)[k - 1] + EntryLen(es[k])
  <2> SUFFICES ASSUME NEW k \in 1..n
               PROVE  LenUpTo(es)[k] = LenUpTo(es)[k - 1] + EntryLen(es[k])
    OBVIOUS
  <2>1. es[k].name_len \in Nat /\ es[k].data_len \in Nat
    BY <1>0, EntryFacts
  <2>2. k - 1 \in 0..n
    OBVIOUS
  <2>3. LenUpTo(es)[k - 1] \in Nat
    BY <1>7, <2>2
  <2> QED
    <3> DEFINE a == LenUpTo(es)[k - 1]
               x == es[k].name_len
               y == es[k].data_len
    <3>1. a \in Nat /\ x \in Nat /\ y \in Nat
      BY <2>1, <2>3
    <3>2. LenUpTo(es)[k] = a + 48 + x + y
      BY <1>5
    <3>3. EntryLen(es[k]) = 48 + x + y
      BY DEF EntryLen
    <3> HIDE DEF a, x, y
    <3>4. a + 48 + x + y = a + (48 + x + y)
      BY <3>1
    <3>5. LenUpTo(es)[k] = a + EntryLen(es[k])
      BY <3>2, <3>3, <3>4
    <3> QED
      BY <3>5 DEF a
<1> QED
  BY <1>5, <1>7, <1>8

\* Sequences of entries with a common beginning cost the same up to its end.
LEMMA SameBeginning ==
    ASSUME NEW n \in Nat, NEW es \in [1..n -> Entry],
           NEW m \in Nat, NEW xs \in [1..m -> Entry],
           NEW l \in Nat, l <= n, l <= m, \A k \in 1..l : es[k] = xs[k]
    PROVE  LenUpTo(es)[l] = LenUpTo(xs)[l]
<1> DEFINE Apart == {k \in 0..l : LenUpTo(es)[k] # LenUpTo(xs)[k]}
<1>1. Apart = {}
  <2> SUFFICES ASSUME Apart # {} PROVE FALSE
    OBVIOUS
  <2>1. PICK k \in Apart : \A j \in Apart : k <= j
    <3>1. Apart \subseteq Nat
      OBVIOUS
    <3> HIDE DEF Apart
    <3> QED
      BY <3>1, LeastMember
  <2>2. k # 0
    BY LenUpToFacts
  <2>3. k - 1 \in 0..l /\ ~(k <= k - 1) /\ k \in 1..l /\ k \in 1..n /\ k \in 1..m
    BY <2>2
  <2>4. LenUpTo(es)[k - 1] = LenUpTo(xs)[k - 1]
    BY <2>1, <2>3
  <2>5. /\ LenUpTo(es)[k] = LenUpTo(es)[k - 1] + EntryLen(es[k])
        /\ LenUpTo(xs)[k] = LenUpTo(xs)[k - 1] + EntryLen(xs[k])
    BY <2>3, LenUpToFacts
  <2> QED
    BY <2>3, <2>4, <2>5
<1>2. l \in 0..l
  OBVIOUS
<1> QED
  BY <1>1, <1>2

\* What is left after the first k entries is at least the shortest entries.
LEMMA RestIsLong ==
    ASSUME NEW n \in Nat, NEW es \in [1..n -> Entry], NEW k \in 0..n
    PROVE  LenUpTo(es)[n] >= LenUpTo(es)[k] + (n - k) * 128
<1> DEFINE Short == {d \in 0..(n - k) : ~(LenUpTo(es)[k + d] >= LenUpTo(es)[k] + d * 128)}
<1>1. \A j \in 0..n : LenUpTo(es)[j] \in Nat
  BY LenUpToFacts
<1>2. Short = {}
  <2> SUFFICES ASSUME Short # {} PROVE FALSE
    OBVIOUS
  <2>1. PICK d \in Short : \A j \in Short : d <= j
    <3>1. Short \subseteq Nat
      OBVIOUS
    <3> HIDE DEF Short
    <3> QED
      BY <3>1, LeastMember
  <2>2. d # 0
    BY <1>1
  <2>3. /\ d - 1 \in 0..(n - k) /\ ~(d <= d - 1) /\ k + d \in 1..n /\ k + (d - 1) \in 0..n
        /\ (k + d) - 1 = k + (d - 1)
    BY <2>2
  <2>4. LenUpTo(es)[k + (d - 1)] >= LenUpTo(es)[k] + (d - 1) * 128
    BY <2>1, <2>3
  <2>5. LenUpTo(es)[k + d] = LenUpTo(es)[k + (d - 1)] + EntryLen(es[k + d])
    BY <2>3, LenUpToFacts
  <2>6. EntryLen(es[k + d]) \in Nat /\ EntryLen(es[k + d]) >= 128
    BY <2>3, EntryFacts
  <2>7. LenUpTo(es)[k + (d - 1)] \in Nat /\ LenUpTo(es)[k] \in Nat
    BY <1>1, <2>3
  <2>8. \A a, b, c \in Nat : b >= 128 /\ a >= c + (d - 1) * 128 => a + b >= c + d * 128
    OBVIOUS
  <2>9. LenUpTo(es)[k + d] >= LenUpTo(es)[k] + d * 128
    BY <2>4, <2>5, <2>6, <2>7, <2>8
  <2> QED
    BY <2>9
<1>3. n - k \in 0..(n - k) /\ k + (n - k) = n
  OBVIOUS
<1> QED
  BY <1>2, <1>3

-----------------------------------------------------------------------------
(***************************************************************************)
(* The fields of an encoding, by their places.                             *)
(***************************************************************************)
LEMMA SixInARow ==
    ASSUME NEW S, NEW a \in S, NEW b \in S, NEW c \in S, NEW d \in S, NEW e \in S, NEW f \in S
    PROVE  <<a, b, c, d, e, f>> \in Seq(S) /\ Len(<<a, b, c, d, e, f>>) = 6
  OBVIOUS

LEMMA SameRange ==
    ASSUME NEW m \in Nat, NEW n \in Nat, 1..m = 1..n
    PROVE  m = n
<1>1. m >= 1 => m \in 1..n
  OBVIOUS
<1>2. n >= 1 => n \in 1..m
  OBVIOUS
<1> QED
  BY <1>1, <1>2

LEMMA FieldParts ==
    \A name, value : Field(name, value).name = name /\ Field(name, value).value = value
  BY DEF Field

LEMMA EntryFields ==
    ASSUME NEW e \in Entry
    PROVE  /\ EncodeEntry(e) \in Seq(AnyField) /\ Len(EncodeEntry(e)) = 6
           /\ EncodeEntry(e)[1] = Field("entry_key", e.key)
           /\ EncodeEntry(e)[2] = Field("entry_data_counter", e.data_counter)
           /\ EncodeEntry(e)[3] = Field("entry_name_length", e.name_len)
           /\ EncodeEntry(e)[4] = Field("entry_name", e.name_len)
           /\ EncodeEntry(e)[5] = Field("entry_data_length", e.data_len)
           /\ EncodeEntry(e)[6] = Field("entry_data", e.data_len)
<1>1. e.name_len \in Nat /\ e.data_len \in Nat /\ e.key \in EntryKey /\ e.data_counter \in Counter
  BY EntryFacts DEF Entry
<1>2. /\ Field("entry_key", e.key) \in AnyField
      /\ Field("entry_data_counter", e.data_counter) \in AnyField
      /\ Field("entry_name_length", e.name_len) \in AnyField
      /\ Field("entry_name", e.name_len) \in AnyField
      /\ Field("entry_data_length", e.data_len) \in AnyField
      /\ Field("entry_data", e.data_len) \in AnyField
  BY <1>1 DEF Field, AnyField, FieldName, FieldValue
<1>3. EncodeEntry(e) \in Seq(AnyField) /\ Len(EncodeEntry(e)) = 6
  BY <1>2, SixInARow DEF EncodeEntry
<1> QED
  BY <1>3 DEF EncodeEntry

\* FlattenSeq puts the entries one after the other.
LEMMA FlattenFacts ==
    ASSUME NEW n \in Nat, NEW es \in [1..n -> Entry]
    PROVE  LET F == FlattenSeq([k \in DOMAIN es |-> EncodeEntry(es[k])]) IN
           /\ F \in Seq(AnyField) /\ Len(F) = 6 * n
           /\ \A k \in 1..n : \A j \in 1..6 : F[6 * k - 6 + j] = EncodeEntry(es[k])[j]
<1> DEFINE parts == [k \in 1..n |-> EncodeEntry(es[k])]
           Glues(m, f) == f = [i \in 1..m |-> IF i = 1 THEN parts[i] ELSE f[i - 1] \o parts[i]]
           Broken == {m \in 1..n : ~\E f : Glues(m, f)}
<1>0. DOMAIN es = 1..n /\ \A k \in 1..n : es[k] \in Entry
  BY EntriesAreSequences
<1>1. parts \in Seq(Seq(AnyField)) /\ Len(parts) = n /\ \A k \in 1..n : parts[k] = EncodeEntry(es[k])
  <2>1. parts \in [1..n -> Seq(AnyField)]
    BY <1>0, EntryFields
  <2> HIDE DEF parts
  <2>2. parts \in Seq(Seq(AnyField))
    BY <2>1, SeqDef
  <2>3. DOMAIN parts = 1..Len(parts) /\ Len(parts) \in Nat
    BY <2>2, LenProperties
  <2>4. 1..n = 1..Len(parts)
    BY <2>1, <2>3
  <2>5. Len(parts) = n
    BY <2>3, <2>4, SameRange
  <2> QED
    BY <2>2, <2>5 DEF parts
<1> HIDE DEF parts
<1>2. Broken = {}
  <2> SUFFICES ASSUME Broken # {} PROVE FALSE
    OBVIOUS
  <2>1. PICK m \in Broken : \A l \in Broken : m <= l
    <3> HIDE DEF Glues
    <3>1. Broken \subseteq 1..n
      OBVIOUS
    <3> HIDE DEF Broken
    <3> QED
      BY <3>1, LeastMember
  <2>2. m \in 1..n /\ m \in Nat
    <3> HIDE DEF Glues
    <3>1. m \in 1..n
      OBVIOUS
    <3> QED
      BY <3>1
  <2>3. CASE m = 1
    <3> DEFINE g == [k \in 1..1 |-> parts[k]]
    <3>1. Glues(1, g)
      OBVIOUS
    <3> QED
      BY <2>3, <3>1
  <2>4. CASE m # 1
    <3>1. m - 1 \in 1..n /\ ~(m <= m - 1)
      BY <2>2, <2>4
    <3>2. PICK f : Glues(m - 1, f)
      BY <2>1, <3>1
    <3> DEFINE g == [k \in 1..m |-> IF k = m THEN f[m - 1] \o parts[m] ELSE f[k]]
    <3>3. ASSUME NEW k \in 1..m
          PROVE  g[k] = IF k = 1 THEN parts[k] ELSE g[k - 1] \o parts[k]
      <4>1. CASE k = m
        <5>1. m - 1 \in 1..m /\ m - 1 # m
          BY <2>2, <2>4
        <5>2. g[m - 1] = f[m - 1]
          BY <5>1
        <5> QED
          BY <2>4, <4>1, <5>2
      <4>2. CASE k # m
        <5>1. k \in 1..(m - 1) /\ g[k] = f[k]
          BY <2>2, <4>2
        <5>2. f[k] = IF k = 1 THEN parts[k] ELSE f[k - 1] \o parts[k]
          BY <3>2, <5>1
        <5>3. CASE k # 1
          <6>1. k - 1 \in 1..m /\ k - 1 # m
            BY <2>2, <5>1, <5>3
          <6>2. g[k - 1] = f[k - 1]
            BY <6>1
          <6> QED
            BY <5>1, <5>2, <5>3, <6>2
        <5> QED
          BY <5>1, <5>2, <5>3
      <4> QED
        BY <4>1, <4>2
    <3>4. Glues(m, g)
      BY <3>3
    <3> QED
      BY <3>4
  <2> QED
    BY <2>3, <2>4
<1>3. CASE n = 0
  <2>1. 1..n = {} /\ DOMAIN es = {} /\ [k \in DOMAIN es |-> EncodeEntry(es[k])] = <<>>
    BY <1>0, <1>3
  <2>2. Len(<<>>) = 0 /\ <<>> \in Seq(AnyField)
    BY EmptySeq
  <2>3. FlattenSeq([k \in DOMAIN es |-> EncodeEntry(es[k])]) = <<>>
    BY <2>1, <2>2 DEF FlattenSeq
  <2>4. 6 * n = 0
    BY <1>3
  <2> QED
    BY <2>1, <2>2, <2>3, <2>4
<1>4. CASE n # 0
  <2> DEFINE fl == CHOOSE f : Glues(n, f)
  <2>1. FlattenSeq([k \in DOMAIN es |-> EncodeEntry(es[k])]) = fl[n]
    <3>1. [k \in DOMAIN es |-> EncodeEntry(es[k])] = parts
      BY <1>0 DEF parts
    <3> QED
      BY <1>1, <1>4, <3>1 DEF FlattenSeq
  <2>2. Glues(n, fl)
    <3>1. n \in 1..n
      BY <1>4
    <3>2. \E f : Glues(n, f)
      BY <1>2, <3>1
    <3> HIDE DEF Glues
    <3> QED
      BY <3>2
  <2>3. /\ fl[1] = parts[1]
        /\ \A k \in 1..n : k # 1 => fl[k] = fl[k - 1] \o parts[k]
    <3>1. 1 \in 1..n
      BY <1>4
    <3> HIDE DEF fl
    <3> QED
      BY <2>2, <3>1
  <2> HIDE DEF fl, Glues, Broken
  <2> DEFINE Right(k) == /\ fl[k] \in Seq(AnyField) /\ Len(fl[k]) = 6 * k
                         /\ \A i \in 1..k : \A j \in 1..6 :
                                fl[k][6 * i - 6 + j] = EncodeEntry(es[i])[j]
             Wrong == {k \in 1..n : ~Right(k)}
  <2>4. Wrong = {}
    <3> SUFFICES ASSUME Wrong # {} PROVE FALSE
      OBVIOUS
    <3>1. PICK k \in Wrong : \A l \in Wrong : k <= l
      <4>1. Wrong \subseteq Nat
        OBVIOUS
      <4> HIDE DEF Wrong
      <4> QED
        BY <4>1, LeastMember
    <3>2. k \in 1..n /\ k \in Nat /\ ~Right(k)
      OBVIOUS
    <3>3. es[k] \in Entry /\ parts[k] = EncodeEntry(es[k]) /\ parts[k] \in Seq(AnyField) /\ Len(parts[k]) = 6
      <4>1. es[k] \in Entry /\ parts[k] = EncodeEntry(es[k])
        BY <1>0, <1>1, <3>2
      <4>2. EncodeEntry(es[k]) \in Seq(AnyField) /\ Len(EncodeEntry(es[k])) = 6
        BY <4>1, EntryFields
      <4> QED
        BY <4>1, <4>2
    <3>4. CASE k = 1
      <4>1. fl[k] \in Seq(AnyField) /\ Len(fl[k]) = 6 * k
        BY <2>3, <3>3, <3>4
      <4>2. \A i \in 1..k : \A j \in 1..6 : fl[k][6 * i - 6 + j] = EncodeEntry(es[i])[j]
        <5>1. \A i \in 1..k : i = k /\ \A j \in 1..6 : 6 * i - 6 + j = j
          BY <3>4
        <5> QED
          BY <2>3, <3>3, <3>4, <5>1
      <4> QED
        BY <3>2, <4>1, <4>2
    <3>5. CASE k # 1
      <4>1. k - 1 \in 1..n /\ ~(k <= k - 1)
        BY <3>2, <3>5
      <4>2. Right(k - 1)
        BY <3>1, <4>1
      <4>3. fl[k] = fl[k - 1] \o parts[k]
        BY <2>3, <3>2, <3>5
      <4>4. fl[k - 1] \in Seq(AnyField) /\ Len(fl[k - 1]) = 6 * (k - 1)
        BY <4>2
      <4>5. /\ fl[k] \in Seq(AnyField) /\ Len(fl[k]) = 6 * (k - 1) + 6
            /\ \A i \in 1..(6 * (k - 1) + 6) : fl[k][i] =
                 IF i <= 6 * (k - 1) THEN fl[k - 1][i] ELSE parts[k][i - 6 * (k - 1)]
        <5>1. /\ fl[k - 1] \o parts[k] \in Seq(AnyField)
              /\ Len(fl[k - 1] \o parts[k]) = Len(fl[k - 1]) + Len(parts[k])
              /\ \A i \in 1..(Len(fl[k - 1]) + Len(parts[k])) : (fl[k - 1] \o parts[k])[i] =
                   IF i <= Len(fl[k - 1]) THEN fl[k - 1][i] ELSE parts[k][i - Len(fl[k - 1])]
          BY <3>3, <4>4, ConcatProperties
        <5> HIDE DEF Right, Wrong
        <5> QED
          BY <3>3, <4>3, <4>4, <5>1
      <4>6. Len(fl[k]) = 6 * k
        BY <3>2, <4>5
      <4>7. ASSUME NEW i \in 1..k, NEW j \in 1..6
            PROVE  fl[k][6 * i - 6 + j] = EncodeEntry(es[i])[j]
        <5>1. CASE i = k
          <6>1. /\ 6 * i - 6 + j \in 1..(6 * (k - 1) + 6) /\ ~(6 * i - 6 + j <= 6 * (k - 1))
                /\ 6 * i - 6 + j - 6 * (k - 1) = j
            <7> HIDE DEF Right, Wrong
            <7>1. \A a \in 1..n : /\ 6 * a - 6 + j \in 1..(6 * (a - 1) + 6)
                                  /\ ~(6 * a - 6 + j <= 6 * (a - 1))
                                  /\ 6 * a - 6 + j - 6 * (a - 1) = j
              OBVIOUS
            <7> QED
              BY <3>2, <5>1, <7>1
          <6>2. fl[k][6 * i - 6 + j] = parts[k][6 * i - 6 + j - 6 * (k - 1)]
            BY <4>5, <6>1
          <6> QED
            BY <3>3, <5>1, <6>1, <6>2
        <5>2. CASE i # k
          <6>1. /\ i \in 1..(k - 1) /\ 6 * i - 6 + j \in 1..(6 * (k - 1) + 6)
                /\ 6 * i - 6 + j <= 6 * (k - 1)
            BY <3>2, <5>2
          <6>2. fl[k][6 * i - 6 + j] = fl[k - 1][6 * i - 6 + j]
            BY <4>5, <6>1
          <6> QED
            BY <4>2, <6>1, <6>2
        <5> QED
          BY <5>1, <5>2
      <4> QED
        BY <3>2, <4>5, <4>6, <4>7
    <3> QED
      BY <3>4, <3>5
  <2>5. Right(n)
    <3>1. n \in 1..n
      BY <1>4
    <3> QED
      BY <2>4, <3>1
  <2> QED
    BY <2>1, <2>5
<1> QED
  BY <1>3, <1>4

\* The four fields of the preamble come first, then six for each entry.
LaidOut(n, es, c, d) ==
    /\ EncodeIndex(c, d, es) \in Seq(AnyField) /\ Len(EncodeIndex(c, d, es)) = 4 + 6 * n
    /\ EncodeIndex(c, d, es)[1] = Field("version", VAULT_INDEX_VERSION)
    /\ EncodeIndex(c, d, es)[2] = Field("nonce_counter", c)
    /\ EncodeIndex(c, d, es)[3] = Field("data_nonce_counter", d)
    /\ EncodeIndex(c, d, es)[4] = Field("entry_count", n)
    /\ \A k \in 1..n : \A j \in 1..6 :
         EncodeIndex(c, d, es)[6 * k - 2 + j] = EncodeEntry(es[k])[j]

LEMMA IndexFields ==
    ASSUME NEW n \in Nat, NEW es \in [1..n -> Entry], NEW c \in Counter, NEW d \in Counter
    PROVE  LaidOut(n, es, c, d)
<1> DEFINE P == << Field("version", VAULT_INDEX_VERSION), Field("nonce_counter", c),
                   Field("data_nonce_counter", d), Field("entry_count", n) >>
           F == FlattenSeq([k \in DOMAIN es |-> EncodeEntry(es[k])])
           x == EncodeIndex(c, d, es)
<1>1. x = P \o F
  BY EntriesAreSequences DEF EncodeIndex
<1>2. P \in Seq(AnyField) /\ Len(P) = 4
  <2>1. \A a, b, g, h \in AnyField : <<a, b, g, h>> \in Seq(AnyField) /\ Len(<<a, b, g, h>>) = 4
    OBVIOUS
  <2>2. /\ Field("version", VAULT_INDEX_VERSION) \in AnyField
        /\ Field("nonce_counter", c) \in AnyField
        /\ Field("data_nonce_counter", d) \in AnyField
        /\ Field("entry_count", n) \in AnyField
    BY Limits DEF Field, AnyField, FieldName, FieldValue
  <2> QED
    BY <2>1, <2>2
<1>3. P[1] = Field("version", VAULT_INDEX_VERSION) /\ P[2] = Field("nonce_counter", c)
      /\ P[3] = Field("data_nonce_counter", d) /\ P[4] = Field("entry_count", n)
  OBVIOUS
<1>4. /\ F \in Seq(AnyField) /\ Len(F) = 6 * n
      /\ \A k \in 1..n : \A j \in 1..6 : F[6 * k - 6 + j] = EncodeEntry(es[k])[j]
  BY FlattenFacts
<1> HIDE DEF P, F, x
<1>5. /\ x \in Seq(AnyField) /\ Len(x) = Len(P) + Len(F)
      /\ \A i \in 1..(Len(P) + Len(F)) : x[i] = IF i <= Len(P) THEN P[i] ELSE F[i - Len(P)]
  BY <1>1, <1>2, <1>4, ConcatProperties
<1>6. Len(x) = 4 + 6 * n /\ \A i \in 1..(4 + 6 * n) : x[i] = IF i <= 4 THEN P[i] ELSE F[i - 4]
  BY <1>2, <1>4, <1>5
<1>7. x[1] = P[1] /\ x[2] = P[2] /\ x[3] = P[3] /\ x[4] = P[4]
  BY <1>6
<1>8. ASSUME NEW k \in 1..n, NEW j \in 1..6
      PROVE  x[6 * k - 2 + j] = EncodeEntry(es[k])[j]
  <2>1. /\ 6 * k - 2 + j \in 1..(4 + 6 * n) /\ ~(6 * k - 2 + j <= 4)
        /\ (6 * k - 2 + j) - 4 = 6 * k - 6 + j
    OBVIOUS
  <2>2. x[6 * k - 2 + j] = F[6 * k - 6 + j]
    BY <1>6, <2>1
  <2> QED
    BY <1>4, <2>2
<1>9. /\ x \in Seq(AnyField) /\ Len(x) = 4 + 6 * n
      /\ x[1] = Field("version", VAULT_INDEX_VERSION)
      /\ x[2] = Field("nonce_counter", c)
      /\ x[3] = Field("data_nonce_counter", d)
      /\ x[4] = Field("entry_count", n)
      /\ \A k \in 1..n : \A j \in 1..6 : x[6 * k - 2 + j] = EncodeEntry(es[k])[j]
  BY <1>3, <1>5, <1>6, <1>7, <1>8
<1> QED
  BY <1>9 DEF x, LaidOut

UniqueKeys(es, n) == \A a, b \in 1..n : es[a].key = es[b].key => a = b

Encoding(c, d, es) == [fields |-> EncodeIndex(c, d, es), len |-> EncodedLen(es), entries |-> es]

LEMMA EncodingsAre ==
    /\ \A x \in Encodings :
        \E n \in 0..MAX_INDEX_ENTRIES : \E es \in [1..n -> Entry] : \E c, d \in Counter :
            UniqueKeys(es, n) /\ x = Encoding(c, d, es)
    /\ \A n \in 0..MAX_INDEX_ENTRIES : \A es \in [1..n -> Entry] : \A c, d \in Counter :
            UniqueKeys(es, n) => Encoding(c, d, es) \in Encodings
<1>1. ASSUME NEW x \in Encodings
      PROVE  \E n \in 0..MAX_INDEX_ENTRIES : \E es \in [1..n -> Entry] : \E c, d \in Counter :
                UniqueKeys(es, n) /\ x = Encoding(c, d, es)
  <2>1. PICK es \in WritableEntries : \E c, d \in Counter : x = Encoding(c, d, es)
    BY DEF Encodings, Encoding
  <2>2. PICK n \in 0..MAX_INDEX_ENTRIES : es \in [1..n -> Entry] /\ UniqueKeys(es, n)
    BY DEF WritableEntries, UniqueKeys
  <2> QED
    BY <2>1, <2>2
<1>2. ASSUME NEW n \in 0..MAX_INDEX_ENTRIES, NEW es \in [1..n -> Entry],
             NEW c \in Counter, NEW d \in Counter, UniqueKeys(es, n)
      PROVE  Encoding(c, d, es) \in Encodings
  <2>1. es \in WritableEntries
    BY <1>2 DEF WritableEntries, UniqueKeys
  <2> QED
    BY <2>1 DEF Encodings, Encoding
<1> QED
  BY <1>1, <1>2

-----------------------------------------------------------------------------
(***************************************************************************)
(* The invariant of the decoder.                                           *)
(***************************************************************************)
IsField(f, name, values) == f.name = name /\ f.value \in values

\* The first p fields of the preamble.
Preamble(p) ==
    /\ p >= 1 => read[1] = Field("version", VAULT_INDEX_VERSION)
    /\ p >= 2 => IsField(read[2], "nonce_counter", Counter)
    /\ p >= 3 => IsField(read[3], "data_nonce_counter", Counter)
    /\ p >= 4 => read[4] = Field("entry_count", entry_count)

InPreamble ==
    /\ files = [k \in {} |-> NULL]
    /\ entry_count = 0
    /\ \/ at = "version" /\ Len(read) = 0 /\ pos = 0
       \/ at = "nonce_counter" /\ Len(read) = 1 /\ pos = 2 /\ Preamble(1)
       \/ at = "data_nonce_counter" /\ Len(read) = 2 /\ pos = 10 /\ Preamble(2)
       \/ at = "entry_count" /\ Len(read) = 3 /\ pos = 18 /\ Preamble(3)

\* The fields of the n complete entries are those of es, and so is the map.
ReadsAs(es, n) ==
    \A k \in 1..n : \A j \in 1..6 : read[6 * k - 2 + j] = EncodeEntry(es[k])[j]

FilesAre(es, n) ==
    /\ DOMAIN files = {es[k].key : k \in 1..n}
    /\ Cardinality(DOMAIN files) = n
    /\ \A k \in 1..n : files[es[k].key] = [data_counter |-> es[k].data_counter,
                                            name_len |-> es[k].name_len,
                                            data_len |-> es[k].data_len]

Complete(n, es) ==
    /\ UniqueKeys(es, n)
    /\ Preamble(4)
    /\ ReadsAs(es, n)
    /\ FilesAre(es, n)

\* Field j of the entry that is being read.
Cell(n, j) == read[6 * n + 4 + j]

\* Its first p fields have been read.
PartRead(n, p) ==
    /\ Len(read) = 6 * n + 4 + p
    /\ p >= 1 => IsField(Cell(n, 1), "entry_key", EntryKey)
    /\ p >= 2 => IsField(Cell(n, 2), "entry_data_counter", Counter)
    /\ p >= 3 => IsField(Cell(n, 3), "entry_name_length", NameLens)
    /\ p >= 4 => Cell(n, 4) = Field("entry_name", Cell(n, 3).value)
    /\ p >= 5 => IsField(Cell(n, 5), "entry_data_length", DataLens)

\* Where the cursor is, with base bytes before this entry.
Partway(n, base) ==
    \/ at = "end" /\ n = entry_count /\ PartRead(n, 0) /\ pos = base
    \/ /\ n < entry_count
       /\ \/ at = "entry_key" /\ PartRead(n, 0) /\ pos = base
          \/ at = "entry_data_counter" /\ PartRead(n, 1) /\ pos = base + 32
          \/ at = "entry_name_length" /\ PartRead(n, 2) /\ pos = base + 40
          \/ at = "entry_name" /\ PartRead(n, 3) /\ pos = base + 44
          \/ at = "entry_data_length" /\ PartRead(n, 4) /\ pos = base + 44 + Cell(n, 3).value
          \/ at = "entry_data" /\ PartRead(n, 5) /\ pos = base + 48 + Cell(n, 3).value

InEntries ==
    \E n \in 0..entry_count : \E es \in [1..n -> Entry] :
        Complete(n, es) /\ Partway(n, LenUpTo(es)[n])

Typed ==
    /\ len \in InputLen
    /\ pos \in Nat
    /\ read \in Seq(AnyField)
    /\ entry_count \in 0..MAX_INDEX_ENTRIES
    /\ capacity = entry_count
    /\ IsFiniteSet(DOMAIN files)

IInv ==
    /\ Typed
    /\ WithinInput
    /\ result = NULL => InPreamble \/ InEntries
    /\ AcceptsOnlyEncodings
    /\ AcceptsEveryEncoding

-----------------------------------------------------------------------------
(***************************************************************************)
(* What has been read, and the encodings that begin like it.               *)
(***************************************************************************)
LEMMA OneMore ==
    ASSUME NEW r \in Seq(AnyField), NEW f \in AnyField
    PROVE  /\ Append(r, f) \in Seq(AnyField) /\ Len(r) \in Nat
           /\ Len(Append(r, f)) = Len(r) + 1
           /\ Append(r, f)[Len(r) + 1] = f
           /\ \A i \in 1..Len(r) : Append(r, f)[i] = r[i]
  BY AppendProperties, LenProperties

LEMMA PrefixAgrees ==
    ASSUME NEW r \in Seq(AnyField), NEW s \in Seq(AnyField), IsPrefix(r, s)
    PROVE  Len(r) <= Len(s) /\ \A i \in 1..Len(r) : s[i] = r[i]
<1>1. Len(r) \in Nat /\ Len(s) \in Nat /\ Len(r) <= Len(s)
  BY LenProperties DEF IsPrefix
<1>2. SubSeq(r, 1, Len(r)) = SubSeq(s, 1, Len(r))
  BY DEF IsPrefix
<1>3. \A i \in 1..Len(r) : r[i] \in AnyField /\ s[i] \in AnyField
  BY <1>1, ElementOfSeq
<1>4. /\ \A i \in 1..(Len(r) - 1 + 1) : SubSeq(r, 1, Len(r))[i] = r[1 + i - 1]
      /\ \A i \in 1..(Len(r) - 1 + 1) : SubSeq(s, 1, Len(r))[i] = s[1 + i - 1]
  BY <1>1, <1>3, SubSeqProperties
<1>5. \A i \in 1..Len(r) : i \in 1..(Len(r) - 1 + 1) /\ 1 + i - 1 = i
  BY <1>1
<1> QED
  BY <1>1, <1>2, <1>4, <1>5

LEMMA LongerPrefix ==
    ASSUME NEW r \in Seq(AnyField), NEW f \in AnyField, NEW s \in Seq(AnyField),
           IsPrefix(Append(r, f), s)
    PROVE  /\ Len(r) < Len(s) /\ s[Len(r) + 1] = f
           /\ \A i \in 1..Len(r) : s[i] = r[i]
<1>1. /\ Append(r, f) \in Seq(AnyField) /\ Len(r) \in Nat /\ Len(s) \in Nat
      /\ Len(Append(r, f)) = Len(r) + 1
      /\ Append(r, f)[Len(r) + 1] = f
      /\ \A i \in 1..Len(r) : Append(r, f)[i] = r[i]
  BY OneMore, LenProperties
<1>2. Len(r) + 1 <= Len(s) /\ \A i \in 1..(Len(r) + 1) : s[i] = Append(r, f)[i]
  BY <1>1, PrefixAgrees
<1>3. Len(r) + 1 \in 1..(Len(r) + 1) /\ \A i \in 1..Len(r) : i \in 1..(Len(r) + 1)
  BY <1>1
<1> QED
  BY <1>1, <1>2, <1>3

\* The complete entries stay as they are when another field is read.
LEMMA CompleteKept ==
    ASSUME NEW n \in Nat, NEW es \in [1..n -> Entry], Complete(n, es),
           read \in Seq(AnyField), Len(read) >= 6 * n + 4, NEW f \in AnyField,
           read' = Append(read, f), UNCHANGED <<files, entry_count>>
    PROVE  Complete(n, es)'
<1>1. Len(read) \in Nat /\ \A i \in 1..Len(read) : read'[i] = read[i]
  BY OneMore
<1>2. /\ 1 \in 1..Len(read) /\ 2 \in 1..Len(read) /\ 3 \in 1..Len(read) /\ 4 \in 1..Len(read)
      /\ \A k \in 1..n : \A j \in 1..6 : 6 * k - 2 + j \in 1..Len(read)
  BY <1>1
<1>3. Preamble(4)'
  BY <1>1, <1>2 DEF Complete, Preamble
<1>4. ReadsAs(es, n)'
  BY <1>1, <1>2 DEF Complete, ReadsAs
<1> QED
  BY <1>3, <1>4 DEF Complete, FilesAre, UniqueKeys

LEMMA SameFields ==
    ASSUME NEW e \in Entry, NEW f \in Entry,
           \A j \in 1..6 : EncodeEntry(e)[j] = EncodeEntry(f)[j]
    PROVE  e = f
<1>1. /\ EncodeEntry(e)[1] = EncodeEntry(f)[1] /\ EncodeEntry(e)[2] = EncodeEntry(f)[2]
      /\ EncodeEntry(e)[3] = EncodeEntry(f)[3] /\ EncodeEntry(e)[5] = EncodeEntry(f)[5]
  OBVIOUS
<1>2. /\ Field("entry_key", e.key) = Field("entry_key", f.key)
      /\ Field("entry_data_counter", e.data_counter) = Field("entry_data_counter", f.data_counter)
      /\ Field("entry_name_length", e.name_len) = Field("entry_name_length", f.name_len)
      /\ Field("entry_data_length", e.data_len) = Field("entry_data_length", f.data_len)
  BY <1>1, EntryFields
<1>3. /\ e.key = f.key /\ e.data_counter = f.data_counter
      /\ e.name_len = f.name_len /\ e.data_len = f.data_len
  BY <1>2 DEF Field
<1> QED
  BY <1>3 DEF Entry

\* What has been read is how x begins.
Begins(x) == \A i \in 1..Len(read) : x[i] = read[i]

LEMMA EncodedLength ==
    ASSUME NEW m \in Nat, NEW xs \in [1..m -> Entry], NEW n \in Nat, n < m
    PROVE  /\ n + 1 \in 1..m /\ xs[n + 1] \in Entry
           /\ LenUpTo(xs)[n] + EntryLen(xs[n + 1]) <= EncodedLen(xs)
<1>1. n + 1 \in 1..m /\ n + 1 \in 0..m /\ m \in 0..m /\ n \in 0..m /\ (n + 1) - 1 = n
  OBVIOUS
<1>2. xs[n + 1] \in Entry /\ EncodedLen(xs) = LenUpTo(xs)[m]
  BY <1>1, EntriesAreSequences DEF EncodedLen
<1>3. \A k \in 1..m : LenUpTo(xs)[k] = LenUpTo(xs)[k - 1] + EntryLen(xs[k])
  BY LenUpToFacts
<1>4. LenUpTo(xs)[n + 1] = LenUpTo(xs)[n] + EntryLen(xs[n + 1])
  BY <1>1, <1>3
<1>5. LenUpTo(xs)[m] >= LenUpTo(xs)[n + 1] + (m - (n + 1)) * 128
  BY <1>1, RestIsLong
<1>6. LenUpTo(xs)[n + 1] \in Nat /\ LenUpTo(xs)[m] \in Nat
  BY <1>1, LenUpToFacts
<1>7. LenUpTo(xs)[m] >= LenUpTo(xs)[n + 1]
  BY <1>5, <1>6
<1> QED
  BY <1>1, <1>2, <1>4, <1>6, <1>7

LEMMA CountField == Preamble(4) => read[4] = Field("entry_count", entry_count)
  BY 4 >= 4 DEF Preamble

\* An encoding of xs that begins with what has been read has the complete
\* entries for its first ones; the next one is the entry that is being read.
Agrees(n, es, m, xs, x) ==
    /\ m = entry_count
    /\ EncodedLen(xs) \in Nat /\ LenUpTo(es)[n] \in Nat
    /\ n = m => EncodedLen(xs) = LenUpTo(es)[n]
    /\ n < m => /\ n + 1 \in 1..m /\ xs[n + 1] \in Entry
                /\ LenUpTo(es)[n] + EntryLen(xs[n + 1]) <= EncodedLen(xs)
                /\ \A k \in 1..n : xs[n + 1].key # es[k].key \/ ~UniqueKeys(xs, m)
                /\ \A j \in 1..6 : x[6 * n + 4 + j] = EncodeEntry(xs[n + 1])[j]

LEMMA EncodingAgrees ==
    ASSUME NEW n \in Nat, NEW es \in [1..n -> Entry],
           NEW m \in Nat, NEW xs \in [1..m -> Entry], NEW c \in Counter, NEW d \in Counter,
           NEW x \in Seq(AnyField)
    PROVE  /\ Complete(n, es) /\ entry_count \in Nat /\ n <= entry_count
           /\ read \in Seq(AnyField) /\ Len(read) >= 6 * n + 4
           /\ x = EncodeIndex(c, d, xs) /\ Begins(x)
           => Agrees(n, es, m, xs, x)
<1>0. SUFFICES ASSUME Complete(n, es), entry_count \in Nat, n <= entry_count,
                      read \in Seq(AnyField), Len(read) >= 6 * n + 4,
                      x = EncodeIndex(c, d, xs), Begins(x)
               PROVE  Agrees(n, es, m, xs, x)
  OBVIOUS
<1>1. /\ x[4] = Field("entry_count", m)
      /\ \A k \in 1..m : \A j \in 1..6 : x[6 * k - 2 + j] = EncodeEntry(xs[k])[j]
  <2>1. /\ EncodeIndex(c, d, xs)[4] = Field("entry_count", m)
        /\ \A k \in 1..m : \A j \in 1..6 :
             EncodeIndex(c, d, xs)[6 * k - 2 + j] = EncodeEntry(xs[k])[j]
    <3>1. LaidOut(m, xs, c, d)
      BY IndexFields
    <3> QED
      BY <3>1 DEF LaidOut
  <2> QED
    BY <1>0, <2>1
<1>2. Len(read) \in Nat /\ \A i \in 1..Len(read) : x[i] = read[i]
  BY <1>0, LenProperties DEF Begins
<1>3. m = entry_count
  <2>1. read[4] = Field("entry_count", entry_count)
    BY <1>0, CountField DEF Complete
  <2>2. 4 \in 1..Len(read)
    BY <1>0, <1>2
  <2>3. Field("entry_count", entry_count) = Field("entry_count", m)
    BY <1>1, <1>2, <2>1, <2>2
  <2> QED
    BY <2>3 DEF Field
<1>4. ASSUME NEW k \in 1..n PROVE xs[k] = es[k] /\ k \in 1..m
  <2>1. k \in 1..m
    BY <1>0, <1>3
  <2>2. xs[k] \in Entry /\ es[k] \in Entry
    BY <2>1, EntriesAreSequences
  <2>3. \A j \in 1..6 : 6 * k - 2 + j \in 1..Len(read)
    BY <1>0, <1>2
  <2>4. \A j \in 1..6 : EncodeEntry(xs[k])[j] = EncodeEntry(es[k])[j]
    BY <1>0, <1>1, <1>2, <2>1, <2>3 DEF Complete, ReadsAs
  <2> QED
    BY <2>1, <2>2, <2>4, SameFields
<1>5. LenUpTo(es)[n] = LenUpTo(xs)[n]
  <2>1. n <= n /\ n <= m
    BY <1>0, <1>3
  <2> QED
    BY <1>4, <2>1, SameBeginning
<1>6. EncodedLen(xs) = LenUpTo(xs)[m]
  BY EntriesAreSequences DEF EncodedLen
<1>7. m \in 0..m /\ n \in 0..n
  OBVIOUS
<1>8. EncodedLen(xs) \in Nat /\ LenUpTo(es)[n] \in Nat
  BY <1>6, <1>7, LenUpToFacts
<1>9. ASSUME n < m
      PROVE  /\ n + 1 \in 1..m /\ xs[n + 1] \in Entry
             /\ LenUpTo(es)[n] + EntryLen(xs[n + 1]) <= EncodedLen(xs)
             /\ \A k \in 1..n : xs[n + 1].key # es[k].key \/ ~UniqueKeys(xs, m)
             /\ \A j \in 1..6 : x[6 * n + 4 + j] = EncodeEntry(xs[n + 1])[j]
  <2>1. /\ n + 1 \in 1..m /\ xs[n + 1] \in Entry
        /\ LenUpTo(xs)[n] + EntryLen(xs[n + 1]) <= EncodedLen(xs)
    BY <1>9, EncodedLength
  <2>7. LenUpTo(es)[n] + EntryLen(xs[n + 1]) <= EncodedLen(xs)
    BY <1>5, <2>1
  <2>8. \A k \in 1..n : xs[n + 1].key # es[k].key \/ ~UniqueKeys(xs, m)
    <3>1. \A k \in 1..n : k # n + 1
      OBVIOUS
    <3> QED
      BY <1>4, <2>1, <3>1 DEF UniqueKeys
  <2>9. ASSUME NEW j \in 1..6
        PROVE  x[6 * n + 4 + j] = EncodeEntry(xs[n + 1])[j]
    <3>1. 6 * (n + 1) - 2 + j = 6 * n + 4 + j
      OBVIOUS
    <3>2. x[6 * (n + 1) - 2 + j] = EncodeEntry(xs[n + 1])[j]
      BY <1>1, <2>1
    <3> QED
      BY <3>1, <3>2
  <2> QED
    BY <2>1, <2>7, <2>8, <2>9
<1>10. n = m => EncodedLen(xs) = LenUpTo(es)[n]
  BY <1>5, <1>6
<1> QED
  BY <1>3, <1>8, <1>9, <1>10 DEF Agrees

\* An encoding is long enough for its entries, and has the fields it has.
LEMMA EncodingIs ==
    ASSUME NEW x \in Encodings
    PROVE  \E m \in 0..MAX_INDEX_ENTRIES : \E xs \in [1..m -> Entry] : \E c, d \in Counter :
            /\ UniqueKeys(xs, m) /\ x.fields = EncodeIndex(c, d, xs) /\ x.len = EncodedLen(xs)
            /\ x.fields \in Seq(AnyField) /\ LaidOut(m, xs, c, d)
            /\ x.len \in Nat /\ x.len >= 22 + m * 128
<1>0. PICK m \in 0..MAX_INDEX_ENTRIES : \E xs \in [1..m -> Entry] : \E c, d \in Counter :
        UniqueKeys(xs, m) /\ x = Encoding(c, d, xs)
  BY EncodingsAre
<1>1. PICK xs \in [1..m -> Entry], c \in Counter, d \in Counter :
        UniqueKeys(xs, m) /\ x = Encoding(c, d, xs)
  BY <1>0
<1>2. m \in Nat
  BY Limits
<1>3. x.fields = EncodeIndex(c, d, xs) /\ x.len = EncodedLen(xs)
  BY <1>1 DEF Encoding
<1>4. LaidOut(m, xs, c, d)
  BY <1>2, IndexFields
<1>5. x.fields \in Seq(AnyField)
  BY <1>3, <1>4 DEF LaidOut
<1>6. x.len \in Nat /\ x.len >= 22 + m * 128
  <2>1. x.len = LenUpTo(xs)[m]
    BY <1>2, <1>3, EntriesAreSequences DEF EncodedLen
  <2>2. 0 \in 0..m /\ m \in 0..m
    BY <1>2
  <2>3. LenUpTo(xs)[0] = 22
    BY <1>2, LenUpToFacts
  <2>4. \A k \in 0..m : LenUpTo(xs)[k] \in Nat
    BY <1>2, LenUpToFacts
  <2>5. LenUpTo(xs)[m] >= LenUpTo(xs)[0] + (m - 0) * 128
    BY <1>2, <2>2, RestIsLong
  <2> QED
    BY <1>2, <2>1, <2>2, <2>3, <2>4, <2>5
<1> QED
  BY <1>1, <1>3, <1>4, <1>5, <1>6

\* At a complete entry, an encoding that begins with what has been read is at
\* its end, or goes on with an entry of a new key.
EntryFollows(x, n, es, e) ==
    /\ e \in Entry
    /\ LenUpTo(es)[n] + EntryLen(e) <= x.len
    /\ \A k \in 1..n : e.key # es[k].key
    /\ \A j \in 1..6 : x.fields[6 * n + 4 + j] = EncodeEntry(e)[j]

LEMMA EncodingGoesOn ==
    ASSUME NEW n \in Nat, NEW es \in [1..n -> Entry], NEW x \in Encodings
    PROVE  /\ Complete(n, es) /\ entry_count \in Nat /\ n <= entry_count
           /\ read \in Seq(AnyField) /\ Len(read) >= 6 * n + 4 /\ Begins(x.fields)
           => /\ n = entry_count => x.len = LenUpTo(es)[n]
              /\ n < entry_count => \E e \in Entry : EntryFollows(x, n, es, e)
<1>0. SUFFICES ASSUME Complete(n, es), entry_count \in Nat, n <= entry_count,
                      read \in Seq(AnyField), Len(read) >= 6 * n + 4, Begins(x.fields)
               PROVE  /\ n = entry_count => x.len = LenUpTo(es)[n]
                      /\ n < entry_count => \E e \in Entry : EntryFollows(x, n, es, e)
  OBVIOUS
<1>00. PICK m \in 0..MAX_INDEX_ENTRIES : \E xs \in [1..m -> Entry] : \E c, d \in Counter :
            /\ UniqueKeys(xs, m) /\ x.fields = EncodeIndex(c, d, xs) /\ x.len = EncodedLen(xs)
            /\ x.fields \in Seq(AnyField)
  BY EncodingIs
<1>1. PICK xs \in [1..m -> Entry], c \in Counter, d \in Counter :
            /\ UniqueKeys(xs, m) /\ x.fields = EncodeIndex(c, d, xs) /\ x.len = EncodedLen(xs)
            /\ x.fields \in Seq(AnyField)
  BY <1>00
<1>2. m \in Nat
  BY Limits
<1> DEFINE y == x.fields
<1>3. Agrees(n, es, m, xs, y)
  <2>1. y \in Seq(AnyField) /\ y = EncodeIndex(c, d, xs) /\ Begins(y)
    BY <1>0, <1>1
  <2> HIDE DEF y
  <2> QED
    BY <1>0, <1>2, <2>1, EncodingAgrees
<1>4. ASSUME n < entry_count
      PROVE  EntryFollows(x, n, es, xs[n + 1]) /\ xs[n + 1] \in Entry
  BY <1>1, <1>3, <1>4 DEF EntryFollows, Agrees
<1> QED
  BY <1>1, <1>3, <1>4 DEF Agrees

-----------------------------------------------------------------------------
(***************************************************************************)
(* What a step reads.                                                      *)
(***************************************************************************)
\* One field is read.
Grows(f) ==
    /\ Len(read) \in Nat /\ read' \in Seq(AnyField)
    /\ read' = Append(read, f)
    /\ Len(read') = Len(read) + 1
    /\ read'[Len(read) + 1] = f
    /\ \A i \in 1..Len(read) : read'[i] = read[i]

LEMMA TakeStep ==
    ASSUME NEW name \in FieldName, NEW n \in Nat, NEW value \in FieldValue
    PROVE  Typed /\ WithinInput /\ Take(name, n, value)
           => /\ result = NULL /\ at = name /\ len' = len
              /\ len \in Nat /\ pos \in Nat /\ pos' = pos + n
              /\ pos' \in Nat /\ pos' <= len
              /\ Grows(Field(name, value))
<1>0. SUFFICES ASSUME Typed, WithinInput, Take(name, n, value)
               PROVE  /\ result = NULL /\ at = name /\ len' = len
                      /\ len \in Nat /\ pos \in Nat /\ pos' = pos + n
                      /\ pos' \in Nat /\ pos' <= len
                      /\ Grows(Field(name, value))
  OBVIOUS
<1>1. Field(name, value) \in AnyField
  BY DEF Field, AnyField
<1>2. len \in Nat /\ pos \in Nat /\ read \in Seq(AnyField)
  BY <1>0, Limits DEF Typed
<1>3. /\ result = NULL /\ at = name /\ len' = len /\ pos' = pos + n
      /\ n <= len - pos /\ read' = Append(read, Field(name, value))
  BY <1>0 DEF Take, Fits, Remaining
<1>4. Grows(Field(name, value))
  BY <1>1, <1>2, <1>3, OneMore DEF Grows
<1>5. pos' \in Nat /\ pos' <= len
  BY <1>2, <1>3
<1> QED
  BY <1>2, <1>3, <1>4, <1>5

\* The last field with a name.
LEMMA LastValueIs ==
    ASSUME NEW k \in 1..Len(read), NEW name, read \in Seq(AnyField), read[k].name = name,
           \A m \in 1..Len(read) : m > k => read[m].name # name
    PROVE  LastValue(name) = read[k].value
<1> DEFINE Final(i) == read[i].name = name /\ \A m \in DOMAIN read : m > i => read[m].name # name
<1>1. DOMAIN read = 1..Len(read) /\ Len(read) \in Nat
  BY LenProperties
<1>2. k \in DOMAIN read /\ Final(k)
  BY <1>1
<1>3. \A i \in DOMAIN read : Final(i) => i = k
  BY <1>1, <1>2
<1>4. (CHOOSE i \in DOMAIN read : Final(i)) = k
  <2> HIDE DEF Final
  <2> QED
    BY <1>2, <1>3
<1> QED
  BY <1>4 DEF LastValue

\* The fields of the entry that is being read, and their lengths.
LEMMA EntryValues ==
    ASSUME NEW n \in Nat
    PROVE  read \in Seq(AnyField) =>
           /\ PartRead(n, 3) => LastValue("entry_name_length") = Cell(n, 3).value
           /\ PartRead(n, 5) => /\ LastValue("entry_key") = Cell(n, 1).value
                               /\ LastValue("entry_data_counter") = Cell(n, 2).value
                               /\ LastValue("entry_name_length") = Cell(n, 3).value
                               /\ LastValue("entry_data_length") = Cell(n, 5).value
<1>0. SUFFICES ASSUME read \in Seq(AnyField)
               PROVE  /\ PartRead(n, 3) => LastValue("entry_name_length") = Cell(n, 3).value
                      /\ PartRead(n, 5) =>
                           /\ LastValue("entry_key") = Cell(n, 1).value
                           /\ LastValue("entry_data_counter") = Cell(n, 2).value
                           /\ LastValue("entry_name_length") = Cell(n, 3).value
                           /\ LastValue("entry_data_length") = Cell(n, 5).value
  OBVIOUS
<1>1. ASSUME PartRead(n, 3)
      PROVE  LastValue("entry_name_length") = Cell(n, 3).value
  <2>1. Len(read) = 6 * n + 4 + 3 /\ IsField(Cell(n, 3), "entry_name_length", NameLens)
    BY <1>1, 3 >= 3 DEF PartRead
  <2>2. 6 * n + 4 + 3 \in 1..Len(read) /\ \A m \in 1..Len(read) : ~(m > 6 * n + 4 + 3)
    BY <2>1
  <2>3. read[6 * n + 4 + 3].name = "entry_name_length"
    BY <2>1 DEF IsField, Cell
  <2> QED
    BY <1>0, <2>2, <2>3, LastValueIs DEF Cell
<1>2. ASSUME PartRead(n, 5)
      PROVE  /\ LastValue("entry_key") = Cell(n, 1).value
             /\ LastValue("entry_data_counter") = Cell(n, 2).value
             /\ LastValue("entry_name_length") = Cell(n, 3).value
             /\ LastValue("entry_data_length") = Cell(n, 5).value
  <2>0. Len(read) = 6 * n + 9
    BY <1>2 DEF PartRead
  <2>1. /\ read[6 * n + 5].name = "entry_key"
        /\ read[6 * n + 6].name = "entry_data_counter"
        /\ read[6 * n + 7].name = "entry_name_length"
        /\ read[6 * n + 8].name = "entry_name"
        /\ read[6 * n + 9].name = "entry_data_length"
    <3>1. /\ IsField(Cell(n, 1), "entry_key", EntryKey)
          /\ IsField(Cell(n, 2), "entry_data_counter", Counter)
          /\ IsField(Cell(n, 3), "entry_name_length", NameLens)
          /\ Cell(n, 4) = Field("entry_name", Cell(n, 3).value)
          /\ IsField(Cell(n, 5), "entry_data_length", DataLens)
      BY <1>2 DEF PartRead
    <3>2. /\ Cell(n, 1).name = "entry_key" /\ Cell(n, 2).name = "entry_data_counter"
          /\ Cell(n, 3).name = "entry_name_length" /\ Cell(n, 4).name = "entry_name"
          /\ Cell(n, 5).name = "entry_data_length"
      BY <3>1, FieldParts DEF IsField
    <3>3. /\ 6 * n + 4 + 1 = 6 * n + 5 /\ 6 * n + 4 + 2 = 6 * n + 6 /\ 6 * n + 4 + 3 = 6 * n + 7
          /\ 6 * n + 4 + 4 = 6 * n + 8 /\ 6 * n + 4 + 5 = 6 * n + 9
      OBVIOUS
    <3> QED
      BY <3>2, <3>3 DEF Cell
  <2>2. \A m \in 1..Len(read) : m > 6 * n + 5 =>
            m = 6 * n + 6 \/ m = 6 * n + 7 \/ m = 6 * n + 8 \/ m = 6 * n + 9
    BY <2>0
  <2>3. \A m \in 1..Len(read) :
          /\ m > 6 * n + 6 => m = 6 * n + 7 \/ m = 6 * n + 8 \/ m = 6 * n + 9
          /\ m > 6 * n + 7 => m = 6 * n + 8 \/ m = 6 * n + 9
          /\ ~(m > 6 * n + 9)
    BY <2>0
  <2>4. /\ 6 * n + 5 \in 1..Len(read) /\ 6 * n + 6 \in 1..Len(read)
        /\ 6 * n + 7 \in 1..Len(read) /\ 6 * n + 9 \in 1..Len(read)
    BY <2>0
  <2>5. LastValue("entry_key") = read[6 * n + 5].value
    <3>1. \A m \in 1..Len(read) : m > 6 * n + 5 => read[m].name # "entry_key"
      BY <2>1, <2>2
    <3> QED
      BY <2>1, <2>4, <3>1, <1>0, LastValueIs
  <2>6. LastValue("entry_data_counter") = read[6 * n + 6].value
    <3>1. \A m \in 1..Len(read) : m > 6 * n + 6 => read[m].name # "entry_data_counter"
      BY <2>1, <2>3
    <3> QED
      BY <2>1, <2>4, <3>1, <1>0, LastValueIs
  <2>7. LastValue("entry_name_length") = read[6 * n + 7].value
    <3>1. \A m \in 1..Len(read) : m > 6 * n + 7 => read[m].name # "entry_name_length"
      BY <2>1, <2>3
    <3> QED
      BY <2>1, <2>4, <3>1, <1>0, LastValueIs
  <2>8. LastValue("entry_data_length") = read[6 * n + 9].value
    <3>1. \A m \in 1..Len(read) : m > 6 * n + 9 => read[m].name # "entry_data_length"
      BY <2>3
    <3> QED
      BY <2>1, <2>4, <3>1, <1>0, LastValueIs
  <2>9. /\ Cell(n, 1) = read[6 * n + 5] /\ Cell(n, 2) = read[6 * n + 6]
        /\ Cell(n, 3) = read[6 * n + 7] /\ Cell(n, 5) = read[6 * n + 9]
    <3>1. /\ 6 * n + 4 + 1 = 6 * n + 5 /\ 6 * n + 4 + 2 = 6 * n + 6
          /\ 6 * n + 4 + 3 = 6 * n + 7 /\ 6 * n + 4 + 5 = 6 * n + 9
      OBVIOUS
    <3> QED
      BY <3>1 DEF Cell
  <2> QED
    BY <2>5, <2>6, <2>7, <2>8, <2>9
<1> QED
  BY <1>1, <1>2

\* The entry of an encoding that follows has the fields that have been read.
LEMMA SoFar ==
    ASSUME NEW n \in Nat, NEW es \in [1..n -> Entry], NEW x \in Encodings, NEW e \in Entry
    PROVE  EntryFollows(x, n, es, e) /\ Begins(x.fields) /\ read \in Seq(AnyField)
           => /\ Len(read) >= 6 * n + 4 + 1 => e.key = Cell(n, 1).value
              /\ Len(read) >= 6 * n + 4 + 3 => e.name_len = Cell(n, 3).value
              /\ Len(read) >= 6 * n + 4 + 5 => e.data_len = Cell(n, 5).value
<1>0. SUFFICES ASSUME EntryFollows(x, n, es, e), Begins(x.fields), read \in Seq(AnyField)
               PROVE  /\ Len(read) >= 6 * n + 4 + 1 => e.key = Cell(n, 1).value
                      /\ Len(read) >= 6 * n + 4 + 3 => e.name_len = Cell(n, 3).value
                      /\ Len(read) >= 6 * n + 4 + 5 => e.data_len = Cell(n, 5).value
  OBVIOUS
<1>1. Len(read) \in Nat
  BY <1>0, LenProperties
<1>2. /\ \A i \in 1..Len(read) : x.fields[i] = read[i]
      /\ \A j \in 1..6 : x.fields[6 * n + 4 + j] = EncodeEntry(e)[j]
  BY <1>0 DEF Begins, EntryFollows
<1>3. \A j \in 1..6 : Len(read) >= 6 * n + 4 + j => 6 * n + 4 + j \in 1..Len(read)
  BY <1>1
<1>4. \A j \in 1..6 : Len(read) >= 6 * n + 4 + j => Cell(n, j) = EncodeEntry(e)[j]
  BY <1>2, <1>3 DEF Cell
<1>5. /\ EncodeEntry(e)[1].value = e.key /\ EncodeEntry(e)[3].value = e.name_len
      /\ EncodeEntry(e)[5].value = e.data_len
  <2>1. /\ EncodeEntry(e)[1] = Field("entry_key", e.key)
        /\ EncodeEntry(e)[3] = Field("entry_name_length", e.name_len)
        /\ EncodeEntry(e)[5] = Field("entry_data_length", e.data_len)
    BY EntryFields
  <2> QED
    BY <2>1, FieldParts
<1>6. 1 \in 1..6 /\ 3 \in 1..6 /\ 5 \in 1..6
  OBVIOUS
<1> QED
  BY <1>4, <1>5, <1>6

LEMMA FieldLens ==
    /\ at = "version" => FieldLen = 2
    /\ at \in {"nonce_counter", "data_nonce_counter", "entry_data_counter"} => FieldLen = 8
    /\ at \in {"entry_count", "entry_name_length", "entry_data_length"} => FieldLen = 4
    /\ at = "entry_key" => FieldLen = 32
    /\ at = "entry_name" => FieldLen = LastValue("entry_name_length")
    /\ at = "entry_data" => FieldLen = LastValue("entry_data_length")
    /\ at = "end" => FieldLen = 0
  BY DEF FieldLen, ENTRY_KEY_LEN

-----------------------------------------------------------------------------
(***************************************************************************)
(* How a step ends.                                                        *)
(***************************************************************************)
LEMMA RejectEnds ==
    ASSUME NEW why \in {"truncated", "version", "entry_count", "entry_name_length",
                        "entry_data_length", "duplicate_entry_key", "trailing_bytes"}
    PROVE  /\ Typed /\ WithinInput /\ result' = why
           /\ UNCHANGED <<len, entry_count, files, capacity>>
           /\ pos' \in Nat /\ pos' <= len /\ read' \in Seq(AnyField)
           /\ \A x \in Encodings : x.len = len => ~IsPrefix(read', x.fields)
           => IInv'
<1>0. SUFFICES ASSUME Typed, WithinInput, result' = why,
                      UNCHANGED <<len, entry_count, files, capacity>>,
                      pos' \in Nat, pos' <= len, read' \in Seq(AnyField),
                      \A x \in Encodings : x.len = len => ~IsPrefix(read', x.fields)
               PROVE  IInv'
  OBVIOUS
<1>1. Typed'
  BY <1>0 DEF Typed
<1>2. WithinInput'
  BY <1>0 DEF WithinInput
<1>3. result' # NULL /\ result' # "Ok"
  BY <1>0, CodecAssumption
<1>4. AcceptsOnlyEncodings'
  BY <1>3 DEF AcceptsOnlyEncodings
<1>5. AcceptsEveryEncoding'
  BY <1>0 DEF AcceptsEveryEncoding
<1> QED
  BY <1>1, <1>2, <1>3, <1>4, <1>5 DEF IInv

LEMMA ContinueEnds ==
    Typed' /\ WithinInput' /\ result' = NULL /\ (InPreamble' \/ InEntries') => IInv'
  BY CodecAssumption DEF IInv, AcceptsOnlyEncodings, AcceptsEveryEncoding

\* No encoding has another field where f was read.
LEMMA RejectedField ==
    ASSUME NEW f \in AnyField
    PROVE  /\ read \in Seq(AnyField) /\ Grows(f)
           /\ \A x \in Encodings : x.len = len /\ Begins(x.fields) =>
                x.fields[Len(read) + 1] # f
           => \A x \in Encodings : x.len = len => ~IsPrefix(read', x.fields)
<1>0. SUFFICES ASSUME read \in Seq(AnyField), Grows(f),
                      \A x \in Encodings : x.len = len /\ Begins(x.fields) =>
                           x.fields[Len(read) + 1] # f
               PROVE  \A x \in Encodings : x.len = len => ~IsPrefix(read', x.fields)
  OBVIOUS
<1>1. SUFFICES ASSUME NEW x \in Encodings, x.len = len, IsPrefix(read', x.fields)
               PROVE  FALSE
  OBVIOUS
<1> DEFINE y == x.fields
<1>2. y \in Seq(AnyField)
  BY EncodingIs
<1>3. IsPrefix(Append(read, f), y)
  BY <1>0, <1>1 DEF Grows
<1>4. y[Len(read) + 1] = f /\ \A i \in 1..Len(read) : y[i] = read[i]
  <2> HIDE DEF y
  <2> QED
    BY <1>0, <1>2, <1>3, LongerPrefix
<1> QED
  BY <1>0, <1>1, <1>4 DEF Begins

LEMMA PrefixBegins ==
    ASSUME NEW x \in Encodings
    PROVE  read \in Seq(AnyField) /\ IsPrefix(read, x.fields) => Begins(x.fields)
<1>0. SUFFICES ASSUME read \in Seq(AnyField), IsPrefix(read, x.fields) PROVE Begins(x.fields)
  OBVIOUS
<1> DEFINE y == x.fields
<1>1. y \in Seq(AnyField) /\ IsPrefix(read, y)
  BY <1>0, EncodingIs
<1>2. \A i \in 1..Len(read) : y[i] = read[i]
  <2> HIDE DEF y
  <2> QED
    BY <1>0, <1>1, PrefixAgrees
<1> QED
  BY <1>2 DEF Begins

LEMMA WhereWeAre ==
    InPreamble \/ InEntries =>
    /\ at \in {"version", "nonce_counter", "data_nonce_counter", "entry_count"} => InPreamble
    /\ at \in {"entry_key", "entry_data_counter", "entry_name_length", "entry_name",
              "entry_data_length", "entry_data", "end"} => InEntries
    /\ InPreamble => at \in {"version", "nonce_counter", "data_nonce_counter", "entry_count"}
    /\ InEntries => at \in {"entry_key", "entry_data_counter", "entry_name_length", "entry_name",
              "entry_data_length", "entry_data", "end"}
  BY DEF InPreamble, InEntries, Partway

\* A field of the entry that is being read is added to those before it.
LEMMA EntryGoesOn ==
    ASSUME NEW n \in Nat, NEW es \in [1..n -> Entry], NEW p \in 0..5, NEW f \in AnyField
    PROVE  /\ read \in Seq(AnyField) /\ Complete(n, es) /\ Len(read) = 6 * n + 4 + p
           /\ Grows(f) /\ UNCHANGED <<files, entry_count>>
           => /\ Complete(n, es)'
              /\ Len(read') = 6 * n + 4 + (p + 1)
              /\ \A j \in 1..p : Cell(n, j)' = Cell(n, j)
              /\ Cell(n, p + 1)' = f
<1>0. SUFFICES ASSUME read \in Seq(AnyField), Complete(n, es), Len(read) = 6 * n + 4 + p,
                      Grows(f), UNCHANGED <<files, entry_count>>
               PROVE  /\ Complete(n, es)'
                      /\ Len(read') = 6 * n + 4 + (p + 1)
                      /\ \A j \in 1..p : Cell(n, j)' = Cell(n, j)
                      /\ Cell(n, p + 1)' = f
  OBVIOUS
<1>1. Complete(n, es)'
  <2>1. Len(read) >= 6 * n + 4 /\ read' = Append(read, f)
    BY <1>0 DEF Grows
  <2> QED
    BY <1>0, <2>1, CompleteKept
<1>2. /\ Len(read) \in Nat /\ Len(read') = Len(read) + 1 /\ read'[Len(read) + 1] = f
      /\ \A i \in 1..Len(read) : read'[i] = read[i]
  BY <1>0 DEF Grows
<1>3. \A j \in 1..p : 6 * n + 4 + j \in 1..Len(read)
  BY <1>0
<1>4. Len(read) + 1 = 6 * n + 4 + (p + 1)
  BY <1>0
<1> QED
  BY <1>1, <1>2, <1>3, <1>4 DEF Cell

\* A step within an entry.
LEMMA EntryStepEnds ==
    ASSUME NEW n \in Nat, NEW es \in [1..n -> Entry]
    PROVE  /\ Typed /\ WithinInput /\ n <= entry_count
           /\ UNCHANGED <<len, entry_count, files, capacity>> /\ result' = NULL
           /\ pos' \in Nat /\ pos' <= len /\ read' \in Seq(AnyField)
           /\ Complete(n, es)' /\ Partway(n, LenUpTo(es)[n])'
           => IInv'
<1>0. SUFFICES ASSUME Typed, WithinInput, n <= entry_count,
                      UNCHANGED <<len, entry_count, files, capacity>>, result' = NULL,
                      pos' \in Nat, pos' <= len, read' \in Seq(AnyField),
                      Complete(n, es)', Partway(n, LenUpTo(es)[n])'
               PROVE  IInv'
  OBVIOUS
<1>1. Typed' /\ WithinInput'
  BY <1>0 DEF Typed, WithinInput
<1>2. n \in 0..entry_count'
  BY <1>0 DEF Typed
<1>3. InEntries'
  BY <1>0, <1>2 DEF InEntries
<1> QED
  BY <1>0, <1>1, <1>3, ContinueEnds

-----------------------------------------------------------------------------
(***************************************************************************)
(* The steps of decode_index, one by one.                                  *)
(***************************************************************************)
\* An encoding of that length would have had the bytes that are missing.
LEMMA TruncatedStep ==
    IInv /\ Truncated => IInv'
<1>0. SUFFICES ASSUME IInv, Truncated PROVE IInv'
  OBVIOUS
<1>1. /\ result = NULL /\ ~Fits(FieldLen) /\ result' = "truncated"
      /\ UNCHANGED <<len, entry_count, files, capacity, pos, read>>
  BY <1>0 DEF Truncated, Rejects
<1>2. Typed /\ WithinInput /\ (InPreamble \/ InEntries)
  BY <1>0, <1>1 DEF IInv
<1>3. /\ len \in Nat /\ pos \in Nat /\ pos <= len /\ entry_count \in Nat
      /\ read \in Seq(AnyField)
  BY <1>2, Limits DEF Typed, WithinInput
<1>4. ASSUME NEW x \in Encodings, x.len = len, IsPrefix(read, x.fields)
      PROVE  FALSE
  <2>1. x.len \in Nat /\ x.len >= 22
    <3>1. PICK m \in 0..MAX_INDEX_ENTRIES : x.len \in Nat /\ x.len >= 22 + m * 128
      BY EncodingIs
    <3>2. m \in Nat
      BY Limits
    <3> QED
      BY <3>1, <3>2
  <2>2. Begins(x.fields)
    BY <1>3, <1>4, PrefixBegins
  <2>3. ~InPreamble
    <3> SUFFICES ASSUME InPreamble PROVE FALSE
      OBVIOUS
    <3>1. FieldLen \in {2, 4, 8} /\ pos + FieldLen <= 22
      BY FieldLens DEF InPreamble
    <3> QED
      BY <1>1, <1>3, <1>4, <2>1, <3>1 DEF Fits, Remaining
  <2>4. PICK n \in 0..entry_count : \E es \in [1..n -> Entry] :
          Complete(n, es) /\ Partway(n, LenUpTo(es)[n])
    BY <1>2, <2>3 DEF InEntries
  <2>5. PICK es \in [1..n -> Entry] : Complete(n, es) /\ Partway(n, LenUpTo(es)[n])
    BY <2>4
  <2>6. n \in Nat /\ n <= entry_count
    BY <1>3
  <2>7. PICK base \in Nat : base = LenUpTo(es)[n]
    <3>1. n \in 0..n
      BY <2>6
    <3> QED
      BY <2>6, <3>1, LenUpToFacts
  <2>8. at # "end"
    <3> SUFFICES ASSUME at = "end" PROVE FALSE
      OBVIOUS
    <3>1. FieldLen = 0
      BY FieldLens
    <3> QED
      BY <1>1, <1>3, <3>1 DEF Fits, Remaining
  <2>9. n < entry_count
    BY <2>5, <2>8 DEF Partway
  <2>10. \E p \in 0..5 : PartRead(n, p)
    BY <2>5 DEF Partway
  <2>11. Len(read) >= 6 * n + 4
    <3>1. PICK p \in 0..5 : PartRead(n, p)
      BY <2>10
    <3> QED
      BY <2>6, <3>1 DEF PartRead
  <2>12. PICK e \in Entry : EntryFollows(x, n, es, e)
    BY <1>3, <2>2, <2>5, <2>6, <2>9, <2>11, EncodingGoesOn
  <2>13. base + EntryLen(e) <= len
    BY <1>4, <2>7, <2>12 DEF EntryFollows
  <2>14. e.name_len \in Nat /\ e.data_len \in Nat
    BY EntryFacts
  <2>15. pos + FieldLen <= base + 48 + e.name_len + e.data_len /\ FieldLen \in Nat
    <3>1. CASE at = "entry_key" /\ pos = base
      BY <2>14, <3>1, FieldLens
    <3>2. CASE at = "entry_data_counter" /\ pos = base + 32
      BY <2>14, <3>2, FieldLens
    <3>3. CASE at = "entry_name_length" /\ pos = base + 40
      BY <2>14, <3>3, FieldLens
    <3>4. CASE at = "entry_name" /\ pos = base + 44 /\ PartRead(n, 3)
      <4>1. FieldLen = Cell(n, 3).value
        BY <1>3, <2>6, <3>4, FieldLens, EntryValues
      <4>2. Len(read) >= 6 * n + 4 + 3
        BY <2>6, <3>4 DEF PartRead
      <4>3. e.name_len = Cell(n, 3).value
        BY <1>3, <2>2, <2>6, <2>12, <4>2, SoFar
      <4> QED
        BY <2>14, <3>4, <4>1, <4>3
    <3>5. CASE at = "entry_data_length" /\ pos = base + 44 + Cell(n, 3).value /\ PartRead(n, 4)
      <4>2. Len(read) >= 6 * n + 4 + 3
        BY <2>6, <3>5 DEF PartRead
      <4>3. e.name_len = Cell(n, 3).value
        BY <1>3, <2>2, <2>6, <2>12, <4>2, SoFar
      <4> QED
        BY <2>14, <3>5, <4>3, FieldLens
    <3>6. CASE at = "entry_data" /\ pos = base + 48 + Cell(n, 3).value /\ PartRead(n, 5)
      <4>1. FieldLen = Cell(n, 5).value
        BY <1>3, <2>6, <3>6, FieldLens, EntryValues
      <4>2. Len(read) >= 6 * n + 4 + 3 /\ Len(read) >= 6 * n + 4 + 5
        BY <2>6, <3>6 DEF PartRead
      <4>3. e.name_len = Cell(n, 3).value /\ e.data_len = Cell(n, 5).value
        BY <1>3, <2>2, <2>6, <2>12, <4>2, SoFar
      <4> QED
        BY <2>14, <3>6, <4>1, <4>3
    <3> QED
      BY <2>5, <2>7, <2>8, <3>1, <3>2, <3>3, <3>4, <3>5, <3>6 DEF Partway
  <2>16. EntryLen(e) = 48 + e.name_len + e.data_len
    BY DEF EntryLen
  <2> QED
    BY <1>1, <1>3, <2>13, <2>14, <2>15, <2>16 DEF Fits, Remaining
<1> QED
  BY <1>1, <1>2, <1>3, <1>4, RejectEnds

LEMMA ReadVersionStep ==
    IInv /\ ReadVersion => IInv'
<1>0. SUFFICES ASSUME IInv, ReadVersion PROVE IInv'
  OBVIOUS
<1>1. PICK v \in Version :
        /\ Take("version", 2, v)
        /\ IF v # VAULT_INDEX_VERSION
           THEN Rejects("version")
           ELSE Continues("nonce_counter") /\ UNCHANGED <<entry_count, files, capacity>>
  BY <1>0 DEF ReadVersion
<1>2. Typed /\ WithinInput /\ (result = NULL => InPreamble \/ InEntries)
  BY <1>0 DEF IInv
<1>3. /\ result = NULL /\ at = "version" /\ len' = len
      /\ len \in Nat /\ pos \in Nat /\ pos' = pos + 2
      /\ pos' \in Nat /\ pos' <= len
      /\ Grows(Field("version", v))
  <2>1. "version" \in FieldName /\ 2 \in Nat /\ v \in FieldValue
    BY DEF FieldName, FieldValue
  <2> QED
    BY <1>1, <1>2, <2>1, TakeStep
<1>4. InPreamble
  BY <1>2, <1>3, WhereWeAre
<1>5. /\ files = [k \in {} |-> NULL] /\ entry_count = 0
      /\ Len(read) = 0 /\ pos = 0
  BY <1>3, <1>4 DEF InPreamble
<1>6. /\ read' \in Seq(AnyField) /\ Len(read') = 1 /\ read'[1] = Field("version", v)
  BY <1>3, <1>5 DEF Grows
<1>7. CASE v # VAULT_INDEX_VERSION
  <2>1. result' = "version" /\ UNCHANGED <<len, entry_count, files, capacity>>
    BY <1>1, <1>3, <1>7 DEF Rejects
  <2>2. Field("version", v) \in AnyField
    BY DEF Field, AnyField, FieldName, FieldValue
  <2>3. ASSUME NEW x \in Encodings
        PROVE  x.fields[Len(read) + 1] # Field("version", v)
    <3>1. x.fields[1] = Field("version", VAULT_INDEX_VERSION)
      BY EncodingIs DEF LaidOut
    <3> QED
      BY <1>5, <1>7, <3>1, FieldParts
  <2>4. read \in Seq(AnyField)
    BY <1>2 DEF Typed
  <2>5. \A x \in Encodings : x.len = len => ~IsPrefix(read', x.fields)
    BY <1>3, <2>2, <2>3, <2>4, RejectedField
  <2> QED
    BY <1>2, <1>3, <1>6, <2>1, <2>5, RejectEnds
<1>8. CASE v = VAULT_INDEX_VERSION
  <2>1. /\ at' = "nonce_counter" /\ result' = NULL
        /\ UNCHANGED <<len, entry_count, files, capacity>>
    BY <1>1, <1>3, <1>8 DEF Continues
  <2>2. Typed' /\ WithinInput'
    BY <1>2, <1>3, <1>6, <2>1 DEF Typed, WithinInput
  <2>3. InPreamble'
    BY <1>3, <1>5, <1>6, <1>8, <2>1 DEF InPreamble, Preamble
  <2> QED
    BY <2>1, <2>2, <2>3, ContinueEnds
<1> QED
  BY <1>7, <1>8

\* The counters before the entries, and the counter of an entry.
LEMMA ReadCounterStep ==
    IInv /\ ReadCounter => IInv'
<1>0. SUFFICES ASSUME IInv, ReadCounter PROVE IInv'
  OBVIOUS
<1>1. PICK c \in Counter :
        \/ Take("nonce_counter", 8, c) /\ Continues("data_nonce_counter")
        \/ Take("data_nonce_counter", 8, c) /\ Continues("entry_count")
        \/ Take("entry_data_counter", 8, c) /\ Continues("entry_name_length")
  BY <1>0 DEF ReadCounter
<1>2. UNCHANGED <<entry_count, files, capacity>>
  BY <1>0 DEF ReadCounter
<1>3. Typed /\ WithinInput /\ (result = NULL => InPreamble \/ InEntries)
  BY <1>0 DEF IInv
<1>4. c \in FieldValue /\ 8 \in Nat
      /\ {"nonce_counter", "data_nonce_counter", "entry_data_counter"} \subseteq FieldName
  BY DEF FieldName, FieldValue
<1>5. IsField(Field("nonce_counter", c), "nonce_counter", Counter)
      /\ IsField(Field("data_nonce_counter", c), "data_nonce_counter", Counter)
      /\ IsField(Field("entry_data_counter", c), "entry_data_counter", Counter)
  BY FieldParts DEF IsField
<1>6. read \in Seq(AnyField)
  BY <1>3 DEF Typed
<1>7. CASE Take("nonce_counter", 8, c) /\ Continues("data_nonce_counter")
  <2>1. /\ result = NULL /\ at = "nonce_counter" /\ len' = len
        /\ len \in Nat /\ pos \in Nat /\ pos' = pos + 8 /\ pos' \in Nat /\ pos' <= len
        /\ Grows(Field("nonce_counter", c))
    BY <1>3, <1>4, <1>7, TakeStep
  <2>2. at' = "data_nonce_counter" /\ result' = NULL
    BY <1>7, <2>1 DEF Continues
  <2>3. InPreamble
    BY <1>3, <2>1, WhereWeAre
  <2>4. /\ files = [k \in {} |-> NULL] /\ entry_count = 0
        /\ Len(read) = 1 /\ pos = 2 /\ Preamble(1)
    BY <2>1, <2>3 DEF InPreamble
  <2>5. /\ read' \in Seq(AnyField) /\ Len(read') = 2 /\ read'[2] = Field("nonce_counter", c)
        /\ read'[1] = read[1]
    BY <2>1, <2>4 DEF Grows
  <2>6. Typed' /\ WithinInput'
    BY <1>2, <1>3, <2>1, <2>5 DEF Typed, WithinInput
  <2>7. Preamble(2)'
    BY <1>5, <2>4, <2>5 DEF Preamble
  <2>8. InPreamble'
    BY <1>2, <2>1, <2>2, <2>4, <2>5, <2>7 DEF InPreamble
  <2> QED
    BY <2>2, <2>6, <2>8, ContinueEnds
<1>8. CASE Take("data_nonce_counter", 8, c) /\ Continues("entry_count")
  <2>1. /\ result = NULL /\ at = "data_nonce_counter" /\ len' = len
        /\ len \in Nat /\ pos \in Nat /\ pos' = pos + 8 /\ pos' \in Nat /\ pos' <= len
        /\ Grows(Field("data_nonce_counter", c))
    BY <1>3, <1>4, <1>8, TakeStep
  <2>2. at' = "entry_count" /\ result' = NULL
    BY <1>8, <2>1 DEF Continues
  <2>3. InPreamble
    BY <1>3, <2>1, WhereWeAre
  <2>4. /\ files = [k \in {} |-> NULL] /\ entry_count = 0
        /\ Len(read) = 2 /\ pos = 10 /\ Preamble(2)
    BY <2>1, <2>3 DEF InPreamble
  <2>5. /\ read' \in Seq(AnyField) /\ Len(read') = 3
        /\ read'[3] = Field("data_nonce_counter", c)
        /\ read'[1] = read[1] /\ read'[2] = read[2]
    BY <2>1, <2>4 DEF Grows
  <2>6. Typed' /\ WithinInput'
    BY <1>2, <1>3, <2>1, <2>5 DEF Typed, WithinInput
  <2>7. Preamble(3)'
    BY <1>5, <2>4, <2>5 DEF Preamble
  <2>8. InPreamble'
    BY <1>2, <2>1, <2>2, <2>4, <2>5, <2>7 DEF InPreamble
  <2> QED
    BY <2>2, <2>6, <2>8, ContinueEnds
<1>9. CASE Take("entry_data_counter", 8, c) /\ Continues("entry_name_length")
  <2>1. /\ result = NULL /\ at = "entry_data_counter" /\ len' = len
        /\ len \in Nat /\ pos \in Nat /\ pos' = pos + 8 /\ pos' \in Nat /\ pos' <= len
        /\ Grows(Field("entry_data_counter", c))
    BY <1>3, <1>4, <1>9, TakeStep
  <2>2. at' = "entry_name_length" /\ result' = NULL
    BY <1>9, <2>1 DEF Continues
  <2>3. InEntries
    BY <1>3, <2>1, WhereWeAre
  <2>4. PICK n \in 0..entry_count : \E es \in [1..n -> Entry] :
          Complete(n, es) /\ Partway(n, LenUpTo(es)[n])
    BY <2>3 DEF InEntries
  <2>5. PICK es \in [1..n -> Entry] : Complete(n, es) /\ Partway(n, LenUpTo(es)[n])
    BY <2>4
  <2>6. n \in Nat /\ n <= entry_count
    BY <1>3 DEF Typed
  <2>7. PICK base \in Nat : base = LenUpTo(es)[n]
    BY <2>6, LenUpToFacts
  <2>8. n < entry_count /\ PartRead(n, 1) /\ pos = base + 32
    BY <2>1, <2>5, <2>7 DEF Partway
  <2>9. Field("entry_data_counter", c) \in AnyField
    BY <1>4 DEF Field, AnyField
  <2>10. /\ Complete(n, es)' /\ Len(read') = 6 * n + 4 + 2
         /\ Cell(n, 1)' = Cell(n, 1) /\ Cell(n, 2)' = Field("entry_data_counter", c)
    <3>1. Len(read) = 6 * n + 4 + 1
      BY <2>8 DEF PartRead
    <3>2. 1 \in 0..5 /\ 1 \in 1..1 /\ 1 + 1 = 2
      OBVIOUS
    <3> QED
      BY <1>2, <1>6, <2>1, <2>5, <2>6, <2>9, <3>1, <3>2, EntryGoesOn
  <2>11. PartRead(n, 2)'
    BY <1>5, <2>8, <2>10 DEF PartRead
  <2>12. Partway(n, LenUpTo(es)[n])'
    BY <1>2, <2>1, <2>2, <2>7, <2>8, <2>11 DEF Partway
  <2>13. read' \in Seq(AnyField)
    BY <2>1 DEF Grows
  <2> QED
    BY <1>2, <1>3, <2>1, <2>2, <2>6, <2>10, <2>12, <2>13, EntryStepEnds
<1> QED
  BY <1>1, <1>7, <1>8, <1>9

\* A count that is accepted is as large as the input allows, and one that is
\* rejected is larger: the product does not wrap up to MAX_INDEX_ENTRIES.
LEMMA ReadEntryCountStep ==
    IInv /\ ReadEntryCount => IInv'
<1>0. SUFFICES ASSUME IInv, ReadEntryCount PROVE IInv'
  OBVIOUS
<1>1. PICK n \in Count :
        /\ Take("entry_count", 4, n)
        /\ IF ~CountPlausible(n)
           THEN Rejects("entry_count")
           ELSE /\ entry_count' = n
                /\ capacity' = n
                /\ Continues(NextEntry(0))
                /\ UNCHANGED files
  BY <1>0 DEF ReadEntryCount
<1>2. Typed /\ WithinInput /\ (result = NULL => InPreamble \/ InEntries)
  BY <1>0 DEF IInv
<1>3. n \in Nat /\ n \in FieldValue
  BY Limits DEF FieldValue
<1>4. /\ result = NULL /\ at = "entry_count" /\ len' = len
      /\ len \in Nat /\ pos \in Nat /\ pos' = pos + 4 /\ pos' \in Nat /\ pos' <= len
      /\ Grows(Field("entry_count", n))
  <2>1. "entry_count" \in FieldName /\ 4 \in Nat
    BY DEF FieldName
  <2> QED
    BY <1>1, <1>2, <1>3, <2>1, TakeStep
<1>5. InPreamble
  BY <1>2, <1>4, WhereWeAre
<1>6. /\ files = [k \in {} |-> NULL] /\ entry_count = 0
      /\ Len(read) = 3 /\ pos = 18 /\ Preamble(3)
  BY <1>4, <1>5 DEF InPreamble
<1>7. /\ read' \in Seq(AnyField) /\ Len(read') = 4 /\ read'[4] = Field("entry_count", n)
      /\ read'[1] = read[1] /\ read'[2] = read[2] /\ read'[3] = read[3]
  BY <1>4, <1>6 DEF Grows
<1>8. CountPlausible(n) <=> n <= MAX_INDEX_ENTRIES /\ n * 128 <= len - 22
  <2>1. MIN_ENTRY_LEN = 128
    BY DEF MIN_ENTRY_LEN, ENTRY_FIXED_LEN, ENTRY_KEY_LEN, MIN_ENCRYPTED_LEN,
           XCHACHA20_NONCE_LEN, POLY1305_OUTSIZE
  <2>2. n <= MAX_INDEX_ENTRIES => (n * 128) % USIZE = n * 128
    <3>1. \A a, b \in Nat : a < b => a % b = a
      OBVIOUS
    <3>2. n <= MAX_INDEX_ENTRIES => n * 128 \in Nat /\ n * 128 < USIZE
      BY <1>3, Limits
    <3> QED
      BY <3>1, <3>2, Limits
  <2>3. Remaining - 4 = len - 22
    BY <1>4, <1>6 DEF Remaining
  <2> QED
    BY <2>1, <2>2, <2>3 DEF CountPlausible
<1>9. CASE ~CountPlausible(n)
  <2>1. result' = "entry_count" /\ UNCHANGED <<len, entry_count, files, capacity>>
    BY <1>1, <1>4, <1>9 DEF Rejects
  <2>2. Field("entry_count", n) \in AnyField
    BY <1>3 DEF Field, AnyField, FieldName
  <2>3. ASSUME NEW x \in Encodings, x.len = len
        PROVE  x.fields[Len(read) + 1] # Field("entry_count", n)
    <3>1. PICK m \in 0..MAX_INDEX_ENTRIES : \E xs \in [1..m -> Entry] : \E c, d \in Counter :
            LaidOut(m, xs, c, d) /\ x.fields = EncodeIndex(c, d, xs)
            /\ x.len \in Nat /\ x.len >= 22 + m * 128
      BY EncodingIs
    <3>2. x.fields[4] = Field("entry_count", m)
      BY <3>1 DEF LaidOut
    <3>3. m \in Nat /\ m <= MAX_INDEX_ENTRIES
      BY Limits
    <3>4. m # n
      BY <1>3, <1>4, <1>8, <1>9, <2>3, <3>1, <3>3
    <3> QED
      BY <1>6, <3>2, <3>4, FieldParts
  <2>4. read \in Seq(AnyField)
    BY <1>2 DEF Typed
  <2>5. \A x \in Encodings : x.len = len => ~IsPrefix(read', x.fields)
    BY <1>4, <2>2, <2>3, <2>4, RejectedField
  <2> QED
    BY <1>2, <1>4, <1>7, <2>1, <2>5, RejectEnds
<1>10. CASE CountPlausible(n)
  <2>1. /\ entry_count' = n /\ capacity' = n /\ files' = files /\ result' = NULL
        /\ at' = IF 0 = n THEN "end" ELSE "entry_key"
    BY <1>1, <1>4, <1>10 DEF Continues, NextEntry
  <2>2. Typed'
    <3>1. n \in 0..MAX_INDEX_ENTRIES
      BY <1>3, <1>8, <1>10, Limits
    <3> QED
      BY <1>2, <1>4, <1>7, <2>1, <3>1 DEF Typed
  <2>3. DOMAIN files = {} /\ Cardinality(DOMAIN files) = 0
    BY <1>6, FS_EmptySet
  <2>4. WithinInput'
    <3>1. MIN_ENTRY_LEN = 128
      BY DEF MIN_ENTRY_LEN, ENTRY_FIXED_LEN, ENTRY_KEY_LEN, MIN_ENCRYPTED_LEN,
             XCHACHA20_NONCE_LEN, POLY1305_OUTSIZE
    <3>2. n * 128 <= len /\ 0 <= n
      BY <1>3, <1>4, <1>8, <1>10
    <3> QED
      BY <1>4, <2>1, <2>3, <3>1, <3>2 DEF WithinInput
  <2>5. PICK es \in [1..0 -> Entry] : TRUE
    <3>1. [k \in 1..0 |-> NULL] \in [1..0 -> Entry]
      OBVIOUS
    <3> QED
      BY <3>1
  <2>6. Preamble(4)'
    BY <1>6, <1>7, <2>1 DEF Preamble
  <2>7. Complete(0, es)'
    <3>1. {es[k].key : k \in 1..0} = {}
      OBVIOUS
    <3> QED
      BY <2>1, <2>3, <2>6, <3>1 DEF Complete, UniqueKeys, ReadsAs, FilesAre
  <2>8. LenUpTo(es)[0] = 22
    BY LenUpToFacts
  <2>9. PartRead(0, 0)'
    BY <1>7 DEF PartRead
  <2>10. Partway(0, LenUpTo(es)[0])'
    BY <1>3, <1>4, <1>6, <2>1, <2>8, <2>9 DEF Partway
  <2>11. InEntries'
    <3>1. 0 \in 0..entry_count'
      BY <1>3, <2>1
    <3> QED
      BY <2>7, <2>10, <3>1 DEF InEntries
  <2> QED
    BY <2>1, <2>2, <2>4, <2>11, ContinueEnds
<1> QED
  BY <1>9, <1>10

\* Where the decoder is among the entries.
LEMMA EntryPoint ==
    Typed /\ InEntries =>
        \E n \in Nat : \E es \in [1..n -> Entry] : \E base \in Nat :
            /\ n <= entry_count /\ base = LenUpTo(es)[n]
            /\ Complete(n, es) /\ Partway(n, base)
<1>0. SUFFICES ASSUME Typed, InEntries
               PROVE  \E n \in Nat : \E es \in [1..n -> Entry] : \E base \in Nat :
                        /\ n <= entry_count /\ base = LenUpTo(es)[n]
                        /\ Complete(n, es) /\ Partway(n, base)
  OBVIOUS
<1>1. PICK n \in 0..entry_count : \E es \in [1..n -> Entry] :
        Complete(n, es) /\ Partway(n, LenUpTo(es)[n])
  BY <1>0 DEF InEntries
<1>2. PICK es \in [1..n -> Entry] : Complete(n, es) /\ Partway(n, LenUpTo(es)[n])
  BY <1>1
<1>3. n \in Nat /\ n <= entry_count
  BY <1>0 DEF Typed
<1>4. LenUpTo(es)[n] \in Nat
  BY <1>3, LenUpToFacts
<1> QED
  BY <1>2, <1>3, <1>4

LEMMA ReadEntryKeyStep ==
    IInv /\ ReadEntryKey => IInv'
<1>0. SUFFICES ASSUME IInv, ReadEntryKey PROVE IInv'
  OBVIOUS
<1>1. PICK key \in EntryKey : Take("entry_key", 32, key)
  BY <1>0 DEF ReadEntryKey, ENTRY_KEY_LEN
<1>2. at' = "entry_data_counter" /\ result' = result /\ UNCHANGED <<entry_count, files, capacity>>
  BY <1>0 DEF ReadEntryKey, Continues
<1>3. Typed /\ WithinInput /\ (result = NULL => InPreamble \/ InEntries)
      /\ read \in Seq(AnyField)
  BY <1>0 DEF IInv, Typed
<1>4. /\ result = NULL /\ at = "entry_key" /\ len' = len
      /\ len \in Nat /\ pos \in Nat /\ pos' = pos + 32 /\ pos' \in Nat /\ pos' <= len
      /\ Grows(Field("entry_key", key)) /\ Field("entry_key", key) \in AnyField
  <2>1. "entry_key" \in FieldName /\ 32 \in Nat /\ key \in FieldValue
    BY DEF FieldName, FieldValue
  <2> QED
    BY <1>1, <1>3, <2>1, TakeStep DEF Field, AnyField
<1>5. PICK n \in Nat : \E es \in [1..n -> Entry] : \E base \in Nat :
        /\ n <= entry_count /\ base = LenUpTo(es)[n]
        /\ Complete(n, es) /\ Partway(n, base)
  BY <1>3, <1>4, WhereWeAre, EntryPoint
<1>6. PICK es \in [1..n -> Entry], base \in Nat :
        /\ n <= entry_count /\ base = LenUpTo(es)[n]
        /\ Complete(n, es) /\ Partway(n, base)
  BY <1>5
<1>7. n < entry_count /\ PartRead(n, 0) /\ pos = base
  BY <1>4, <1>6 DEF Partway
<1>8. Complete(n, es)' /\ Len(read') = 6 * n + 4 + 1 /\ Cell(n, 1)' = Field("entry_key", key)
  <2>1. Len(read) = 6 * n + 4 + 0
    BY <1>7 DEF PartRead
  <2>2. 0 \in 0..5 /\ 0 + 1 = 1
    OBVIOUS
  <2> QED
    BY <1>2, <1>3, <1>4, <1>6, <2>1, <2>2, EntryGoesOn
<1>9. PartRead(n, 1)'
  <2>1. IsField(Field("entry_key", key), "entry_key", EntryKey)
    BY FieldParts DEF IsField
  <2> QED
    BY <1>8, <2>1 DEF PartRead
<1>10. Partway(n, LenUpTo(es)[n])'
  BY <1>2, <1>4, <1>6, <1>7, <1>9 DEF Partway
<1>11. read' \in Seq(AnyField)
  BY <1>4 DEF Grows
<1> QED
  BY <1>2, <1>3, <1>4, <1>6, <1>8, <1>10, <1>11, EntryStepEnds

\* A length that is rejected is that of no entry.
LEMMA ReadNameLenStep ==
    IInv /\ ReadNameLen => IInv'
<1>0. SUFFICES ASSUME IInv, ReadNameLen PROVE IInv'
  OBVIOUS
<1>1. PICK v \in CtLen :
        /\ Take("entry_name_length", 4, v)
        /\ IF v \notin NameLens
           THEN Rejects("entry_name_length")
           ELSE Continues("entry_name") /\ UNCHANGED <<entry_count, files, capacity>>
  BY <1>0 DEF ReadNameLen
<1>3. Typed /\ WithinInput /\ (result = NULL => InPreamble \/ InEntries)
      /\ read \in Seq(AnyField)
  BY <1>0 DEF IInv, Typed
<1>4. /\ result = NULL /\ at = "entry_name_length" /\ len' = len
      /\ len \in Nat /\ pos \in Nat /\ pos' = pos + 4 /\ pos' \in Nat /\ pos' <= len
      /\ Grows(Field("entry_name_length", v)) /\ Field("entry_name_length", v) \in AnyField
  <2>1. "entry_name_length" \in FieldName /\ 4 \in Nat /\ v \in FieldValue
    BY Limits DEF FieldName, FieldValue
  <2> QED
    BY <1>1, <1>3, <2>1, TakeStep DEF Field, AnyField
<1>5. PICK n \in Nat : \E es \in [1..n -> Entry] : \E base \in Nat :
        /\ n <= entry_count /\ base = LenUpTo(es)[n]
        /\ Complete(n, es) /\ Partway(n, base)
  BY <1>3, <1>4, WhereWeAre, EntryPoint
<1>6. PICK es \in [1..n -> Entry], base \in Nat :
        /\ n <= entry_count /\ base = LenUpTo(es)[n]
        /\ Complete(n, es) /\ Partway(n, base)
  BY <1>5
<1>7. n < entry_count /\ PartRead(n, 2) /\ pos = base + 40
  BY <1>4, <1>6 DEF Partway
<1>8. Len(read) = 6 * n + 4 + 2
  BY <1>7 DEF PartRead
<1>9. read' \in Seq(AnyField)
  BY <1>4 DEF Grows
<1>10. CASE v \notin NameLens
  <2>1. result' = "entry_name_length" /\ UNCHANGED <<len, entry_count, files, capacity>>
    BY <1>1, <1>4, <1>10 DEF Rejects
  <2>2. ASSUME NEW x \in Encodings, Begins(x.fields)
        PROVE  x.fields[Len(read) + 1] # Field("entry_name_length", v)
    <3>1. Len(read) >= 6 * n + 4 /\ Len(read) + 1 = 6 * n + 4 + 3 /\ entry_count \in Nat
      BY <1>3, <1>8 DEF Typed
    <3>2. PICK e \in Entry : EntryFollows(x, n, es, e)
      BY <1>3, <1>6, <1>7, <2>2, <3>1, EncodingGoesOn
    <3>3. x.fields[6 * n + 4 + 3] = EncodeEntry(e)[3]
      BY <3>2, 3 \in 1..6 DEF EntryFollows
    <3>4. EncodeEntry(e)[3] = Field("entry_name_length", e.name_len) /\ e.name_len \in NameLens
      BY EntryFields DEF Entry
    <3> QED
      BY <1>10, <3>1, <3>3, <3>4, FieldParts
  <2>3. \A x \in Encodings : x.len = len => ~IsPrefix(read', x.fields)
    BY <1>3, <1>4, <2>2, RejectedField
  <2> QED
    BY <1>3, <1>4, <1>9, <2>1, <2>3, RejectEnds
<1>11. CASE v \in NameLens
  <2>1. at' = "entry_name" /\ result' = NULL /\ UNCHANGED <<entry_count, files, capacity>>
    BY <1>1, <1>4, <1>11 DEF Continues
  <2>2. /\ Complete(n, es)' /\ Len(read') = 6 * n + 4 + 3
        /\ Cell(n, 1)' = Cell(n, 1) /\ Cell(n, 2)' = Cell(n, 2)
        /\ Cell(n, 3)' = Field("entry_name_length", v)
    <3>1. 2 \in 0..5 /\ 2 + 1 = 3 /\ 1 \in 1..2 /\ 2 \in 1..2
      OBVIOUS
    <3> QED
      BY <1>3, <1>4, <1>6, <1>8, <2>1, <3>1, EntryGoesOn
  <2>3. PartRead(n, 3)'
    <3>1. IsField(Field("entry_name_length", v), "entry_name_length", NameLens)
      BY <1>11, FieldParts DEF IsField
    <3> QED
      BY <1>7, <2>2, <3>1 DEF PartRead
  <2>4. Partway(n, LenUpTo(es)[n])'
    BY <1>4, <1>6, <1>7, <2>1, <2>3 DEF Partway
  <2> QED
    BY <1>3, <1>4, <1>6, <1>9, <2>1, <2>2, <2>4, EntryStepEnds
<1> QED
  BY <1>10, <1>11

LEMMA ReadNameStep ==
    IInv /\ ReadName => IInv'
<1>0. SUFFICES ASSUME IInv, ReadName PROVE IInv'
  OBVIOUS
<1>1. /\ at = "entry_name"
      /\ Take("entry_name", LastValue("entry_name_length"), LastValue("entry_name_length"))
  BY <1>0 DEF ReadName
<1>2. at' = "entry_data_length" /\ result' = result /\ UNCHANGED <<entry_count, files, capacity>>
  BY <1>0 DEF ReadName, Continues
<1>3. Typed /\ WithinInput /\ (result = NULL => InPreamble \/ InEntries)
      /\ read \in Seq(AnyField)
  BY <1>0 DEF IInv, Typed
<1>4. result = NULL
  BY <1>1 DEF Take
<1>5. PICK n \in Nat : \E es \in [1..n -> Entry] : \E base \in Nat :
        /\ n <= entry_count /\ base = LenUpTo(es)[n]
        /\ Complete(n, es) /\ Partway(n, base)
  BY <1>1, <1>3, <1>4, WhereWeAre, EntryPoint
<1>6. PICK es \in [1..n -> Entry], base \in Nat :
        /\ n <= entry_count /\ base = LenUpTo(es)[n]
        /\ Complete(n, es) /\ Partway(n, base)
  BY <1>5
<1>7. n < entry_count /\ PartRead(n, 3) /\ pos = base + 44
  BY <1>1, <1>6 DEF Partway
<1>8. PICK v \in NameLens : v = Cell(n, 3).value
  BY <1>7 DEF PartRead, IsField
<1>9. LastValue("entry_name_length") = v
  BY <1>3, <1>7, <1>8, EntryValues
<1>10. /\ len' = len
       /\ len \in Nat /\ pos \in Nat /\ pos' = pos + v /\ pos' \in Nat /\ pos' <= len
       /\ Grows(Field("entry_name", v)) /\ Field("entry_name", v) \in AnyField
  <2>1. "entry_name" \in FieldName /\ v \in Nat /\ v \in FieldValue
    BY Limits DEF FieldName, FieldValue
  <2> QED
    BY <1>1, <1>3, <1>9, <2>1, TakeStep DEF Field, AnyField
<1>11. /\ Complete(n, es)' /\ Len(read') = 6 * n + 4 + 4
       /\ Cell(n, 1)' = Cell(n, 1) /\ Cell(n, 2)' = Cell(n, 2) /\ Cell(n, 3)' = Cell(n, 3)
       /\ Cell(n, 4)' = Field("entry_name", v)
  <2>1. Len(read) = 6 * n + 4 + 3
    BY <1>7 DEF PartRead
  <2>2. 3 \in 0..5 /\ 3 + 1 = 4 /\ 1 \in 1..3 /\ 2 \in 1..3 /\ 3 \in 1..3
    OBVIOUS
  <2> QED
    BY <1>2, <1>3, <1>6, <1>10, <2>1, <2>2, EntryGoesOn
<1>12. PartRead(n, 4)'
  BY <1>7, <1>8, <1>11 DEF PartRead
<1>13. Partway(n, LenUpTo(es)[n])'
  <2>1. v \in Nat
    BY Limits
  <2>2. pos' = base + 44 + v
    BY <1>7, <1>10, <2>1
  <2>3. pos' = base + 44 + Cell(n, 3)'.value
    BY <1>8, <1>11, <2>2
  <2> QED
    BY <1>2, <1>6, <1>7, <1>12, <2>3 DEF Partway
<1>14. read' \in Seq(AnyField)
  BY <1>10 DEF Grows
<1> QED
  BY <1>2, <1>3, <1>4, <1>6, <1>10, <1>11, <1>13, <1>14, EntryStepEnds

LEMMA ReadDataLenStep ==
    IInv /\ ReadDataLen => IInv'
<1>0. SUFFICES ASSUME IInv, ReadDataLen PROVE IInv'
  OBVIOUS
<1>1. PICK v \in CtLen :
        /\ Take("entry_data_length", 4, v)
        /\ IF v \notin DataLens
           THEN Rejects("entry_data_length")
           ELSE Continues("entry_data") /\ UNCHANGED <<entry_count, files, capacity>>
  BY <1>0 DEF ReadDataLen
<1>3. Typed /\ WithinInput /\ (result = NULL => InPreamble \/ InEntries)
      /\ read \in Seq(AnyField)
  BY <1>0 DEF IInv, Typed
<1>4. /\ result = NULL /\ at = "entry_data_length" /\ len' = len
      /\ len \in Nat /\ pos \in Nat /\ pos' = pos + 4 /\ pos' \in Nat /\ pos' <= len
      /\ Grows(Field("entry_data_length", v)) /\ Field("entry_data_length", v) \in AnyField
  <2>1. "entry_data_length" \in FieldName /\ 4 \in Nat /\ v \in FieldValue
    BY Limits DEF FieldName, FieldValue
  <2> QED
    BY <1>1, <1>3, <2>1, TakeStep DEF Field, AnyField
<1>5. PICK n \in Nat : \E es \in [1..n -> Entry] : \E base \in Nat :
        /\ n <= entry_count /\ base = LenUpTo(es)[n]
        /\ Complete(n, es) /\ Partway(n, base)
  BY <1>3, <1>4, WhereWeAre, EntryPoint
<1>6. PICK es \in [1..n -> Entry], base \in Nat :
        /\ n <= entry_count /\ base = LenUpTo(es)[n]
        /\ Complete(n, es) /\ Partway(n, base)
  BY <1>5
<1>7. n < entry_count /\ PartRead(n, 4) /\ pos = base + 44 + Cell(n, 3).value
  BY <1>4, <1>6 DEF Partway
<1>8. Len(read) = 6 * n + 4 + 4
  BY <1>7 DEF PartRead
<1>9. read' \in Seq(AnyField)
  BY <1>4 DEF Grows
<1>10. CASE v \notin DataLens
  <2>1. result' = "entry_data_length" /\ UNCHANGED <<len, entry_count, files, capacity>>
    BY <1>1, <1>4, <1>10 DEF Rejects
  <2>2. ASSUME NEW x \in Encodings, Begins(x.fields)
        PROVE  x.fields[Len(read) + 1] # Field("entry_data_length", v)
    <3>1. Len(read) >= 6 * n + 4 /\ Len(read) + 1 = 6 * n + 4 + 5 /\ entry_count \in Nat
      BY <1>3, <1>8 DEF Typed
    <3>2. PICK e \in Entry : EntryFollows(x, n, es, e)
      BY <1>3, <1>6, <1>7, <2>2, <3>1, EncodingGoesOn
    <3>3. x.fields[6 * n + 4 + 5] = EncodeEntry(e)[5]
      BY <3>2, 5 \in 1..6 DEF EntryFollows
    <3>4. EncodeEntry(e)[5] = Field("entry_data_length", e.data_len) /\ e.data_len \in DataLens
      BY EntryFields DEF Entry
    <3> QED
      BY <1>10, <3>1, <3>3, <3>4, FieldParts
  <2>3. \A x \in Encodings : x.len = len => ~IsPrefix(read', x.fields)
    BY <1>3, <1>4, <2>2, RejectedField
  <2> QED
    BY <1>3, <1>4, <1>9, <2>1, <2>3, RejectEnds
<1>11. CASE v \in DataLens
  <2>1. at' = "entry_data" /\ result' = NULL /\ UNCHANGED <<entry_count, files, capacity>>
    BY <1>1, <1>4, <1>11 DEF Continues
  <2>2. /\ Complete(n, es)' /\ Len(read') = 6 * n + 4 + 5
        /\ Cell(n, 1)' = Cell(n, 1) /\ Cell(n, 2)' = Cell(n, 2)
        /\ Cell(n, 3)' = Cell(n, 3) /\ Cell(n, 4)' = Cell(n, 4)
        /\ Cell(n, 5)' = Field("entry_data_length", v)
    <3>1. 4 \in 0..5 /\ 4 + 1 = 5 /\ 1 \in 1..4 /\ 2 \in 1..4 /\ 3 \in 1..4 /\ 4 \in 1..4
      OBVIOUS
    <3> QED
      BY <1>3, <1>4, <1>6, <1>8, <2>1, <3>1, EntryGoesOn
  <2>3. PartRead(n, 5)'
    <3>1. IsField(Field("entry_data_length", v), "entry_data_length", DataLens)
      BY <1>11, FieldParts DEF IsField
    <3> QED
      BY <1>7, <2>2, <3>1 DEF PartRead
  <2>4. Partway(n, LenUpTo(es)[n])'
    <3>1. Cell(n, 3).value \in Nat
      <4>1. IsField(Cell(n, 3), "entry_name_length", NameLens)
        BY <1>7 DEF PartRead
      <4> QED
        BY <4>1, Limits DEF IsField
    <3>2. pos' = base + 48 + Cell(n, 3).value
      BY <1>4, <1>7, <3>1
    <3>3. pos' = base + 48 + Cell(n, 3)'.value
      BY <2>2, <3>2
    <3> QED
      BY <1>6, <1>7, <2>1, <2>3, <3>3 DEF Partway
  <2> QED
    BY <1>3, <1>4, <1>6, <1>9, <2>1, <2>2, <2>4, EntryStepEnds
<1> QED
  BY <1>10, <1>11

LEMMA FieldIs ==
    ASSUME NEW f \in AnyField, NEW name, NEW values, IsField(f, name, values)
    PROVE  f = Field(name, f.value)
  BY DEF IsField, Field, AnyField

\* The values of the entry that is complete but for its data.
LEMMA EntryRead ==
    ASSUME NEW n \in Nat
    PROVE  read \in Seq(AnyField) /\ PartRead(n, 5) =>
           \E e \in Entry :
             /\ e.key = LastValue("entry_key")
             /\ e.data_counter = LastValue("entry_data_counter")
             /\ e.name_len = LastValue("entry_name_length")
             /\ e.data_len = LastValue("entry_data_length")
             /\ e.key = Cell(n, 1).value /\ e.name_len = Cell(n, 3).value
             /\ \A j \in 1..5 : Cell(n, j) = EncodeEntry(e)[j]
<1>0. SUFFICES ASSUME read \in Seq(AnyField), PartRead(n, 5)
               PROVE  \E e \in Entry :
                        /\ e.key = LastValue("entry_key")
                        /\ e.data_counter = LastValue("entry_data_counter")
                        /\ e.name_len = LastValue("entry_name_length")
                        /\ e.data_len = LastValue("entry_data_length")
                        /\ e.key = Cell(n, 1).value /\ e.name_len = Cell(n, 3).value
                        /\ \A j \in 1..5 : Cell(n, j) = EncodeEntry(e)[j]
  OBVIOUS
<1>1. /\ IsField(Cell(n, 1), "entry_key", EntryKey)
      /\ IsField(Cell(n, 2), "entry_data_counter", Counter)
      /\ IsField(Cell(n, 3), "entry_name_length", NameLens)
      /\ Cell(n, 4) = Field("entry_name", Cell(n, 3).value)
      /\ IsField(Cell(n, 5), "entry_data_length", DataLens)
  BY <1>0 DEF PartRead
<1>2. \A j \in 1..5 : Cell(n, j) \in AnyField
  <2>1. Len(read) = 6 * n + 9
    BY <1>0 DEF PartRead
  <2>2. \A j \in 1..5 : 6 * n + 4 + j \in 1..Len(read)
    BY <2>1
  <2> QED
    BY <1>0, <2>2, ElementOfSeq DEF Cell
<1>3. PICK key \in EntryKey, dc \in Counter, nl \in NameLens, dl \in DataLens :
        /\ key = Cell(n, 1).value /\ dc = Cell(n, 2).value
        /\ nl = Cell(n, 3).value /\ dl = Cell(n, 5).value
  BY <1>1 DEF IsField
<1>4. /\ Cell(n, 1) = Field("entry_key", key) /\ Cell(n, 2) = Field("entry_data_counter", dc)
      /\ Cell(n, 3) = Field("entry_name_length", nl) /\ Cell(n, 4) = Field("entry_name", nl)
      /\ Cell(n, 5) = Field("entry_data_length", dl)
  <2>1. 1 \in 1..5 /\ 2 \in 1..5 /\ 3 \in 1..5 /\ 5 \in 1..5
    OBVIOUS
  <2>2. Cell(n, 1) = Field("entry_key", Cell(n, 1).value)
    BY <1>1, <1>2, <2>1, FieldIs
  <2>3. Cell(n, 2) = Field("entry_data_counter", Cell(n, 2).value)
    BY <1>1, <1>2, <2>1, FieldIs
  <2>4. Cell(n, 3) = Field("entry_name_length", Cell(n, 3).value)
    BY <1>1, <1>2, <2>1, FieldIs
  <2>5. Cell(n, 5) = Field("entry_data_length", Cell(n, 5).value)
    BY <1>1, <1>2, <2>1, FieldIs
  <2> QED
    BY <1>1, <1>3, <2>2, <2>3, <2>4, <2>5
<1>5. PICK e \in Entry : e.key = key /\ e.data_counter = dc /\ e.name_len = nl /\ e.data_len = dl
  <2>1. [key |-> key, data_counter |-> dc, name_len |-> nl, data_len |-> dl] \in Entry
    BY DEF Entry
  <2> QED
    BY <2>1
<1>6. \A j \in 1..5 : Cell(n, j) = EncodeEntry(e)[j]
  <2>1. /\ Cell(n, 1) = EncodeEntry(e)[1] /\ Cell(n, 2) = EncodeEntry(e)[2]
        /\ Cell(n, 3) = EncodeEntry(e)[3] /\ Cell(n, 4) = EncodeEntry(e)[4]
        /\ Cell(n, 5) = EncodeEntry(e)[5]
    BY <1>4, <1>5, EntryFields
  <2>2. \A j \in 1..5 : j = 1 \/ j = 2 \/ j = 3 \/ j = 4 \/ j = 5
    OBVIOUS
  <2> QED
    BY <2>1, <2>2
<1>7. /\ LastValue("entry_key") = key /\ LastValue("entry_data_counter") = dc
      /\ LastValue("entry_name_length") = nl /\ LastValue("entry_data_length") = dl
  BY <1>0, <1>3, EntryValues
<1> QED
  BY <1>3, <1>5, <1>6, <1>7

Extends(es2, n, es, e) == es2[n + 1] = e /\ \A k \in 1..n : es2[k] = es[k]

\* The map gets the entry that has just been read.
LEMMA FilesGrow ==
    ASSUME NEW n \in Nat, NEW es \in [1..n -> Entry], NEW e \in Entry,
           NEW es2 \in [1..(n + 1) -> Entry], Extends(es2, n, es, e)
    PROVE  /\ IsFiniteSet(DOMAIN files) /\ FilesAre(es, n) /\ UniqueKeys(es, n)
           /\ e.key \notin DOMAIN files
           /\ files' = [k \in DOMAIN files \cup {e.key} |->
                          IF k = e.key
                          THEN [data_counter |-> e.data_counter, name_len |-> e.name_len,
                                data_len |-> e.data_len]
                          ELSE files[k]]
           => FilesAre(es2, n + 1)' /\ UniqueKeys(es2, n + 1) /\ IsFiniteSet(DOMAIN files')
<1> DEFINE v(f) == [data_counter |-> f.data_counter, name_len |-> f.name_len, data_len |-> f.data_len]
<1>0. SUFFICES ASSUME IsFiniteSet(DOMAIN files), FilesAre(es, n), UniqueKeys(es, n),
                      e.key \notin DOMAIN files,
                      files' = [k \in DOMAIN files \cup {e.key} |->
                                  IF k = e.key THEN v(e) ELSE files[k]]
               PROVE  FilesAre(es2, n + 1)' /\ UniqueKeys(es2, n + 1) /\ IsFiniteSet(DOMAIN files')
  OBVIOUS
<1>1. /\ DOMAIN files = {es[k].key : k \in 1..n} /\ Cardinality(DOMAIN files) = n
      /\ \A k \in 1..n : files[es[k].key] = v(es[k])
  BY <1>0 DEF FilesAre
<1> HIDE DEF v
<1>2. /\ DOMAIN files' = DOMAIN files \cup {e.key} /\ files'[e.key] = v(e)
      /\ \A k \in DOMAIN files : files'[k] = files[k]
  BY <1>0
<1>3. es2[n + 1] = e /\ \A k \in 1..n : es2[k] = es[k]
  BY DEF Extends
<1>4. \A k \in 1..(n + 1) : k = n + 1 \/ k \in 1..n
  OBVIOUS
<1>5. n + 1 \in 1..(n + 1) /\ \A k \in 1..n : k \in 1..(n + 1)
  OBVIOUS
<1>6. DOMAIN files' = {es2[k].key : k \in 1..(n + 1)}
  BY <1>1, <1>2, <1>3, <1>4, <1>5
<1>7. Cardinality(DOMAIN files') = n + 1 /\ IsFiniteSet(DOMAIN files')
  BY <1>0, <1>1, <1>2, FS_AddElement
<1>8. \A k \in 1..(n + 1) : files'[es2[k].key] = v(es2[k])
  BY <1>1, <1>2, <1>3, <1>4
<1>9. UniqueKeys(es2, n + 1)
  <2>1. \A k \in 1..n : es[k].key # e.key
    BY <1>0, <1>1
  <2> QED
    BY <1>0, <1>3, <1>4, <2>1 DEF UniqueKeys
<1> QED
  BY <1>6, <1>7, <1>8, <1>9 DEF FilesAre, v

LEMMA FieldsGrow ==
    ASSUME NEW n \in Nat, NEW es \in [1..n -> Entry], NEW e \in Entry,
           NEW es2 \in [1..(n + 1) -> Entry], Extends(es2, n, es, e)
    PROVE  /\ ReadsAs(es, n) /\ Preamble(4) /\ entry_count' = entry_count
           /\ Len(read) = 6 * n + 4 + 5 /\ Grows(Field("entry_data", e.data_len))
           /\ \A j \in 1..5 : Cell(n, j) = EncodeEntry(e)[j]
           => ReadsAs(es2, n + 1)' /\ Preamble(4)' /\ Len(read') = 6 * (n + 1) + 4
<1>0. SUFFICES ASSUME ReadsAs(es, n), Preamble(4), entry_count' = entry_count,
                      Len(read) = 6 * n + 4 + 5, Grows(Field("entry_data", e.data_len)),
                      \A j \in 1..5 : Cell(n, j) = EncodeEntry(e)[j]
               PROVE  ReadsAs(es2, n + 1)' /\ Preamble(4)' /\ Len(read') = 6 * (n + 1) + 4
  OBVIOUS
<1>1. /\ Len(read') = Len(read) + 1 /\ read'[Len(read) + 1] = Field("entry_data", e.data_len)
      /\ \A i \in 1..Len(read) : read'[i] = read[i]
  BY <1>0 DEF Grows
<1>2. Len(read') = 6 * (n + 1) + 4 /\ Len(read) + 1 = 6 * n + 4 + 6
  BY <1>0, <1>1
<1>3. \A i \in 1..(6 * n + 9) : read'[i] = read[i]
  BY <1>0, <1>1
<1>4. Preamble(4)'
  <2>1. read'[1] = read[1] /\ read'[2] = read[2] /\ read'[3] = read[3] /\ read'[4] = read[4]
    <3>1. 1 \in 1..(6 * n + 9) /\ 2 \in 1..(6 * n + 9) /\ 3 \in 1..(6 * n + 9) /\ 4 \in 1..(6 * n + 9)
      OBVIOUS
    <3> QED
      BY <1>3, <3>1
  <2> QED
    BY <1>0, <2>1 DEF Preamble
<1>5. ASSUME NEW k \in 1..(n + 1), NEW j \in 1..6
      PROVE  read'[6 * k - 2 + j] = EncodeEntry(es2[k])[j]
  <2>1. CASE k \in 1..n
    <3>1. 6 * k - 2 + j \in 1..(6 * n + 9)
      BY <2>1
    <3>2. read[6 * k - 2 + j] = EncodeEntry(es[k])[j]
      BY <1>0, <2>1 DEF ReadsAs
    <3>3. es2[k] = es[k]
      BY <2>1 DEF Extends
    <3> QED
      BY <1>3, <3>1, <3>2, <3>3
  <2>2. CASE k = n + 1
    <3>1. 6 * k - 2 + j = 6 * n + 4 + j
      BY <2>2
    <3>2. CASE j = 6
      <4>1. read'[6 * n + 4 + 6] = Field("entry_data", e.data_len)
        BY <1>1, <1>2
      <4>2. EncodeEntry(e)[6] = Field("entry_data", e.data_len)
        BY EntryFields
      <4> QED
        BY <2>2, <3>1, <3>2, <4>1, <4>2 DEF Extends
    <3>3. CASE j # 6
      <4>1. j \in 1..5 /\ 6 * n + 4 + j \in 1..(6 * n + 9)
        BY <3>3
      <4>2. read[6 * n + 4 + j] = EncodeEntry(e)[j]
        BY <1>0, <4>1 DEF Cell
      <4> QED
        BY <1>3, <2>2, <3>1, <4>1, <4>2 DEF Extends
    <3> QED
      BY <3>2, <3>3
  <2> QED
    BY <2>1, <2>2
<1> QED
  BY <1>2, <1>4, <1>5 DEF ReadsAs

LEMMA ReadDataStep ==
    IInv /\ ReadData => IInv'
<1>0. SUFFICES ASSUME IInv, ReadData PROVE IInv'
  OBVIOUS
<1> DEFINE dl == LastValue("entry_data_length")
           key == LastValue("entry_key")
           value == [data_counter |-> LastValue("entry_data_counter"),
                     name_len |-> LastValue("entry_name_length"), data_len |-> dl]
<1>1. /\ at = "entry_data" /\ Take("entry_data", dl, dl)
      /\ IF key \in DOMAIN files
         THEN Rejects("duplicate_entry_key")
         ELSE /\ files' = [k \in DOMAIN files \cup {key} |-> IF k = key THEN value ELSE files[k]]
              /\ UNCHANGED <<entry_count, capacity>>
              /\ Continues(NextEntry(Cardinality(DOMAIN files')))
  BY <1>0 DEF ReadData
<1> HIDE DEF dl, key, value
<1>2. Typed /\ WithinInput /\ (result = NULL => InPreamble \/ InEntries)
      /\ read \in Seq(AnyField)
  BY <1>0 DEF IInv, Typed
<1>3. result = NULL
  BY <1>1 DEF Take
<1>4. PICK n \in Nat : \E es \in [1..n -> Entry] : \E base \in Nat :
        /\ n <= entry_count /\ base = LenUpTo(es)[n]
        /\ Complete(n, es) /\ Partway(n, base)
  BY <1>1, <1>2, <1>3, WhereWeAre, EntryPoint
<1>5. PICK es \in [1..n -> Entry], base \in Nat :
        /\ n <= entry_count /\ base = LenUpTo(es)[n]
        /\ Complete(n, es) /\ Partway(n, base)
  BY <1>4
<1>6. n < entry_count /\ PartRead(n, 5) /\ pos = base + 48 + Cell(n, 3).value
  BY <1>1, <1>5 DEF Partway
<1>7. Len(read) = 6 * n + 4 + 5 /\ entry_count \in Nat
  BY <1>2, <1>6 DEF PartRead, Typed
<1>8. PICK e \in Entry :
        /\ e.key = key /\ e.data_len = dl
        /\ value = [data_counter |-> e.data_counter, name_len |-> e.name_len, data_len |-> e.data_len]
        /\ e.key = Cell(n, 1).value /\ e.name_len = Cell(n, 3).value
        /\ \A j \in 1..5 : Cell(n, j) = EncodeEntry(e)[j]
  BY <1>2, <1>6, EntryRead DEF key, dl, value
<1>9. e.name_len \in Nat /\ e.data_len \in Nat /\ EntryLen(e) = 48 + e.name_len + e.data_len
  BY EntryFacts DEF EntryLen
<1>10. /\ len' = len
       /\ len \in Nat /\ pos \in Nat /\ pos' = pos + e.data_len /\ pos' \in Nat /\ pos' <= len
       /\ Grows(Field("entry_data", e.data_len)) /\ Field("entry_data", e.data_len) \in AnyField
  <2>1. "entry_data" \in FieldName /\ e.data_len \in FieldValue
    BY <1>9 DEF FieldName, FieldValue
  <2>2. Take("entry_data", e.data_len, e.data_len)
    BY <1>1, <1>8
  <2> QED
    BY <1>2, <1>9, <2>1, <2>2, TakeStep DEF Field, AnyField
<1>11. read' \in Seq(AnyField)
  BY <1>10 DEF Grows
<1>12. CASE key \in DOMAIN files
  <2>1. result' = "duplicate_entry_key" /\ UNCHANGED <<len, entry_count, files, capacity>>
    BY <1>1, <1>10, <1>12 DEF Rejects
  <2>2. PICK k \in 1..n : es[k].key = e.key
    BY <1>5, <1>8, <1>12 DEF Complete, FilesAre
  <2>3. ASSUME NEW x \in Encodings, Begins(x.fields)
        PROVE  FALSE
    <3>1. Len(read) >= 6 * n + 4 /\ Len(read) >= 6 * n + 4 + 1
      BY <1>7
    <3>2. PICK g \in Entry : EntryFollows(x, n, es, g)
      BY <1>2, <1>5, <1>6, <1>7, <2>3, <3>1, EncodingGoesOn
    <3>3. g.key = e.key
      BY <1>2, <1>8, <2>3, <3>1, <3>2, SoFar
    <3> QED
      BY <2>2, <3>2, <3>3 DEF EntryFollows
  <2>4. \A x \in Encodings : x.len = len => ~IsPrefix(read', x.fields)
    BY <1>2, <1>10, <2>3, RejectedField
  <2> QED
    BY <1>2, <1>10, <1>11, <2>1, <2>4, RejectEnds
<1>13. CASE key \notin DOMAIN files
  <2>1. /\ files' = [k \in DOMAIN files \cup {e.key} |->
                       IF k = e.key
                       THEN [data_counter |-> e.data_counter, name_len |-> e.name_len,
                             data_len |-> e.data_len]
                       ELSE files[k]]
        /\ UNCHANGED <<entry_count, capacity>> /\ result' = NULL
        /\ at' = NextEntry(Cardinality(DOMAIN files'))
    BY <1>1, <1>3, <1>8, <1>13 DEF Continues
  <2>2. PICK es2 \in [1..(n + 1) -> Entry] : Extends(es2, n, es, e)
    <3>1. [k \in 1..(n + 1) |-> IF k = n + 1 THEN e ELSE es[k]] \in [1..(n + 1) -> Entry]
      OBVIOUS
    <3>2. Extends([k \in 1..(n + 1) |-> IF k = n + 1 THEN e ELSE es[k]], n, es, e)
      BY DEF Extends
    <3> QED
      BY <3>1, <3>2
  <2>3. FilesAre(es2, n + 1)' /\ UniqueKeys(es2, n + 1) /\ IsFiniteSet(DOMAIN files')
    <3>1. IsFiniteSet(DOMAIN files) /\ FilesAre(es, n) /\ UniqueKeys(es, n) /\ e.key \notin DOMAIN files
      BY <1>2, <1>5, <1>8, <1>13 DEF Typed, Complete
    <3> QED
      BY <2>1, <2>2, <3>1, FilesGrow
  <2>4. ReadsAs(es2, n + 1)' /\ Preamble(4)' /\ Len(read') = 6 * (n + 1) + 4
    <3>1. ReadsAs(es, n) /\ Preamble(4)
      BY <1>5 DEF Complete
    <3> QED
      BY <1>7, <1>8, <1>10, <2>1, <2>2, <3>1, FieldsGrow
  <2>5. Complete(n + 1, es2)'
    BY <2>3, <2>4 DEF Complete, UniqueKeys
  <2>6. Cardinality(DOMAIN files') = n + 1
    BY <2>3 DEF FilesAre
  <2>7. Typed' /\ WithinInput'
    <3>1. Typed'
      BY <1>2, <1>10, <1>11, <2>1, <2>3 DEF Typed
    <3>2. n + 1 <= capacity
      BY <1>2, <1>6, <1>7 DEF Typed
    <3>3. WithinInput'
      BY <1>2, <1>10, <2>1, <2>6, <3>2 DEF WithinInput
    <3> QED
      BY <3>1, <3>3
  <2>8. LenUpTo(es2)[n + 1] = pos'
    <3>1. LenUpTo(es2)[n] = base
      <4>1. n <= n /\ n <= n + 1 /\ n + 1 \in Nat /\ \A k \in 1..n : es2[k] = es[k]
        BY <2>2 DEF Extends
      <4> QED
        BY <1>5, <4>1, SameBeginning
    <3>2. LenUpTo(es2)[n + 1] = LenUpTo(es2)[n] + EntryLen(e)
      <4>1. n + 1 \in 1..(n + 1) /\ (n + 1) - 1 = n /\ n + 1 \in Nat
        OBVIOUS
      <4>2. \A k \in 1..(n + 1) : LenUpTo(es2)[k] = LenUpTo(es2)[k - 1] + EntryLen(es2[k])
        BY <4>1, LenUpToFacts
      <4> QED
        BY <2>2, <4>1, <4>2 DEF Extends
    <3> DEFINE nl == e.name_len
               el == e.data_len
    <3>3. /\ nl \in Nat /\ el \in Nat /\ EntryLen(e) = 48 + nl + el
          /\ pos' = pos + el /\ pos = base + 48 + nl
      BY <1>6, <1>8, <1>9, <1>10
    <3> HIDE DEF nl, el
    <3>4. pos' = base + EntryLen(e)
      BY <3>3
    <3> QED
      BY <3>1, <3>2, <3>4
  <2>9. Partway(n + 1, LenUpTo(es2)[n + 1])'
    <3>1. PartRead(n + 1, 0)'
      BY <2>4 DEF PartRead
    <3>2. at' = IF n + 1 = entry_count THEN "end" ELSE "entry_key"
      BY <2>1, <2>6 DEF NextEntry
    <3>3. n + 1 # entry_count => n + 1 < entry_count
      BY <1>6, <1>7
    <3> QED
      BY <2>1, <2>8, <3>1, <3>2, <3>3 DEF Partway
  <2>10. InEntries'
    <3>1. n + 1 \in 0..entry_count'
      BY <1>6, <1>7, <2>1
    <3> QED
      BY <2>5, <2>9, <3>1 DEF InEntries
  <2> QED
    BY <2>1, <2>7, <2>10, ContinueEnds
<1> QED
  BY <1>12, <1>13

\* The places of a sequence of fields are the preamble's and the entries'.
LEMMA Places ==
    ASSUME NEW n \in Nat, NEW i \in 1..(6 * n + 4)
    PROVE  i \in 1..4 \/ \E k \in 1..n : \E j \in 1..6 : i = 6 * k - 2 + j
<1>1. CASE i <= 4
  BY <1>1
<1>2. CASE i > 4
  <2> DEFINE q == (i - 5) \div 6
             r == (i - 5) % 6
  <2>1. i - 5 \in Nat
    BY <1>2
  <2>2. \A a \in Nat : a \div 6 \in Nat /\ a % 6 \in 0..5 /\ a = 6 * (a \div 6) + (a % 6)
    OBVIOUS
  <2>3. q \in Nat /\ r \in 0..5 /\ i - 5 = 6 * q + r
    BY <2>1, <2>2
  <2> HIDE DEF q, r
  <2>4. q + 1 \in 1..n /\ r + 1 \in 1..6 /\ i = 6 * (q + 1) - 2 + (r + 1)
    BY <2>3
  <2> QED
    BY <2>4
<1> QED
  BY <1>1, <1>2

\* Nothing but complete entries has been read: the fields are an encoding's.
LEMMA FieldsAreEncoded ==
    ASSUME NEW n \in Nat, NEW es \in [1..n -> Entry]
    PROVE  /\ read \in Seq(AnyField) /\ Complete(n, es) /\ PartRead(n, 0) /\ entry_count = n
           => \E c, d \in Counter : EncodeIndex(c, d, es) = read
<1>0. SUFFICES ASSUME read \in Seq(AnyField), Complete(n, es), PartRead(n, 0), entry_count = n
               PROVE  \E c, d \in Counter : EncodeIndex(c, d, es) = read
  OBVIOUS
<1>1. /\ read[1] = Field("version", VAULT_INDEX_VERSION)
      /\ IsField(read[2], "nonce_counter", Counter)
      /\ IsField(read[3], "data_nonce_counter", Counter)
      /\ read[4] = Field("entry_count", n)
  BY <1>0 DEF Complete, Preamble
<1>2. Len(read) = 6 * n + 4
  BY <1>0 DEF PartRead
<1>3. read[2] \in AnyField /\ read[3] \in AnyField
  <2>1. 2 \in 1..Len(read) /\ 3 \in 1..Len(read)
    BY <1>2
  <2> QED
    BY <1>0, <2>1, ElementOfSeq
<1>4. PICK c \in Counter, d \in Counter : c = read[2].value /\ d = read[3].value
  BY <1>1 DEF IsField
<1>5. read[2] = Field("nonce_counter", c) /\ read[3] = Field("data_nonce_counter", d)
  <2>1. read[2] = Field("nonce_counter", read[2].value)
    BY <1>1, <1>3, FieldIs
  <2>2. read[3] = Field("data_nonce_counter", read[3].value)
    BY <1>1, <1>3, FieldIs
  <2> QED
    BY <1>4, <2>1, <2>2
<1> DEFINE x == EncodeIndex(c, d, es)
<1>6. /\ x \in Seq(AnyField) /\ Len(x) = 6 * n + 4
      /\ x[1] = Field("version", VAULT_INDEX_VERSION) /\ x[2] = Field("nonce_counter", c)
      /\ x[3] = Field("data_nonce_counter", d) /\ x[4] = Field("entry_count", n)
      /\ \A k \in 1..n : \A j \in 1..6 : x[6 * k - 2 + j] = EncodeEntry(es[k])[j]
  <2>1. LaidOut(n, es, c, d)
    BY IndexFields
  <2>2. 4 + 6 * n = 6 * n + 4
    OBVIOUS
  <2> QED
    BY <2>1, <2>2 DEF LaidOut
<1> HIDE DEF x
<1>7. ASSUME NEW i \in 1..(6 * n + 4)
      PROVE  x[i] = read[i]
  <2>1. CASE i \in 1..4
    <3>1. i = 1 \/ i = 2 \/ i = 3 \/ i = 4
      BY <2>1
    <3> QED
      BY <1>1, <1>5, <1>6, <3>1
  <2>2. ASSUME NEW k \in 1..n, NEW j \in 1..6, i = 6 * k - 2 + j
        PROVE  x[i] = read[i]
    BY <1>0, <1>6, <2>2 DEF Complete, ReadsAs
  <2> QED
    BY <2>1, <2>2, Places
<1>8. x = read
  BY <1>0, <1>2, <1>6, <1>7, SeqEqual
<1> QED
  BY <1>8 DEF x

LEMMA FinishStep ==
    IInv /\ Finish => IInv'
<1>0. SUFFICES ASSUME IInv, Finish PROVE IInv'
  OBVIOUS
<1>1. /\ result = NULL /\ at = "end"
      /\ result' = IF Remaining # 0 THEN "trailing_bytes" ELSE "Ok"
      /\ UNCHANGED <<len, pos, entry_count, files, capacity, read>>
  BY <1>0 DEF Finish
<1>2. Typed /\ WithinInput /\ (InPreamble \/ InEntries) /\ read \in Seq(AnyField)
  BY <1>0, <1>1 DEF IInv, Typed
<1>3. len \in Nat /\ pos \in Nat /\ pos <= len /\ Remaining = len - pos
  BY <1>2, Limits DEF Typed, WithinInput, Remaining
<1>4. PICK n \in Nat : \E es \in [1..n -> Entry] : \E base \in Nat :
        /\ n <= entry_count /\ base = LenUpTo(es)[n]
        /\ Complete(n, es) /\ Partway(n, base)
  BY <1>1, <1>2, WhereWeAre, EntryPoint
<1>5. PICK es \in [1..n -> Entry], base \in Nat :
        /\ n <= entry_count /\ base = LenUpTo(es)[n]
        /\ Complete(n, es) /\ Partway(n, base)
  BY <1>4
<1>6. n = entry_count /\ PartRead(n, 0) /\ pos = base
  BY <1>1, <1>5 DEF Partway
<1>7. Len(read) >= 6 * n + 4
  BY <1>6 DEF PartRead
<1>8. CASE Remaining # 0
  <2>1. ASSUME NEW x \in Encodings, x.len = len, IsPrefix(read, x.fields)
        PROVE  FALSE
    <3>1. Begins(x.fields)
      BY <1>2, <2>1, PrefixBegins
    <3>2. x.len = base
      BY <1>2, <1>5, <1>6, <1>7, <3>1, EncodingGoesOn
    <3> QED
      BY <1>3, <1>6, <1>8, <2>1, <3>2
  <2> QED
    BY <1>1, <1>2, <1>3, <1>8, <2>1, RejectEnds
<1>9. CASE Remaining = 0
  <2>1. result' = "Ok"
    BY <1>1, <1>9
  <2>2. PICK c \in Counter, d \in Counter : EncodeIndex(c, d, es) = read
    BY <1>2, <1>5, <1>6, FieldsAreEncoded
  <2>3. n \in 0..MAX_INDEX_ENTRIES
    BY <1>2, <1>6 DEF Typed
  <2>4. Encoding(c, d, es) \in Encodings
    BY <1>5, <2>3, EncodingsAre DEF Complete
  <2>5. EncodedLen(es) = len /\ Len(es) = n /\ DOMAIN es = 1..n
    BY <1>3, <1>5, <1>6, <1>9, EntriesAreSequences DEF EncodedLen
  <2>6. /\ Cardinality(DOMAIN files) = n
        /\ \A k \in 1..n : files[es[k].key] = [data_counter |-> es[k].data_counter,
                                                name_len |-> es[k].name_len,
                                                data_len |-> es[k].data_len]
    BY <1>5 DEF Complete, FilesAre
  <2>7. AcceptsOnlyEncodings'
    <3>1. /\ Encoding(c, d, es).fields = read /\ Encoding(c, d, es).len = len
          /\ Encoding(c, d, es).entries = es
      BY <2>2, <2>5 DEF Encoding
    <3> QED
      BY <1>1, <2>4, <2>5, <2>6, <3>1 DEF AcceptsOnlyEncodings
  <2>8. Typed' /\ WithinInput'
    BY <1>1, <1>2 DEF Typed, WithinInput
  <2>9. AcceptsEveryEncoding' /\ result' # NULL
    BY <2>1, CodecAssumption DEF AcceptsEveryEncoding
  <2> QED
    BY <2>7, <2>8, <2>9 DEF IInv
<1> QED
  BY <1>8, <1>9

LEMMA Unchanged ==
    IInv /\ UNCHANGED vars => IInv'
<1>0. SUFFICES ASSUME IInv, UNCHANGED vars PROVE IInv'
  OBVIOUS
<1>1. UNCHANGED <<len, pos, at, entry_count, files, capacity, result, read>>
  BY <1>0 DEF vars
<1>2. Typed' /\ WithinInput'
  BY <1>0, <1>1 DEF IInv, Typed, WithinInput
<1>3. AcceptsOnlyEncodings' /\ AcceptsEveryEncoding'
  BY <1>0, <1>1 DEF IInv, AcceptsOnlyEncodings, AcceptsEveryEncoding
<1>4. InPreamble => InPreamble'
  BY <1>1 DEF InPreamble, Preamble
<1>5. ASSUME NEW n, NEW es, NEW base
      PROVE  Complete(n, es) /\ Partway(n, base) => Complete(n, es)' /\ Partway(n, base)'
  <2>1. Complete(n, es) => Complete(n, es)'
    BY <1>1 DEF Complete, Preamble, ReadsAs, FilesAre, UniqueKeys
  <2>2. \A p : PartRead(n, p) => PartRead(n, p)'
    BY <1>1 DEF PartRead, Cell
  <2>3. Cell(n, 3)' = Cell(n, 3)
    BY <1>1 DEF Cell
  <2>4. Partway(n, base) => Partway(n, base)'
    BY <1>1, <2>2, <2>3 DEF Partway
  <2> QED
    BY <2>1, <2>4
<1>6. InEntries => InEntries'
  BY <1>1, <1>5 DEF InEntries
<1> QED
  BY <1>0, <1>1, <1>2, <1>3, <1>4, <1>6 DEF IInv

-----------------------------------------------------------------------------
(***************************************************************************)
(* The theorems.                                                           *)
(***************************************************************************)
LEMMA IInvInit == Init => IInv
<1>0. SUFFICES ASSUME Init PROVE IInv
  OBVIOUS
<1>1. /\ len \in InputLen /\ pos = 0 /\ at = "version" /\ entry_count = 0
      /\ files = [k \in {} |-> NULL] /\ capacity = 0 /\ result = NULL /\ read = <<>>
  BY <1>0 DEF Init
<1>2. read \in Seq(AnyField) /\ Len(read) = 0
  BY <1>1, EmptySeq
<1>3. DOMAIN files = {} /\ IsFiniteSet(DOMAIN files) /\ Cardinality(DOMAIN files) = 0
  BY <1>1, FS_EmptySet
<1>4. len \in Nat
  BY <1>1, Limits
<1>5. Typed
  <2>1. 0 \in 0..MAX_INDEX_ENTRIES
    BY Limits
  <2> QED
    BY <1>1, <1>2, <1>3, <2>1 DEF Typed
<1>6. WithinInput
  <2>1. MIN_ENTRY_LEN = 128
    BY DEF MIN_ENTRY_LEN, ENTRY_FIXED_LEN, ENTRY_KEY_LEN, MIN_ENCRYPTED_LEN,
           XCHACHA20_NONCE_LEN, POLY1305_OUTSIZE
  <2> QED
    BY <1>1, <1>3, <1>4, <2>1 DEF WithinInput
<1>7. InPreamble
  BY <1>1, <1>2 DEF InPreamble
<1>8. AcceptsOnlyEncodings /\ AcceptsEveryEncoding
  BY <1>1, CodecAssumption DEF AcceptsOnlyEncodings, AcceptsEveryEncoding
<1> QED
  BY <1>5, <1>6, <1>7, <1>8 DEF IInv

LEMMA IInvNext == IInv /\ [Next]_vars => IInv'
<1>1. CASE UNCHANGED vars
  BY <1>1, Unchanged
<1>2. CASE Returned
  BY <1>2, Unchanged DEF Returned
<1> QED
  BY <1>1, <1>2, TruncatedStep, ReadVersionStep, ReadCounterStep, ReadEntryCountStep,
     ReadEntryKeyStep, ReadNameLenStep, ReadNameStep, ReadDataLenStep, ReadDataStep,
     FinishStep DEF Next

LEMMA IInvAlways == Spec => []IInv
<1> QED
  BY IInvInit, IInvNext, PTL DEF Spec

\* Whatever count the input claims, decode_index reads no byte past its end and
\* asks for no more entries than the input has bytes for.
THEOREM DecoderStaysInside == Spec => []WithinInput
<1>1. IInv => WithinInput
  BY DEF IInv
<1> QED
  BY <1>1, IInvAlways, PTL

\* What decode_index accepts, whatever its length and its fields, is an output
\* of encode_index, and the map it returns is the one that was encoded.
THEOREM OnlyEncodingsDecode == Spec => []AcceptsOnlyEncodings
<1>1. IInv => AcceptsOnlyEncodings
  BY DEF IInv
<1> QED
  BY <1>1, IInvAlways, PTL

\* No output of encode_index, of any number of entries within the limits, is
\* rejected by decode_index.
THEOREM EveryEncodingDecodes == Spec => []AcceptsEveryEncoding
<1>1. IInv => AcceptsEveryEncoding
  BY DEF IInv
<1> QED
  BY <1>1, IInvAlways, PTL
=============================================================================
