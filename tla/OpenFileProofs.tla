---------------------------- MODULE OpenFileProofs ----------------------------
(***************************************************************************)
(* Proofs about OpenFile, for every set of sources and of inputs: only a   *)
(* whole file opens, an error names what is wrong, and an input costs      *)
(* nothing before its envelope is known to be well formed.                 *)
(*                                                                         *)
(* The offsets of parse_envelope and the layout that export writes meet in *)
(* two lemmas: EnvelopeShape says what an input is that passes the checks, *)
(* WholeShape what one is that was written, cell for cell.                 *)
(***************************************************************************)
EXTENDS OpenFile, SequenceTheorems, FiniteSetTheorems, TLAPS

\* The bytes of a counter behind the nonce.
CounterLen(h) == IF h.version = LEGACY_VAULT_VERSION_1 THEN LEGACY_COUNTER_LEN ELSE 0

\* Where the ciphertext begins, less one.
IndexOffset(h) == 4 + XCHACHA20_NONCE_LEN + CounterLen(h)

Half(n) == [byte |-> n]
JsonPart(h, k) == [json |-> h, part |-> k]
NoncePart(s, k) == [nonce |-> s.id, part |-> k]
SealedPart(s, k) == [sealed |-> s.id, part |-> k]

\* The first cells of a file with this header.
BeginsWith(d, h) ==
    /\ d[1] = Half(2) /\ d[2] = Half(0)
    /\ d[3] = JsonPart(h, 1) /\ d[4] = JsonPart(h, 2)

\* The file is s, cell for cell; what the counter cells hold does not matter.
ShapedAs(d, s) ==
    /\ Len(d) = IndexOffset(s.header) + 3
    /\ BeginsWith(d, s.header)
    /\ \A k \in 1..XCHACHA20_NONCE_LEN : d[4 + k] = NoncePart(s, k)
    /\ \A k \in 1..3 : d[IndexOffset(s.header) + k] = SealedPart(s, k)

\* An envelope with header h.
Enveloped(d, h) ==
    /\ ValidateHeader(h)
    /\ BeginsWith(d, h)
    /\ Len(d) >= IndexOffset(h)
    /\ Len(d) <= MAX_VAULT_FILE_SIZE
    /\ 2 <= MAX_HEADER_JSON_LEN
-----------------------------------------------------------------------------
(***************************************************************************)
(* Numbers and cells.                                                      *)
(***************************************************************************)
LEMMA Lengths ==
    /\ XCHACHA20_NONCE_LEN \in Nat /\ LEGACY_COUNTER_LEN \in Nat
    /\ MAX_HEADER_JSON_LEN \in Nat /\ MAX_VAULT_FILE_SIZE \in Nat
    /\ \A h : CounterLen(h) \in Nat /\ IndexOffset(h) \in Nat
    /\ BASE \in Nat /\ BASE > 3
<1>1. /\ XCHACHA20_NONCE_LEN \in Nat /\ LEGACY_COUNTER_LEN \in Nat
      /\ MAX_HEADER_JSON_LEN \in Nat /\ MAX_VAULT_FILE_SIZE \in Nat
  BY FormatAssumption
<1>2. BASE \in Nat /\ BASE > 3
  BY FormatAssumption
<1> QED
  BY <1>1, <1>2 DEF CounterLen, IndexOffset

\* A number of two halves that is 2.
LEMMA TwoInHalves ==
    ASSUME NEW a \in 0..(BASE - 1), NEW b \in 0..(BASE - 1)
    PROVE  a + BASE * b = 2 <=> a = 2 /\ b = 0
<1>1. BASE \in Nat /\ BASE > 3
  BY Lengths
<1>2. CASE b = 0
  BY <1>1, <1>2
<1>3. CASE b # 0
  <2>1. b \in Nat /\ b >= 1 /\ a \in Nat
    BY <1>1, <1>3
  <2>2. BASE * b >= BASE /\ BASE * b \in Nat
    BY <1>1, <2>1
  <2> QED
    BY <1>1, <1>3, <2>1, <2>2
<1> QED
  BY <1>2, <1>3

LEMMA LeBytesOfTwo == LeBytes(2) = << Half(2), Half(0) >>
<1>1. BASE \in Nat /\ BASE > 3
  BY Lengths
<1>2. 2 % BASE = 2 /\ 2 \div BASE = 0
  BY <1>1
<1> QED
  BY <1>2 DEF LeBytes, Half

\* A length field says 2 if and only if it is LeBytes(2): a symbol in its
\* place says something else.
LEMMA LengthIsTwo ==
    ASSUME NEW c
    PROVE  /\ FromLeBytes(c) \in Nat
           /\ FromLeBytes(c) = 2 <=> c[1] = Half(2) /\ c[2] = Half(0)
<1>1. BASE \in Nat /\ BASE > 3
  BY Lengths
<1>2. \A x : ByteValue(x) \in 0..(BASE - 1)
  BY <1>1 DEF ByteValue, Byte
<1>3. \A x : ByteValue(x) = 2 <=> x = Half(2)
  <2>1. ASSUME NEW x, ByteValue(x) = 2
        PROVE  x = Half(2)
    <3>1. x \in Byte /\ x.byte = 2
      BY <1>1, <2>1 DEF ByteValue
    <3> QED
      BY <3>1 DEF Byte, Half
  <2>2. Half(2) \in Byte /\ Half(2).byte = 2
    BY <1>1 DEF Byte, Half
  <2> QED
    BY <2>1, <2>2 DEF ByteValue
<1>4. \A x : ByteValue(x) = 0 <=> x = Half(0)
  <2>1. ASSUME NEW x, ByteValue(x) = 0
        PROVE  x = Half(0)
    <3>1. x \in Byte /\ x.byte = 0
      BY <1>1, <2>1 DEF ByteValue
    <3> QED
      BY <3>1 DEF Byte, Half
  <2>2. Half(0) \in Byte /\ Half(0).byte = 0
    BY <1>1 DEF Byte, Half
  <2> QED
    BY <2>1, <2>2 DEF ByteValue
<1>5. ByteValue(c[1]) \in 0..(BASE - 1) /\ ByteValue(c[2]) \in 0..(BASE - 1)
  BY <1>2
<1>6. FromLeBytes(c) = ByteValue(c[1]) + BASE * ByteValue(c[2])
  BY DEF FromLeBytes
<1>7. FromLeBytes(c) \in Nat
  BY <1>1, <1>5, <1>6
<1>8. FromLeBytes(c) = 2 <=> ByteValue(c[1]) = 2 /\ ByteValue(c[2]) = 0
  BY <1>5, <1>6, TwoInHalves
<1> QED
  BY <1>3, <1>4, <1>7, <1>8

\* The parts of a header's JSON say which header it is.
LEMMA JsonFacts ==
    ASSUME NEW h
    PROVE  /\ ToAadBytes(h) = << JsonPart(h, 1), JsonPart(h, 2) >>
           /\ Len(ToAadBytes(h)) = 2 /\ DOMAIN ToAadBytes(h) = {1, 2}
           /\ ToSet(ToAadBytes(h)) = {JsonPart(h, 1), JsonPart(h, 2)}
           /\ \A k : JsonPart(h, k) # Blank
           /\ JsonPart(h, 1) # JsonPart(h, 2)
           /\ \A g, k, m : JsonPart(h, k) = JsonPart(g, m) => g = h
<1>1. ToAadBytes(h) = << JsonPart(h, 1), JsonPart(h, 2) >>
  BY DEF ToAadBytes, JsonPart
<1>2. \A k : JsonPart(h, k) # Blank
  <2>1. \A k : DOMAIN JsonPart(h, k) = {"json", "part"}
    BY DEF JsonPart
  <2>2. DOMAIN Blank = {"white"}
    BY DEF Blank
  <2> QED
    BY <2>1, <2>2
<1>3. \A g, k, m : JsonPart(h, k) = JsonPart(g, m) => g = h /\ k = m
  <2>1. \A g, m : JsonPart(g, m).json = g /\ JsonPart(g, m).part = m
    BY DEF JsonPart
  <2> QED
    BY <2>1
<1> HIDE DEF JsonPart
<1>4. DOMAIN << JsonPart(h, 1), JsonPart(h, 2) >> = {1, 2}
  <2>1. DOMAIN << JsonPart(h, 1), JsonPart(h, 2) >> = 1..2
    OBVIOUS
  <2> QED
    BY <2>1
<1>5. ToSet(<< JsonPart(h, 1), JsonPart(h, 2) >>) = {JsonPart(h, 1), JsonPart(h, 2)}
  BY <1>4 DEF ToSet
<1> QED
  BY <1>1, <1>2, <1>3, <1>4, <1>5

\* A canonical header parses to itself, and what parses is one of Header.
LEMMA FromSliceFacts ==
    /\ \A h \in Header : FromSlice(ToAadBytes(h)) = h
    /\ \A text : FromSlice(text) # NULL => FromSlice(text) \in Header
<1>1. ASSUME NEW h \in Header
      PROVE  FromSlice(ToAadBytes(h)) = h
  <2> DEFINE text == ToAadBytes(h)
             tokens == {k \in DOMAIN text : text[k] # Blank}
             parsed == {g \in Header : /\ {text[k] : k \in tokens} = ToSet(ToAadBytes(g))
                                       /\ Cardinality(tokens) = Len(ToAadBytes(g))}
  <2>1. tokens = {1, 2} /\ text[1] = JsonPart(h, 1) /\ text[2] = JsonPart(h, 2)
    BY JsonFacts
  <2>2. Cardinality(tokens) = 2
    <3>1. {1, 2} = {1} \cup {2} /\ 2 \notin {1}
      OBVIOUS
    <3>0. IsFiniteSet({1}) /\ Cardinality({1}) = 1
      BY FS_Singleton
    <3>2. Cardinality({1, 2}) = 2
      <4>1. Cardinality({1} \cup {2}) = Cardinality({1}) + 1
        BY <3>0, <3>1, FS_AddElement
      <4> QED
        BY <3>0, <3>1, <4>1
    <3> QED
      BY <2>1, <3>2
  <2>3. {text[k] : k \in tokens} = {JsonPart(h, 1), JsonPart(h, 2)}
    BY <2>1
  <2>4. \A g : ToSet(ToAadBytes(g)) = {JsonPart(g, 1), JsonPart(g, 2)} /\ Len(ToAadBytes(g)) = 2
    BY JsonFacts
  <2>5. \A g : {JsonPart(h, 1), JsonPart(h, 2)} = {JsonPart(g, 1), JsonPart(g, 2)} => g = h
    BY JsonFacts
  <2>6. parsed = {h}
    <3> HIDE DEF text, tokens
    <3> QED
      BY <2>2, <2>3, <2>4, <2>5
  <2>7. FromSlice(text) = IF parsed = {} THEN NULL ELSE CHOOSE g \in parsed : TRUE
    BY DEF FromSlice
  <2> HIDE DEF parsed
  <2> QED
    BY <2>6, <2>7
<1>2. ASSUME NEW text, FromSlice(text) # NULL
      PROVE  FromSlice(text) \in Header
  <2> DEFINE tokens == {k \in DOMAIN text : text[k] # Blank}
             parsed == {g \in Header : /\ {text[k] : k \in tokens} = ToSet(ToAadBytes(g))
                                       /\ Cardinality(tokens) = Len(ToAadBytes(g))}
  <2>1. FromSlice(text) = IF parsed = {} THEN NULL ELSE CHOOSE g \in parsed : TRUE
    BY DEF FromSlice
  <2>2. parsed \subseteq Header
    OBVIOUS
  <2> HIDE DEF parsed
  <2> QED
    BY <1>2, <2>1, <2>2
<1> QED
  BY <1>1, <1>2
-----------------------------------------------------------------------------
(***************************************************************************)
(* What passes the checks of parse_envelope.                               *)
(***************************************************************************)
\* An input is a sequence of its own cells.
LEMMA InputFacts ==
    ASSUME NEW d \in File
    PROVE  /\ d \in Seq(ToSet(d)) /\ Len(d) \in Nat /\ DOMAIN d = 1..Len(d)
           /\ \A k \in 1..Len(d) : d[k] \in ToSet(d)
<1>1. d \in Seq(ToSet(d))
  BY FormatAssumption
<1> QED
  BY <1>1, LenProperties, ElementOfSeq

\* A part of an input.
LEMMA PartOf ==
    ASSUME NEW d \in File, NEW m \in Nat \ {0}, NEW n \in Nat, n <= Len(d)
    PROVE  /\ SubSeq(d, m, n) \in Seq(ToSet(d))
           /\ Len(SubSeq(d, m, n)) = IF m <= n THEN n - m + 1 ELSE 0
           /\ \A k \in 1..(n - m + 1) : SubSeq(d, m, n)[k] = d[m + k - 1]
<1>1. \A k \in m..n : d[k] \in ToSet(d)
  <2>1. \A k \in m..n : k \in 1..Len(d)
    BY InputFacts
  <2> QED
    BY <2>1, InputFacts
<1> QED
  BY <1>1, SubSeqProperties

LEMMA HeaderLenFacts ==
    ASSUME NEW d \in File, Len(d) >= 2
    PROVE  /\ HeaderLen(d) \in Nat
           /\ HeaderLen(d) = 2 <=> d[1] = Half(2) /\ d[2] = Half(0)
<1> DEFINE c == SubSeq(d, 1, 2)
<1>1. \A k \in 1..2 : c[k] = d[k]
  <2>1. \A k \in 1..(2 - 1 + 1) : c[k] = d[1 + k - 1]
    BY InputFacts, PartOf
  <2> QED
    BY <2>1
<1>2. c[1] = d[1] /\ c[2] = d[2]
  BY <1>1
<1>3. HeaderLen(d) = FromLeBytes(c)
  BY DEF HeaderLen, HEADER_LEN_CELLS
<1> HIDE DEF c
<1> QED
  BY <1>2, <1>3, LengthIsTwo

\* The cells of the header are those of h's own serialization.
LEMMA HeaderBytesFacts ==
    ASSUME NEW d \in File, LengthsOk(d), NEW h
    PROVE  HeaderBytes(d) = ToAadBytes(h) <=> HeaderLen(d) = 2 /\ BeginsWith(d, h)
<1>1. /\ Len(d) \in Nat /\ Len(d) >= 2 /\ HeaderLen(d) \in Nat
      /\ AfterHeader(d) = 2 + HeaderLen(d) /\ AfterHeader(d) <= Len(d)
  <2>1. Len(d) \in Nat /\ Len(d) >= 2
    BY InputFacts DEF LengthsOk, HEADER_LEN_CELLS
  <2>2. HeaderLen(d) \in Nat
    BY <2>1, HeaderLenFacts
  <2>3. AfterHeader(d) = 2 + HeaderLen(d)
    BY DEF AfterHeader, HEADER_LEN_CELLS
  <2>4. Len(d) >= AfterHeader(d) + XCHACHA20_NONCE_LEN
    BY DEF LengthsOk
  <2> QED
    BY <2>1, <2>2, <2>3, <2>4, Lengths
<1> DEFINE b == HeaderBytes(d)
           n == HeaderLen(d)
<1>2. b = SubSeq(d, 3, 2 + n)
  BY <1>1 DEF HeaderBytes, HEADER_LEN_CELLS
<1> HIDE DEF b, n
<1>3. /\ b \in Seq(ToSet(d)) /\ Len(b) = (IF 3 <= 2 + n THEN n ELSE 0)
      /\ \A k \in 1..n : b[k] = d[2 + k]
  <2>1. n \in Nat /\ 2 + n <= Len(d) /\ 2 + n \in Nat
    BY <1>1 DEF n
  <2>2. /\ SubSeq(d, 3, 2 + n) \in Seq(ToSet(d))
        /\ Len(SubSeq(d, 3, 2 + n)) = IF 3 <= 2 + n THEN (2 + n) - 3 + 1 ELSE 0
        /\ \A k \in 1..((2 + n) - 3 + 1) : SubSeq(d, 3, 2 + n)[k] = d[3 + k - 1]
    BY <2>1, PartOf
  <2>3. (2 + n) - 3 + 1 = n /\ \A k \in 1..n : 3 + k - 1 = 2 + k
    BY <2>1
  <2> QED
    BY <1>2, <2>2, <2>3
<1>4. Len(b) = n
  BY <1>1, <1>3 DEF n
<1>5. ASSUME b = ToAadBytes(h)
      PROVE  n = 2 /\ BeginsWith(d, h)
  <2>1. n = 2
    BY <1>4, <1>5, JsonFacts
  <2>2. b[1] = d[3] /\ b[2] = d[4]
    BY <1>3, <2>1
  <2>3. b[1] = JsonPart(h, 1) /\ b[2] = JsonPart(h, 2)
    BY <1>5, JsonFacts
  <2>4. d[1] = Half(2) /\ d[2] = Half(0)
    BY <1>1, <2>1, HeaderLenFacts DEF n
  <2> QED
    BY <2>1, <2>2, <2>3, <2>4 DEF BeginsWith
<1>6. ASSUME n = 2, BeginsWith(d, h)
      PROVE  b = ToAadBytes(h)
  <2>1. b[1] = JsonPart(h, 1) /\ b[2] = JsonPart(h, 2) /\ Len(b) = 2
    BY <1>3, <1>4, <1>6 DEF BeginsWith
  <2>2. b = << b[1], b[2] >>
    <3>1. << b[1], b[2] >> \in Seq(ToSet(d)) /\ Len(<< b[1], b[2] >>) = 2
      <4>1. 1 \in 1..Len(b) /\ 2 \in 1..Len(b)
        BY <2>1
      <4>2. b[1] \in ToSet(d) /\ b[2] \in ToSet(d)
        BY <1>3, <4>1, ElementOfSeq
      <4> QED
        BY <4>2
    <3>2. \A k \in 1..2 : b[k] = << b[1], b[2] >>[k]
      OBVIOUS
    <3> QED
      BY <1>3, <2>1, <3>1, <3>2, SeqEqual
  <2> QED
    BY <2>1, <2>2, JsonFacts
<1> QED
  BY <1>5, <1>6 DEF b, n

\* The checks of parse_envelope are met by what has the layout of a header,
\* and the envelope is then cut where the layout says.
LEMMA EnvelopeShape ==
    ASSUME NEW d \in File
    PROVE  /\ EnvelopeOk(d) <=> \E h \in Header : Enveloped(d, h)
           /\ \A h \in Header : Enveloped(d, h) =>
                EnvelopeOf(d) = [header |-> h,
                                 nonce |-> SubSeq(d, 5, 4 + XCHACHA20_NONCE_LEN),
                                 encrypted_index |-> SubSeq(d, IndexOffset(h) + 1, Len(d))]
<1> DEFINE parsed == FromSlice(HeaderBytes(d))
<1>0. Len(d) \in Nat
  BY InputFacts
<1>1. ASSUME EnvelopeOk(d)
      PROVE  parsed \in Header /\ Enveloped(d, parsed)
  <2>1. LengthsOk(d) /\ HeaderOk(d) /\ Len(d) >= IndexStart(d, parsed)
    BY <1>1 DEF EnvelopeOk
  <2>2. parsed \in Header /\ ValidateHeader(parsed) /\ HeaderBytes(d) = ToAadBytes(parsed)
    BY <2>1, FromSliceFacts DEF HeaderOk
  <2>3. HeaderLen(d) = 2 /\ BeginsWith(d, parsed)
    BY <2>1, <2>2, HeaderBytesFacts
  <2>4. Len(d) >= IndexOffset(parsed)
    <3>1. IndexStart(d, parsed) = 2 + 2 + XCHACHA20_NONCE_LEN + CounterLen(parsed)
      BY <2>3 DEF IndexStart, AfterHeader, HEADER_LEN_CELLS, CounterLen
    <3> QED
      BY <2>1, <3>1, Lengths DEF IndexOffset
  <2>5. Len(d) <= MAX_VAULT_FILE_SIZE /\ 2 <= MAX_HEADER_JSON_LEN
    BY <2>1, <2>3 DEF LengthsOk
  <2> QED
    BY <2>2, <2>3, <2>4, <2>5 DEF Enveloped
<1>2. ASSUME NEW h \in Header, Enveloped(d, h)
      PROVE  /\ EnvelopeOk(d)
             /\ EnvelopeOf(d) = [header |-> h,
                                 nonce |-> SubSeq(d, 5, 4 + XCHACHA20_NONCE_LEN),
                                 encrypted_index |-> SubSeq(d, IndexOffset(h) + 1, Len(d))]
  <2>1. Len(d) >= 4 + XCHACHA20_NONCE_LEN /\ Len(d) >= 2
    BY <1>0, <1>2, Lengths DEF Enveloped, IndexOffset
  <2>2. HeaderLen(d) = 2
    BY <1>2, <2>1, HeaderLenFacts DEF Enveloped, BeginsWith
  <2>3. AfterHeader(d) = 4
    BY <2>2 DEF AfterHeader, HEADER_LEN_CELLS
  <2>4. LengthsOk(d)
    BY <1>2, <2>1, <2>2, <2>3 DEF LengthsOk, Enveloped, HEADER_LEN_CELLS
  <2>5. HeaderBytes(d) = ToAadBytes(h)
    BY <1>2, <2>2, <2>4, HeaderBytesFacts DEF Enveloped
  <2>6. parsed = h
    BY <2>5, FromSliceFacts
  <2>7. h # NULL
    BY FormatAssumption DEF Header
  <2>8. HeaderOk(d)
    BY <1>2, <2>5, <2>6, <2>7 DEF HeaderOk, Enveloped
  <2>9. IndexStart(d, h) = IndexOffset(h)
    BY <2>3, Lengths DEF IndexStart, IndexOffset, CounterLen
  <2>10. EnvelopeOk(d)
    BY <1>2, <2>4, <2>6, <2>8, <2>9 DEF EnvelopeOk, Enveloped
  <2>11. EnvelopeOf(d) = [header |-> h,
                          nonce |-> SubSeq(d, 4 + 1, 4 + XCHACHA20_NONCE_LEN),
                          encrypted_index |-> SubSeq(d, IndexOffset(h) + 1, Len(d))]
    BY <2>3, <2>6, <2>9 DEF EnvelopeOf
  <2>12. 4 + 1 = 5
    OBVIOUS
  <2> QED
    BY <2>10, <2>11, <2>12
<1> QED
  BY <1>1, <1>2

\* An input has one header at most.
LEMMA OneHeader ==
    ASSUME NEW d, NEW g, NEW h, BeginsWith(d, g), BeginsWith(d, h)
    PROVE  g = h
<1>1. JsonPart(g, 1) = JsonPart(h, 1)
  BY DEF BeginsWith
<1> QED
  BY <1>1, JsonFacts
-----------------------------------------------------------------------------
(***************************************************************************)
(* What a writer produces.                                                 *)
(***************************************************************************)
\* The cells that a file of s and an input d are made of.
Cells(d, s) ==
    ToSet(d) \cup {Half(2), Half(0), JsonPart(s.header, 1), JsonPart(s.header, 2), Blank}
    \cup {NoncePart(s, k) : k \in 1..XCHACHA20_NONCE_LEN}
    \cup {SealedPart(s, k) : k \in 1..3}

\* Where the parts of a concatenation are.
LEMMA Joined ==
    ASSUME NEW S, NEW a \in Seq(S), NEW b \in Seq(S)
    PROVE  /\ a \o b \in Seq(S)
           /\ Len(a) \in Nat /\ Len(b) \in Nat
           /\ Len(a \o b) = Len(a) + Len(b)
           /\ \A k \in 1..Len(a) : (a \o b)[k] = a[k]
           /\ \A k \in 1..Len(b) : (a \o b)[Len(a) + k] = b[k]
<1> DEFINE u == a \o b
<1>1. Len(a) \in Nat /\ Len(b) \in Nat
  BY LenProperties
<1>2. /\ u \in Seq(S) /\ Len(u) = Len(a) + Len(b)
      /\ \A k \in 1..(Len(a) + Len(b)) : u[k] = IF k <= Len(a) THEN a[k] ELSE b[k - Len(a)]
  BY ConcatProperties
<1> HIDE DEF u
<1>3. \A k \in 1..Len(a) : k \in 1..(Len(a) + Len(b)) /\ k <= Len(a)
  BY <1>1
<1>4. \A k \in 1..Len(b) : /\ Len(a) + k \in 1..(Len(a) + Len(b)) /\ ~(Len(a) + k <= Len(a))
                           /\ Len(a) + k - Len(a) = k
  BY <1>1
<1>5. ASSUME NEW k \in 1..Len(b)
      PROVE  u[Len(a) + k] = b[k]
  <2>1. u[Len(a) + k] = b[Len(a) + k - Len(a)]
    BY <1>2, <1>4
  <2> QED
    BY <1>4, <2>1
<1>6. \A k \in 1..Len(a) : u[k] = a[k]
  BY <1>2, <1>3
<1> QED
  BY <1>1, <1>2, <1>5, <1>6 DEF u

LEMMA TwoCells ==
    ASSUME NEW S, NEW x \in S, NEW y \in S
    PROVE  /\ << x, y >> \in Seq(S) /\ Len(<< x, y >>) = 2
           /\ << x, y >>[1] = x /\ << x, y >>[2] = y
  OBVIOUS

\* The parts of a file of s.
LEMMA PartFacts ==
    ASSUME NEW d, NEW s
    PROVE  LET S == Cells(d, s) IN
           /\ LeBytes(2) \in Seq(S) /\ Len(LeBytes(2)) = 2
           /\ LeBytes(2)[1] = Half(2) /\ LeBytes(2)[2] = Half(0)
           /\ ToAadBytes(s.header) \in Seq(S) /\ Len(ToAadBytes(s.header)) = 2
           /\ ToAadBytes(s.header)[1] = JsonPart(s.header, 1)
           /\ ToAadBytes(s.header)[2] = JsonPart(s.header, 2)
           /\ NonceOf(s) \in Seq(S) /\ Len(NonceOf(s)) = XCHACHA20_NONCE_LEN
           /\ \A k \in 1..XCHACHA20_NONCE_LEN : NonceOf(s)[k] = NoncePart(s, k)
           /\ SealedIndex(s) \in Seq(S) /\ Len(SealedIndex(s)) = 3
           /\ \A k \in 1..3 : SealedIndex(s)[k] = SealedPart(s, k)
<1> DEFINE S == Cells(d, s)
<1>1. /\ {Half(2), Half(0), JsonPart(s.header, 1), JsonPart(s.header, 2)} \subseteq S
      /\ \A k \in 1..XCHACHA20_NONCE_LEN : NoncePart(s, k) \in S
      /\ \A k \in 1..3 : SealedPart(s, k) \in S
  BY DEF Cells
<1> HIDE DEF S
<1>2. /\ LeBytes(2) \in Seq(S) /\ Len(LeBytes(2)) = 2
      /\ LeBytes(2)[1] = Half(2) /\ LeBytes(2)[2] = Half(0)
  <2>1. LeBytes(2) = << Half(2), Half(0) >>
    BY LeBytesOfTwo
  <2>2. Half(2) \in S /\ Half(0) \in S
    BY <1>1
  <2> QED
    BY <2>1, <2>2, TwoCells
<1>3. /\ ToAadBytes(s.header) \in Seq(S) /\ Len(ToAadBytes(s.header)) = 2
      /\ ToAadBytes(s.header)[1] = JsonPart(s.header, 1)
      /\ ToAadBytes(s.header)[2] = JsonPart(s.header, 2)
  <2>1. ToAadBytes(s.header) = << JsonPart(s.header, 1), JsonPart(s.header, 2) >>
    BY JsonFacts
  <2>2. JsonPart(s.header, 1) \in S /\ JsonPart(s.header, 2) \in S
    BY <1>1
  <2> QED
    BY <2>1, <2>2, TwoCells
<1>4. /\ NonceOf(s) \in Seq(S) /\ Len(NonceOf(s)) = XCHACHA20_NONCE_LEN
      /\ \A k \in 1..XCHACHA20_NONCE_LEN : NonceOf(s)[k] = NoncePart(s, k)
  <2>1. NonceOf(s) = [k \in 1..XCHACHA20_NONCE_LEN |-> NoncePart(s, k)]
    BY DEF NonceOf, NoncePart
  <2>2. XCHACHA20_NONCE_LEN \in Nat
    BY Lengths
  <2>3. NonceOf(s) \in [1..XCHACHA20_NONCE_LEN -> S]
    BY <1>1, <2>1
  <2>4. NonceOf(s) \in Seq(S)
    BY <2>2, <2>3, SeqDef
  <2>5. DOMAIN NonceOf(s) = 1..XCHACHA20_NONCE_LEN
    BY <2>1
  <2>6. Len(NonceOf(s)) = XCHACHA20_NONCE_LEN
    BY <2>2, <2>4, <2>5, LenProperties
  <2> QED
    BY <2>1, <2>4, <2>6
<1>5. /\ SealedIndex(s) \in Seq(S) /\ Len(SealedIndex(s)) = 3
      /\ \A k \in 1..3 : SealedIndex(s)[k] = SealedPart(s, k)
  <2>1. SealedIndex(s) = [k \in 1..3 |-> SealedPart(s, k)]
    BY DEF SealedIndex, SealedPart
  <2>3. SealedIndex(s) \in [1..3 -> S]
    BY <1>1, <2>1
  <2>4. SealedIndex(s) \in Seq(S)
    BY <2>3, SeqDef
  <2>5. DOMAIN SealedIndex(s) = 1..3
    BY <2>1
  <2>6. Len(SealedIndex(s)) = 3
    BY <2>4, <2>5, LenProperties
  <2> QED
    BY <2>1, <2>4, <2>6
<1> QED
  BY <1>2, <1>3, <1>4, <1>5 DEF S

\* A file of s with counter cells c.
LEMMA LayoutShape ==
    ASSUME NEW d, NEW s, NEW c,
           s.header.version = LEGACY_VAULT_VERSION_1 =>
               c \in Seq(Cells(d, s)) /\ Len(c) = LEGACY_COUNTER_LEN
    PROVE  /\ Layout(s, c) \in Seq(Cells(d, s))
           /\ ShapedAs(Layout(s, c), s)
           /\ s.header.version = LEGACY_VAULT_VERSION_1 =>
                \A k \in 1..LEGACY_COUNTER_LEN :
                    Layout(s, c)[4 + XCHACHA20_NONCE_LEN + k] = c[k]
<1> DEFINE S == Cells(d, s)
           n == XCHACHA20_NONCE_LEN
           cc == IF s.header.version = LEGACY_VAULT_VERSION_1 THEN c ELSE <<>>
           m == CounterLen(s.header)
           a1 == LeBytes(2)
           a2 == ToAadBytes(s.header)
           a3 == NonceOf(s)
           a5 == SealedIndex(s)
           u2 == a1 \o a2
           u3 == u2 \o a3
           u4 == u3 \o cc
           u5 == u4 \o a5
<1>1. /\ a1 \in Seq(S) /\ Len(a1) = 2 /\ a1[1] = Half(2) /\ a1[2] = Half(0)
      /\ a2 \in Seq(S) /\ Len(a2) = 2
      /\ a2[1] = JsonPart(s.header, 1) /\ a2[2] = JsonPart(s.header, 2)
      /\ a3 \in Seq(S) /\ Len(a3) = n /\ \A k \in 1..n : a3[k] = NoncePart(s, k)
      /\ a5 \in Seq(S) /\ Len(a5) = 3 /\ \A k \in 1..3 : a5[k] = SealedPart(s, k)
  BY PartFacts
<1>2. cc \in Seq(S) /\ Len(cc) = m
  <2>1. <<>> \in Seq(S) /\ Len(<<>>) = 0
    BY EmptySeq
  <2> QED
    BY <2>1 DEF CounterLen
<1>3. Layout(s, c) = u5
  <2>1. Len(ToAadBytes(s.header)) = 2
    BY JsonFacts
  <2> QED
    BY <2>1 DEF Layout
<1>4. s.header.version = LEGACY_VAULT_VERSION_1 => cc = c /\ m = LEGACY_COUNTER_LEN
  BY DEF CounterLen
<1>5. n \in Nat /\ m \in Nat
  BY Lengths
<1> HIDE DEF S, n, cc, m, a1, a2, a3, a5
<1>6. /\ u2 \in Seq(S) /\ Len(u2) = 4
      /\ u2[1] = Half(2) /\ u2[2] = Half(0)
      /\ u2[3] = JsonPart(s.header, 1) /\ u2[4] = JsonPart(s.header, 2)
  <2>0. a1 \in Seq(S) /\ a2 \in Seq(S)
    BY <1>1
  <2>1. /\ u2 \in Seq(S) /\ Len(u2) = Len(a1) + Len(a2)
        /\ \A k \in 1..Len(a1) : u2[k] = a1[k]
        /\ \A k \in 1..Len(a2) : u2[Len(a1) + k] = a2[k]
    BY <2>0, Joined
  <2> HIDE DEF u2
  <2>2. /\ \A k \in 1..2 : u2[k] = a1[k]
        /\ \A k \in 1..2 : u2[2 + k] = a2[k]
        /\ Len(u2) = 4
    BY <1>1, <2>1
  <2>3. u2[1] = a1[1] /\ u2[2] = a1[2] /\ u2[2 + 1] = a2[1] /\ u2[2 + 2] = a2[2]
    BY <2>2
  <2> QED
    BY <1>1, <2>1, <2>2, <2>3
<1> HIDE DEF u2
<1>7. /\ u3 \in Seq(S) /\ Len(u3) = 4 + n
      /\ \A k \in 1..4 : u3[k] = u2[k]
      /\ \A k \in 1..n : u3[4 + k] = NoncePart(s, k)
  <2>0. u2 \in Seq(S) /\ a3 \in Seq(S)
    BY <1>1, <1>6
  <2>1. /\ u3 \in Seq(S) /\ Len(u3) = Len(u2) + Len(a3)
        /\ \A k \in 1..Len(u2) : u3[k] = u2[k]
        /\ \A k \in 1..Len(a3) : u3[Len(u2) + k] = a3[k]
    BY <2>0, Joined
  <2> HIDE DEF u3
  <2> QED
    BY <1>1, <1>6, <2>1
<1> HIDE DEF u3
<1>8. /\ u4 \in Seq(S) /\ Len(u4) = 4 + n + m
      /\ \A k \in 1..(4 + n) : u4[k] = u3[k]
      /\ \A k \in 1..m : u4[4 + n + k] = cc[k]
  <2>0. u3 \in Seq(S) /\ cc \in Seq(S)
    BY <1>2, <1>7
  <2>1. /\ u4 \in Seq(S) /\ Len(u4) = Len(u3) + Len(cc)
        /\ \A k \in 1..Len(u3) : u4[k] = u3[k]
        /\ \A k \in 1..Len(cc) : u4[Len(u3) + k] = cc[k]
    BY <2>0, Joined
  <2> HIDE DEF u4
  <2> QED
    BY <1>2, <1>7, <2>1
<1> HIDE DEF u4
<1>9. /\ u5 \in Seq(S) /\ Len(u5) = 4 + n + m + 3
      /\ \A k \in 1..(4 + n + m) : u5[k] = u4[k]
      /\ \A k \in 1..3 : u5[4 + n + m + k] = SealedPart(s, k)
  <2>0. u4 \in Seq(S) /\ a5 \in Seq(S)
    BY <1>1, <1>8
  <2>1. /\ u5 \in Seq(S) /\ Len(u5) = Len(u4) + Len(a5)
        /\ \A k \in 1..Len(u4) : u5[k] = u4[k]
        /\ \A k \in 1..Len(a5) : u5[Len(u4) + k] = a5[k]
    BY <2>0, Joined
  <2> HIDE DEF u5
  <2> QED
    BY <1>1, <1>8, <2>1
<1> HIDE DEF u5
<1>10. /\ \A k \in 1..4 : u5[k] = u2[k]
       /\ \A k \in 1..n : u5[4 + k] = NoncePart(s, k)
       /\ \A k \in 1..m : u5[4 + n + k] = cc[k]
  <2>1. /\ \A k \in 1..4 : k \in 1..(4 + n) /\ k \in 1..(4 + n + m)
        /\ \A k \in 1..n : 4 + k \in 1..(4 + n) /\ 4 + k \in 1..(4 + n + m)
        /\ \A k \in 1..m : 4 + n + k \in 1..(4 + n + m)
    BY <1>5
  <2> QED
    BY <1>7, <1>8, <1>9, <2>1
<1>11. BeginsWith(u5, s.header)
  BY <1>6, <1>10 DEF BeginsWith
<1>12. IndexOffset(s.header) = 4 + n + m
  BY DEF IndexOffset, n, m
<1>13. ShapedAs(u5, s)
  BY <1>9, <1>10, <1>11, <1>12 DEF ShapedAs, n
<1> QED
  BY <1>3, <1>4, <1>9, <1>10, <1>13 DEF S, n

\* Every place in a file of s is in one of its parts.
LEMMA Places ==
    ASSUME NEW h, NEW k \in 1..(IndexOffset(h) + 3)
    PROVE  \/ k \in 1..4
           \/ k - 4 \in 1..XCHACHA20_NONCE_LEN
           \/ /\ h.version = LEGACY_VAULT_VERSION_1
              /\ k - 4 - XCHACHA20_NONCE_LEN \in 1..LEGACY_COUNTER_LEN
           \/ k - IndexOffset(h) \in 1..3
<1> DEFINE n == XCHACHA20_NONCE_LEN
           m == LEGACY_COUNTER_LEN
<1>1. n \in Nat /\ m \in Nat
  BY Lengths
<1>2. CASE h.version = LEGACY_VAULT_VERSION_1
  <2>1. IndexOffset(h) = 4 + n + m
    BY <1>2 DEF IndexOffset, CounterLen
  <2> HIDE DEF n, m
  <2>2. k \in 1..4 \/ k - 4 \in 1..n \/ k - 4 - n \in 1..m \/ k - (4 + n + m) \in 1..3
    BY <1>1, <2>1
  <2> QED
    BY <1>2, <2>1, <2>2 DEF n, m
<1>3. CASE h.version # LEGACY_VAULT_VERSION_1
  <2>1. IndexOffset(h) = 4 + n
    BY <1>1, <1>3 DEF IndexOffset, CounterLen
  <2> HIDE DEF n, m
  <2>2. k \in 1..4 \/ k - 4 \in 1..n \/ k - (4 + n) \in 1..3
    BY <1>1, <2>1
  <2> QED
    BY <2>1, <2>2 DEF n, m
<1> QED
  BY <1>2, <1>3

\* Byte for byte a source's file, but for the counter cells: cell for cell.
LEMMA WholeShape ==
    ASSUME data \in File, NEW s \in Source
    PROVE  IsWhole(s) <=> ShapedAs(data, s)
<1> DEFINE S == Cells(data, s)
           n == XCHACHA20_NONCE_LEN
           m == LEGACY_COUNTER_LEN
           c0 == [k \in 1..m |-> Blank]
           c1 == SubSeq(data, Len(data) - 3 - m + 1, Len(data) - 3)
           old == s.header.version = LEGACY_VAULT_VERSION_1
<1>1. n \in Nat /\ m \in Nat /\ Len(data) \in Nat
  BY Lengths, InputFacts
<1>2. Len(Layout(s, c0)) = IndexOffset(s.header) + 3
  <2>1. c0 \in [1..m -> S]
    BY DEF Cells
  <2>2. c0 \in Seq(S)
    BY <1>1, <2>1, SeqDef
  <2>3. Len(c0) = m
    <3>1. DOMAIN c0 = 1..m
      OBVIOUS
    <3> QED
      BY <1>1, <2>2, <3>1, LenProperties
  <2> HIDE DEF c0
  <2>4. ShapedAs(Layout(s, c0), s)
    BY <2>2, <2>3, LayoutShape
  <2> QED
    BY <2>4 DEF ShapedAs
<1> HIDE DEF c0
<1>3. IsWhole(s) <=> Len(data) = IndexOffset(s.header) + 3 /\ data = Layout(s, c1)
  BY <1>2 DEF IsWhole, c0
<1>4. data \in Seq(S)
  <2>1. data \in Seq(ToSet(data)) /\ ToSet(data) \subseteq S
    BY InputFacts DEF Cells
  <2> QED
    BY <2>1, SeqMonotonic
<1>5. ASSUME Len(data) = IndexOffset(s.header) + 3
      PROVE  /\ Layout(s, c1) \in Seq(S) /\ ShapedAs(Layout(s, c1), s)
             /\ old => \A k \in 1..m : Layout(s, c1)[4 + n + k] = data[4 + n + k]
  <2>1. ASSUME old
        PROVE  c1 \in Seq(S) /\ Len(c1) = m /\ \A k \in 1..m : c1[k] = data[4 + n + k]
    <3> DEFINE a == Len(data) - 3 - m + 1
               b == Len(data) - 3
    <3>1. Len(data) = 4 + n + m + 3
      BY <1>1, <1>5, <2>1 DEF IndexOffset, CounterLen
    <3>2. /\ a = 4 + n + 1 /\ b = 4 + n + m /\ a \in Nat \ {0} /\ b \in Nat /\ b <= Len(data)
          /\ b - a + 1 = m /\ (IF a <= b THEN b - a + 1 ELSE 0) = m
          /\ \A k \in 1..m : a + k - 1 = 4 + n + k
      <4> HIDE DEF n, m
      <4> QED
        BY <1>1, <3>1
    <3> HIDE DEF a, b
    <3>3. /\ SubSeq(data, a, b) \in Seq(ToSet(data))
          /\ Len(SubSeq(data, a, b)) = IF a <= b THEN b - a + 1 ELSE 0
          /\ \A k \in 1..(b - a + 1) : SubSeq(data, a, b)[k] = data[a + k - 1]
      BY <3>2, PartOf
    <3>4. SubSeq(data, a, b) \in Seq(S)
      <4>1. ToSet(data) \subseteq S
        BY DEF Cells
      <4> QED
        BY <3>3, <4>1, SeqMonotonic
    <3>5. c1 = SubSeq(data, a, b)
      BY DEF a, b
    <3>6. \A k \in 1..m : SubSeq(data, a, b)[k] = data[4 + n + k]
      BY <3>2, <3>3
    <3>7. Len(SubSeq(data, a, b)) = m
      BY <3>2, <3>3
    <3> HIDE DEF c1
    <3> QED
      BY <3>4, <3>5, <3>6, <3>7
  <2> HIDE DEF c1
  <2>2. /\ Layout(s, c1) \in Seq(S) /\ ShapedAs(Layout(s, c1), s)
        /\ old => \A k \in 1..m : Layout(s, c1)[4 + n + k] = c1[k]
    BY <2>1, LayoutShape
  <2> QED
    BY <2>1, <2>2
<1> HIDE DEF c1, S
<1>6. ASSUME IsWhole(s)
      PROVE  ShapedAs(data, s)
  BY <1>3, <1>5, <1>6
<1>7. ASSUME ShapedAs(data, s)
      PROVE  IsWhole(s)
  <2> DEFINE u == Layout(s, c1)
  <2>1. Len(data) = IndexOffset(s.header) + 3
    BY <1>7 DEF ShapedAs
  <2>2. u \in Seq(S) /\ ShapedAs(u, s) /\ (old => \A k \in 1..m : u[4 + n + k] = data[4 + n + k])
    BY <1>5, <2>1
  <2>3. Len(u) = IndexOffset(s.header) + 3
    BY <2>2 DEF ShapedAs
  <2> HIDE DEF u
  <2>4. ASSUME NEW k \in 1..Len(data)
        PROVE  data[k] = u[k]
    <3>0. k \in Nat /\ IndexOffset(s.header) \in Nat
      BY <1>1, Lengths
    <3>1. CASE k \in 1..4
      <4>1. k = 1 \/ k = 2 \/ k = 3 \/ k = 4
        BY <3>1
      <4> QED
        BY <1>7, <2>2, <4>1 DEF ShapedAs, BeginsWith
    <3>2. CASE k - 4 \in 1..n
      <4>1. data[4 + (k - 4)] = u[4 + (k - 4)]
        BY <1>7, <2>2, <3>2 DEF ShapedAs
      <4>2. 4 + (k - 4) = k
        BY <3>0
      <4> QED
        BY <4>1, <4>2
    <3>3. CASE old /\ k - 4 - n \in 1..m
      <4>1. u[4 + n + (k - 4 - n)] = data[4 + n + (k - 4 - n)]
        BY <2>2, <3>3
      <4>2. 4 + n + (k - 4 - n) = k
        BY <1>1, <3>0
      <4> QED
        BY <4>1, <4>2
    <3>4. CASE k - IndexOffset(s.header) \in 1..3
      <4>1. data[IndexOffset(s.header) + (k - IndexOffset(s.header))] = u[IndexOffset(s.header) + (k - IndexOffset(s.header))]
        BY <1>7, <2>2, <3>4 DEF ShapedAs
      <4>2. IndexOffset(s.header) + (k - IndexOffset(s.header)) = k
        BY <3>0
      <4> QED
        BY <4>1, <4>2
    <3> QED
      BY <2>1, <3>1, <3>2, <3>3, <3>4, Places
  <2>5. data = u
    BY <1>4, <2>1, <2>2, <2>3, <2>4, SeqEqual
  <2> QED
    BY <1>3, <2>1, <2>5 DEF u
<1> QED
  BY <1>6, <1>7

\* A sealed index opens under its password if and only if the whole file is
\* there: header, nonce and ciphertext are all authenticated.
LEMMA OpensShape ==
    ASSUME data \in File, EnvelopeOk(data), envelope = EnvelopeOf(data), NEW s \in Source
    PROVE  Opens(s) <=> HasPassword(s) /\ ShapedAs(data, s)
<1> DEFINE n == XCHACHA20_NONCE_LEN
           L == Len(data)
<1>1. PICK h \in Header : Enveloped(data, h)
  BY EnvelopeShape
<1>2. envelope = [header |-> h, nonce |-> SubSeq(data, 5, 4 + n),
                  encrypted_index |-> SubSeq(data, IndexOffset(h) + 1, L)]
  BY <1>1, EnvelopeShape
<1>3. /\ n \in Nat /\ L \in Nat /\ IndexOffset(h) \in Nat /\ IndexOffset(h) <= L /\ 4 + n <= L
      /\ BeginsWith(data, h)
  BY <1>1, Lengths, InputFacts DEF Enveloped, IndexOffset
<1> DEFINE N == SubSeq(data, 5, 4 + n)
           E == SubSeq(data, IndexOffset(h) + 1, L)
           S == Cells(data, s)
<1>4. Opens(s) <=> HasPassword(s) /\ s.header = h /\ N = NonceOf(s) /\ E = SealedIndex(s)
  BY <1>2 DEF Opens, HasPassword
<1>5. ToSet(data) \subseteq S
  BY DEF Cells
<1>6. N \in Seq(S) /\ Len(N) = n /\ \A k \in 1..n : N[k] = data[4 + k]
  <2>1. /\ N \in Seq(ToSet(data))
        /\ Len(N) = IF 5 <= 4 + n THEN 4 + n - 5 + 1 ELSE 0
        /\ \A k \in 1..(4 + n - 5 + 1) : N[k] = data[5 + k - 1]
    BY <1>3, PartOf
  <2> HIDE DEF N
  <2>2. N \in Seq(S)
    BY <1>5, <2>1, SeqMonotonic
  <2>3. 4 + n - 5 + 1 = n /\ \A k \in 1..n : 5 + k - 1 = 4 + k
    BY <1>3
  <2>4. Len(N) = n
    BY <1>3, <2>1
  <2> QED
    BY <2>1, <2>2, <2>3, <2>4
<1>7. E \in Seq(S) /\ Len(E) = L - IndexOffset(h) /\ \A k \in 1..Len(E) : E[k] = data[IndexOffset(h) + k]
  <2> DEFINE f == IndexOffset(h)
  <2>1. /\ E \in Seq(ToSet(data))
        /\ Len(E) = IF f + 1 <= L THEN L - (f + 1) + 1 ELSE 0
        /\ \A k \in 1..(L - (f + 1) + 1) : E[k] = data[(f + 1) + k - 1]
    <3>1. f + 1 \in Nat \ {0} /\ L <= L
      BY <1>3
    <3> QED
      BY <1>3, <3>1, PartOf
  <2> HIDE DEF E
  <2>2. E \in Seq(S)
    BY <1>5, <2>1, SeqMonotonic
  <2> HIDE DEF f
  <2>3. f \in Nat /\ f <= L
    BY <1>3 DEF f
  <2> HIDE DEF L
  <2>4. L \in Nat
    BY <1>3
  <2>5. L - (f + 1) + 1 = L - f /\ \A k \in 1..(L - f) : (f + 1) + k - 1 = f + k
    BY <2>3, <2>4
  <2>6. Len(E) = L - f
    BY <2>1, <2>3, <2>4, <2>5
  <2>7. \A k \in 1..Len(E) : E[k] = data[f + k]
    BY <2>1, <2>5, <2>6
  <2> QED
    BY <2>2, <2>6, <2>7 DEF f
<1> HIDE DEF N, E
<1>8. /\ NonceOf(s) \in Seq(S) /\ Len(NonceOf(s)) = n
      /\ \A k \in 1..n : NonceOf(s)[k] = NoncePart(s, k)
      /\ SealedIndex(s) \in Seq(S) /\ Len(SealedIndex(s)) = 3
      /\ \A k \in 1..3 : SealedIndex(s)[k] = SealedPart(s, k)
  BY PartFacts
<1> HIDE DEF S
<1>9. N = NonceOf(s) <=> \A k \in 1..n : data[4 + k] = NoncePart(s, k)
  <2>1. ASSUME \A k \in 1..n : data[4 + k] = NoncePart(s, k)
        PROVE  N = NonceOf(s)
    <3>1. \A k \in 1..Len(N) : N[k] = NonceOf(s)[k]
      BY <1>6, <1>8, <2>1
    <3> QED
      BY <1>6, <1>8, <3>1, SeqEqual
  <2> QED
    BY <1>6, <1>8, <2>1
<1>10. E = SealedIndex(s) <=> L = IndexOffset(h) + 3 /\ \A k \in 1..3 : data[IndexOffset(h) + k] = SealedPart(s, k)
  <2>1. ASSUME L = IndexOffset(h) + 3, \A k \in 1..3 : data[IndexOffset(h) + k] = SealedPart(s, k)
        PROVE  E = SealedIndex(s)
    <3>1. Len(E) = 3
      BY <1>3, <1>7, <2>1
    <3>2. \A k \in 1..Len(E) : E[k] = SealedIndex(s)[k]
      BY <1>7, <1>8, <2>1, <3>1
    <3> QED
      BY <1>7, <1>8, <3>1, <3>2, SeqEqual
  <2>2. ASSUME E = SealedIndex(s)
        PROVE  L = IndexOffset(h) + 3 /\ \A k \in 1..3 : data[IndexOffset(h) + k] = SealedPart(s, k)
    <3>1. L - IndexOffset(h) = 3
      BY <1>7, <1>8, <2>2
    <3>2. L = IndexOffset(h) + 3
      BY <1>3, <3>1
    <3> QED
      BY <1>7, <1>8, <2>2, <3>2
  <2> QED
    BY <2>1, <2>2
<1>11. BeginsWith(data, s.header) <=> s.header = h
  BY <1>3, OneHeader
<1> QED
  BY <1>4, <1>9, <1>10, <1>11 DEF ShapedAs

LEMMA OpensWhole ==
    ASSUME data \in File, EnvelopeOk(data), envelope = EnvelopeOf(data), NEW s \in Source
    PROVE  Opens(s) <=> HasPassword(s) /\ IsWhole(s)
  BY OpensShape, WholeShape

LEMMA EnvelopeHeader ==
    ASSUME data \in File, EnvelopeOk(data), envelope = EnvelopeOf(data)
    PROVE  envelope.header \in Header /\ ValidateHeader(envelope.header)
<1>1. PICK h \in Header : Enveloped(data, h)
  BY EnvelopeShape
<1>2. envelope.header = h
  BY <1>1, EnvelopeShape
<1> QED
  BY <1>1, <1>2 DEF Enveloped

\* What parse_envelope accepts is what says what it is.
LEMMA WellFormedShape ==
    ASSUME data \in File
    PROVE  WellFormedEnvelope <=> EnvelopeOk(data)
<1> DEFINE front(h) == LeBytes(Len(ToAadBytes(h))) \o ToAadBytes(h)
           L == Len(data)
<1>1. ASSUME NEW h \in Header
      PROVE  h \in Policy <=> ValidateHeader(h)
  <2>1. h \in [version : Nat, kdf_salt : {g.kdf_salt : g \in Header},
               kdf_memory_cost : Nat, kdf_iterations : Nat, key_length : Nat]
    <3>1. PICK s \in Source : h = s.header
      BY DEF Header
    <3>2. h.kdf_salt \in {g.kdf_salt : g \in Header}
      OBVIOUS
    <3> QED
      BY <3>1, <3>2, FormatAssumption
  <2>2. ValidateHeader(h) <=> /\ h.version \in {1, 2} /\ h.key_length \in {KEY_LEN}
                              /\ h.kdf_memory_cost \in MIN_KDF_MEMORY..MAX_KDF_MEMORY
                              /\ h.kdf_iterations \in MIN_KDF_ITERATIONS..MAX_KDF_ITERATIONS
    BY DEF ValidateHeader, SUPPORTED_VAULT_VERSIONS, VAULT_VERSION, LEGACY_VAULT_VERSION_1
  <2> QED
    BY <2>1, <2>2 DEF Policy
<1>2. ASSUME NEW h \in Header
      PROVE  /\ Len(front(h)) = 4
             /\ IsPrefix(front(h), data) <=> L >= 4 /\ BeginsWith(data, h)
  <2>1. PICK s \in Source : h = s.header
    BY DEF Header
  <2> DEFINE S == Cells(data, s)
             a == LeBytes(2)
             b == ToAadBytes(h)
             u == a \o b
  <2>2. front(h) = u
    BY JsonFacts
  <2>3. /\ a \in Seq(S) /\ Len(a) = 2 /\ a[1] = Half(2) /\ a[2] = Half(0)
        /\ b \in Seq(S) /\ Len(b) = 2 /\ b[1] = JsonPart(h, 1) /\ b[2] = JsonPart(h, 2)
    BY <2>1, PartFacts
  <2>4. data \in Seq(S)
    <3>1. data \in Seq(ToSet(data)) /\ ToSet(data) \subseteq S
      BY InputFacts DEF Cells
    <3> QED
      BY <3>1, SeqMonotonic
  <2> HIDE DEF S, a, b
  <2>5. /\ u \in Seq(S) /\ Len(u) = Len(a) + Len(b)
        /\ \A k \in 1..Len(a) : u[k] = a[k]
        /\ \A k \in 1..Len(b) : u[Len(a) + k] = b[k]
    <3>1. a \in Seq(S) /\ b \in Seq(S)
      BY <2>3
    <3> QED
      BY <3>1, Joined
  <2> HIDE DEF u
  <2>6. /\ Len(u) = 4 /\ u[1] = Half(2) /\ u[2] = Half(0)
        /\ u[3] = JsonPart(h, 1) /\ u[4] = JsonPart(h, 2)
    <3>1. /\ \A k \in 1..2 : u[k] = a[k]
          /\ \A k \in 1..2 : u[2 + k] = b[k]
          /\ Len(u) = 4
      BY <2>3, <2>5
    <3>2. u[1] = a[1] /\ u[2] = a[2] /\ u[2 + 1] = b[1] /\ u[2 + 2] = b[2]
      BY <3>1
    <3> QED
      BY <2>3, <3>1, <3>2
  <2>7. SubSeq(u, 1, Len(u)) = u
    BY <2>5, SubSeqFull
  <2>8. IsPrefix(u, data) <=> 4 <= L /\ u = SubSeq(data, 1, 4)
    BY <2>6, <2>7 DEF IsPrefix
  <2>9. ASSUME L >= 4
        PROVE  u = SubSeq(data, 1, 4) <=> BeginsWith(data, h)
    <3> DEFINE v == SubSeq(data, 1, 4)
    <3>1. L \in Nat
      BY InputFacts
    <3>2. /\ v \in Seq(ToSet(data)) /\ Len(v) = 4 /\ \A k \in 1..4 : v[k] = data[k]
      <4>1. /\ v \in Seq(ToSet(data))
            /\ Len(v) = IF 1 <= 4 THEN 4 - 1 + 1 ELSE 0
            /\ \A k \in 1..(4 - 1 + 1) : v[k] = data[1 + k - 1]
        BY <2>9, <3>1, PartOf
      <4> HIDE DEF v
      <4> QED
        BY <4>1
    <3>3. v \in Seq(S)
      <4>1. ToSet(data) \subseteq S
        BY DEF Cells, S
      <4> HIDE DEF v
      <4> QED
        BY <3>2, <4>1, SeqMonotonic
    <3> HIDE DEF v
    <3>4. v[1] = data[1] /\ v[2] = data[2] /\ v[3] = data[3] /\ v[4] = data[4]
      BY <3>2
    <3>5. ASSUME BeginsWith(data, h)
          PROVE  u = v
      <4>1. u[1] = v[1] /\ u[2] = v[2] /\ u[3] = v[3] /\ u[4] = v[4]
        BY <2>6, <3>4, <3>5 DEF BeginsWith
      <4>2. \A k \in 1..4 : k = 1 \/ k = 2 \/ k = 3 \/ k = 4
        OBVIOUS
      <4>3. \A k \in 1..Len(u) : u[k] = v[k]
        BY <2>6, <4>1, <4>2
      <4> QED
        BY <2>5, <2>6, <3>2, <3>3, <4>3, SeqEqual
    <3>6. u = v => BeginsWith(data, h)
      BY <2>6, <3>4 DEF BeginsWith
    <3> QED
      BY <3>5, <3>6 DEF v
  <2> QED
    BY <2>2, <2>6, <2>8, <2>9
<1>3. ASSUME NEW h \in Header
      PROVE  Enveloped(data, h) <=>
                /\ h \in Policy
                /\ Len(data) <= MAX_VAULT_FILE_SIZE
                /\ Len(ToAadBytes(h)) <= MAX_HEADER_JSON_LEN
                /\ IsPrefix(front(h), data)
                /\ L - Len(front(h)) >= XCHACHA20_NONCE_LEN
                     + IF h.version = LEGACY_VAULT_VERSION_1 THEN LEGACY_COUNTER_LEN ELSE 0
  <2>1. L \in Nat /\ Len(ToAadBytes(h)) = 2 /\ Len(front(h)) = 4
    BY <1>2, InputFacts, JsonFacts
  <2>2. L - 4 >= XCHACHA20_NONCE_LEN + CounterLen(h) <=> L >= IndexOffset(h)
    BY <2>1, Lengths DEF IndexOffset
  <2>3. L >= IndexOffset(h) => L >= 4
    BY <2>1, Lengths DEF IndexOffset
  <2> HIDE DEF front, L
  <2>4. L = Len(data)
    BY DEF L
  <2> QED
    BY <1>1, <1>2, <2>1, <2>2, <2>3, <2>4 DEF Enveloped, CounterLen
<1>4. WellFormedEnvelope <=> \E h \in Header : Enveloped(data, h)
  <2>1. WellFormedEnvelope <=>
          /\ Len(data) <= MAX_VAULT_FILE_SIZE
          /\ \E h \in Header \cap Policy :
                /\ Len(ToAadBytes(h)) <= MAX_HEADER_JSON_LEN
                /\ IsPrefix(front(h), data)
                /\ L - Len(front(h)) >= XCHACHA20_NONCE_LEN
                     + IF h.version = LEGACY_VAULT_VERSION_1 THEN LEGACY_COUNTER_LEN ELSE 0
    BY DEF WellFormedEnvelope
  <2> HIDE DEF front, L
  <2> QED
    BY <1>3, <2>1
<1> QED
  BY <1>4, EnvelopeShape
-----------------------------------------------------------------------------
(***************************************************************************)
(* The steps of open.                                                      *)
(***************************************************************************)
FirstRun == [version |-> envelope.header.version,
             memory |-> envelope.header.kdf_memory_cost,
             passes |-> envelope.header.kdf_iterations]

Parsed == {"derive", "authenticate", "decode", "keys", "rekey"}

\* What open knows at each step.
Known ==
    /\ data \in File
    /\ at \in Parsed \cup {"parse", "returned"}
    /\ at # "returned" => result = NULL
    /\ at \in {"parse", "derive"} => derivations = <<>>
    /\ at \in Parsed => EnvelopeOk(data) /\ envelope = EnvelopeOf(data)
    /\ at \in {"authenticate", "decode", "keys", "rekey"} => derivations = << FirstRun >>
    /\ at \in {"decode", "keys", "rekey"} => \E s \in Source : Opens(s) /\ index = s.index
    /\ at \in {"keys", "rekey"} => index.format = envelope.header.version /\ index.wellFormed
    /\ at = "rekey" =>
          index.counterAhead /\ envelope.header.version = LEGACY_VAULT_VERSION_1

IInv == Known /\ OnlyWholeFilesOpen /\ ErrorsNameTheCause /\ BoundedCost

\* One run of Argon2, with the parameters of a header that was checked.
LEMMA OneRun ==
    ASSUME data \in File, EnvelopeOk(data), envelope = EnvelopeOf(data)
    PROVE  /\ FirstRun.memory \in MIN_KDF_MEMORY..MAX_KDF_MEMORY
           /\ FirstRun.passes \in MIN_KDF_ITERATIONS..MAX_KDF_ITERATIONS
           /\ FirstRun.version \in {LEGACY_VAULT_VERSION_1, VAULT_VERSION}
           /\ WellFormedEnvelope
<1>1. ValidateHeader(envelope.header)
  BY EnvelopeHeader
<1>2. /\ FirstRun.memory = envelope.header.kdf_memory_cost
      /\ FirstRun.passes = envelope.header.kdf_iterations
      /\ FirstRun.version = envelope.header.version
  BY DEF FirstRun
<1> QED
  BY <1>1, <1>2, WellFormedShape DEF ValidateHeader, SUPPORTED_VAULT_VERSIONS

\* While open is on its way nothing it has done is out of bounds.
LEMMA BoundedSoFar ==
    Known /\ at # "returned" => OnlyWholeFilesOpen /\ ErrorsNameTheCause /\ BoundedCost
<1> SUFFICES ASSUME Known, at # "returned"
             PROVE  OnlyWholeFilesOpen /\ ErrorsNameTheCause /\ BoundedCost
  OBVIOUS
<1>1. result = NULL /\ data \in File
  BY DEF Known
<1>2. result # "Ok" /\ result # "CorruptedData" /\ result # "InvalidPassword"
  BY <1>1, FormatAssumption
<1>3. CASE derivations = <<>>
  <2>1. DOMAIN derivations = {} /\ Len(derivations) = 0
    BY <1>3
  <2> QED
    BY <1>2, <1>3, <2>1 DEF OnlyWholeFilesOpen, ErrorsNameTheCause, BoundedCost
<1>4. CASE derivations = << FirstRun >> /\ EnvelopeOk(data) /\ envelope = EnvelopeOf(data)
  <2>1. DOMAIN derivations = {1} /\ Len(derivations) = 1 /\ derivations[1] = FirstRun
    BY <1>4
  <2>2. /\ FirstRun.memory \in MIN_KDF_MEMORY..MAX_KDF_MEMORY
        /\ FirstRun.passes \in MIN_KDF_ITERATIONS..MAX_KDF_ITERATIONS
        /\ WellFormedEnvelope
    BY <1>1, <1>4, OneRun
  <2> QED
    BY <1>2, <2>1, <2>2 DEF OnlyWholeFilesOpen, ErrorsNameTheCause, BoundedCost
<1> QED
  BY <1>3, <1>4 DEF Known, Parsed
-----------------------------------------------------------------------------
(***************************************************************************)
(* Every step.                                                             *)
(***************************************************************************)
LEMMA InitHolds == Init => IInv
<1> SUFFICES ASSUME Init PROVE IInv
  OBVIOUS
<1>1. Known
  BY DEF Init, Known, Parsed
<1> QED
  BY <1>1, BoundedSoFar DEF Init, IInv

\* A step that does not return has to keep only what open knows.
LEMMA Onward ==
    ASSUME Known', at' # "returned"
    PROVE  IInv'
<1>1. (Known /\ at # "returned" => OnlyWholeFilesOpen /\ ErrorsNameTheCause /\ BoundedCost)'
  BY BoundedSoFar, PTL
<1> QED
  BY <1>1 DEF IInv

\* What is said of the arguments alone stays.
LEMMA SameInput ==
    ASSUME UNCHANGED <<data, password>>
    PROVE  /\ WellFormedEnvelope' <=> WellFormedEnvelope
           /\ \A s : IsWhole(s)' <=> IsWhole(s)
           /\ \A s : HasPassword(s)' <=> HasPassword(s)
  BY DEF WellFormedEnvelope, IsWhole, HasPassword

\* An answer that is an error and says the truth about the input.  It has cost
\* nothing, or one run for an envelope that is well formed.
LEMMA Refused ==
    ASSUME Known, at \in Parsed \cup {"parse"}, data' \in File,
           UNCHANGED <<data, password, derivations>>, at' = "returned",
           result' \in {"CorruptedData", "InvalidPassword", "CryptoError"},
           ErrorsNameTheCause'
    PROVE  IInv'
<1>1. Known'
  BY DEF Known, Parsed
<1>2. OnlyWholeFilesOpen'
  BY DEF OnlyWholeFilesOpen
<1>3. BoundedCost'
  <2>1. CASE derivations = <<>>
    <3>1. derivations' = <<>> /\ DOMAIN derivations' = {} /\ Len(derivations') = 0
      BY <2>1
    <3> QED
      BY <3>1 DEF BoundedCost
  <2>2. CASE derivations # <<>>
    <3>1. BoundedCost
      BY BoundedSoFar DEF Parsed
    <3>2. Len(derivations) = 1
      BY <2>2 DEF Known, Parsed
    <3> QED
      BY <2>2, <3>1, <3>2, SameInput DEF BoundedCost
  <2> QED
    BY <2>1, <2>2
<1> QED
  BY <1>1, <1>2, <1>3 DEF IInv

LEMMA ParseStep ==
    ASSUME Known, Parse
    PROVE  IInv'
<1>1. data \in File /\ at = "parse" /\ result = NULL /\ derivations = <<>>
  BY DEF Known, Parse
<1>2. CASE EnvelopeOk(data)
  <2>1. /\ UNCHANGED <<data, password, result, derivations>>
        /\ envelope' = EnvelopeOf(data) /\ at' = "derive"
    BY <1>2 DEF Parse, Continues
  <2>2. EnvelopeOk(data') /\ envelope' = EnvelopeOf(data')
    BY <1>2, <2>1
  <2>3. Known'
    BY <1>1, <2>1, <2>2 DEF Known, Parsed
  <2> QED
    BY <2>1, <2>3, Onward
<1>3. CASE ~EnvelopeOk(data)
  <2>1. /\ UNCHANGED <<data, password, derivations>>
        /\ result' = "CorruptedData" /\ at' = "returned"
    BY <1>3 DEF Parse, Returns
  <2>2. ~WellFormedEnvelope'
    BY <1>1, <1>3, <2>1, SameInput, WellFormedShape
  <2>3. ErrorsNameTheCause'
    BY <2>1, <2>2 DEF ErrorsNameTheCause
  <2> QED
    BY <1>1, <2>1, <2>3, Refused
<1> QED
  BY <1>2, <1>3

LEMMA DeriveKeysStep ==
    ASSUME Known, DeriveKeys
    PROVE  IInv'
<1>1. /\ UNCHANGED <<data, password, result, envelope>> /\ at' = "authenticate"
      /\ derivations = <<>> /\ derivations' = Append(<<>>, FirstRun)
  BY DEF Known, DeriveKeys, Argon2, Continues, FirstRun
<1>2. derivations' = << FirstRun >>'
  BY <1>1 DEF FirstRun
<1>3. data' \in File /\ EnvelopeOk(data') /\ envelope' = EnvelopeOf(data') /\ result' = NULL
  BY <1>1 DEF Known, DeriveKeys, Parsed
<1>4. Known'
  BY <1>1, <1>2, <1>3 DEF Known, Parsed
<1> QED
  BY <1>1, <1>4, Onward

LEMMA AuthenticateStep ==
    ASSUME Known, Authenticate
    PROVE  IInv'
<1>1. /\ data \in File /\ at = "authenticate" /\ result = NULL /\ derivations = << FirstRun >>
      /\ EnvelopeOk(data) /\ envelope = EnvelopeOf(data)
      /\ UNCHANGED <<data, password, envelope, derivations>>
  BY DEF Known, Authenticate, Parsed, Continues, Returns
<1>2. CASE \E s \in Source : Opens(s)
  <2> DEFINE t == CHOOSE s \in Source : Opens(s)
  <2>1. t \in Source /\ Opens(t)
    BY <1>2
  <2>2. index' = t.index /\ at' = "decode" /\ result' = result
    BY <1>2 DEF Authenticate, Continues
  <2> HIDE DEF t
  <2>3. \A s : Opens(s)' <=> Opens(s)
    BY <1>1 DEF Opens
  <2>4. (\E s \in Source : Opens(s) /\ index = s.index)'
    BY <2>1, <2>2, <2>3
  <2>5. derivations' = << FirstRun >>' /\ EnvelopeOk(data') /\ envelope' = EnvelopeOf(data')
    BY <1>1 DEF FirstRun
  <2>6. Known'
    BY <1>1, <2>2, <2>4, <2>5 DEF Known, Parsed
  <2> QED
    BY <2>2, <2>6, Onward
<1>3. CASE ~\E s \in Source : Opens(s)
  <2>1. result' = "InvalidPassword" /\ at' = "returned"
    BY <1>3 DEF Authenticate, Returns
  <2>2. ~\E s \in Source : IsWhole(s) /\ HasPassword(s)
    BY <1>1, <1>3, OpensWhole
  <2>3. WellFormedEnvelope
    BY <1>1, WellFormedShape
  <2>4. ErrorsNameTheCause'
    BY <1>1, <2>1, <2>2, <2>3, SameInput DEF ErrorsNameTheCause
  <2> QED
    BY <1>1, <2>1, <2>4, Refused DEF Parsed
<1> QED
  BY <1>2, <1>3

\* From here on there is a source that the file is, and whose index was read.
LEMMA Authenticated ==
    ASSUME Known, at \in {"decode", "keys", "rekey"}
    PROVE  \E s \in Source : /\ IsWhole(s) /\ HasPassword(s)
                             /\ index = s.index /\ envelope.header = s.header
<1>1. PICK s \in Source : Opens(s) /\ index = s.index
  BY DEF Known
<1>2. IsWhole(s) /\ HasPassword(s)
  BY <1>1, OpensWhole DEF Known, Parsed
<1> QED
  BY <1>1, <1>2 DEF Opens

\* The refusals of an index that has authenticated.
LEMMA NotConsistent ==
    ASSUME Known, at \in {"decode", "keys", "rekey"},
           UNCHANGED <<data, password, derivations>>, at' = "returned",
           result' = "CorruptedData",
           ~(/\ index.format = envelope.header.version
             /\ index.wellFormed /\ index.counterAhead)
    PROVE  IInv'
<1>1. PICK s \in Source : /\ IsWhole(s) /\ HasPassword(s)
                          /\ index = s.index /\ envelope.header = s.header
  BY Authenticated
<1>2. ~Consistent(s)
  BY <1>1 DEF Consistent
<1>3. IsWhole(s)' /\ HasPassword(s)' /\ ~Consistent(s)'
  BY <1>1, <1>2, SameInput DEF Consistent
<1>4. ErrorsNameTheCause'
  BY <1>3 DEF ErrorsNameTheCause
<1> QED
  BY <1>4, Refused DEF Known, Parsed

LEMMA DecodeStep ==
    ASSUME Known, Decode
    PROVE  IInv'
<1>1. /\ at = "decode" /\ result = NULL
      /\ UNCHANGED <<data, password, envelope, index, derivations>>
  BY DEF Known, Decode, Continues, Returns
<1>2. CASE index.format = envelope.header.version /\ index.wellFormed
  <2>1. at' = "keys" /\ result' = result
    BY <1>2 DEF Decode, Continues
  <2>2. (\E s \in Source : Opens(s) /\ index = s.index)'
    BY <1>1 DEF Known, Opens
  <2>3. derivations' = << FirstRun >>' /\ EnvelopeOk(data') /\ envelope' = EnvelopeOf(data')
    BY <1>1 DEF Known, Parsed, FirstRun
  <2>4. Known'
    BY <1>1, <1>2, <2>1, <2>2, <2>3 DEF Known, Parsed
  <2> QED
    BY <2>1, <2>4, Onward
<1>3. CASE ~(index.format = envelope.header.version /\ index.wellFormed)
  <2>1. result' = "CorruptedData" /\ at' = "returned"
    BY <1>3 DEF Decode, Returns
  <2> QED
    BY <1>1, <1>3, <2>1, NotConsistent
<1> QED
  BY <1>2, <1>3

\* A vault is handed out for a source that the file is.
LEMMA Accepted ==
    ASSUME Known, at \in {"keys", "rekey"}, index.counterAhead,
           UNCHANGED <<data, password>>, at' = "returned", result' = "Ok",
           BoundedCost'
    PROVE  IInv'
<1>1. Known'
  BY DEF Known, Parsed
<1>2. PICK s \in Source : /\ IsWhole(s) /\ HasPassword(s)
                          /\ index = s.index /\ envelope.header = s.header
  BY Authenticated
<1>3. Consistent(s)
  BY <1>2 DEF Known, Consistent
<1>4. IsWhole(s)' /\ HasPassword(s)' /\ Consistent(s)'
  BY <1>2, <1>3, SameInput DEF Consistent
<1>5. OnlyWholeFilesOpen'
  BY <1>4 DEF OnlyWholeFilesOpen
<1>6. ErrorsNameTheCause'
  BY DEF ErrorsNameTheCause
<1> QED
  BY <1>1, <1>5, <1>6 DEF IInv

LEMMA FromSubkeysAndDataStep ==
    ASSUME Known, FromSubkeysAndData
    PROVE  IInv'
<1>1. /\ at = "keys" /\ result = NULL /\ data \in File
      /\ UNCHANGED <<data, password, envelope, index, derivations>>
      /\ EnvelopeOk(data) /\ envelope = EnvelopeOf(data) /\ derivations = << FirstRun >>
  BY DEF Known, FromSubkeysAndData, Continues, Returns, Parsed
<1>2. CASE ~index.counterAhead
  <2>1. result' = "CorruptedData" /\ at' = "returned"
    BY <1>2 DEF FromSubkeysAndData, Returns
  <2> QED
    BY <1>1, <1>2, <2>1, NotConsistent
<1>3. CASE index.counterAhead /\ envelope.header.version = LEGACY_VAULT_VERSION_1
  <2>1. at' = "rekey" /\ result' = result
    BY <1>3 DEF FromSubkeysAndData, Continues
  <2>2. (\E s \in Source : Opens(s) /\ index = s.index)'
    BY <1>1 DEF Known, Opens
  <2>3. derivations' = << FirstRun >>' /\ EnvelopeOk(data') /\ envelope' = EnvelopeOf(data')
    BY <1>1 DEF FirstRun
  <2>4. (index.format = envelope.header.version /\ index.wellFormed)'
    BY <1>1 DEF Known
  <2>5. Known'
    BY <1>1, <1>3, <2>1, <2>2, <2>3, <2>4 DEF Known, Parsed
  <2> QED
    BY <2>1, <2>5, Onward
<1>4. CASE index.counterAhead /\ envelope.header.version # LEGACY_VAULT_VERSION_1
  <2>1. result' = "Ok" /\ at' = "returned"
    BY <1>4 DEF FromSubkeysAndData, Returns
  <2>2. BoundedCost
    BY <1>1, BoundedSoFar
  <2>3. /\ Len(derivations) = 1 /\ DOMAIN derivations = {1}
        /\ Last(derivations) = FirstRun /\ derivations # <<>>
    BY <1>1 DEF Last
  <2>4. FirstRun.version = VAULT_VERSION
    BY <1>1, <1>4, OneRun DEF FirstRun
  <2>5. BoundedCost'
    BY <1>1, <2>2, <2>3, <2>4, SameInput DEF BoundedCost
  <2> QED
    BY <1>1, <1>4, <2>1, <2>5, Accepted
<1> QED
  BY <1>2, <1>3, <1>4

LEMMA RekeyStep ==
    ASSUME Known, Rekey
    PROVE  IInv'
<1> DEFINE r == [version |-> VAULT_VERSION, memory |-> MEMORY_COST, passes |-> ITERATIONS]
<1>1. /\ at = "rekey" /\ result = NULL /\ data \in File
      /\ UNCHANGED <<data, password, envelope, index>>
      /\ EnvelopeOk(data) /\ envelope = EnvelopeOf(data) /\ derivations = << FirstRun >>
      /\ derivations' = Append(derivations, r)
      /\ result' = "Ok" /\ at' = "returned"
      /\ index.counterAhead /\ envelope.header.version = LEGACY_VAULT_VERSION_1
  BY DEF Known, Rekey, Argon2, Returns, Parsed
<1>2. /\ r.memory \in MIN_KDF_MEMORY..MAX_KDF_MEMORY
      /\ r.passes \in MIN_KDF_ITERATIONS..MAX_KDF_ITERATIONS
      /\ r.version = VAULT_VERSION
  BY KdfPolicyAssumption
<1> HIDE DEF r
<1>3. /\ Len(derivations') = 2 /\ DOMAIN derivations' = 1..2
      /\ derivations'[1] = FirstRun /\ derivations'[2] = r
  <2>1. \A a, b : /\ Len(Append(<< a >>, b)) = 2 /\ DOMAIN Append(<< a >>, b) = 1..2
                 /\ Append(<< a >>, b)[1] = a /\ Append(<< a >>, b)[2] = b
    OBVIOUS
  <2>2. derivations' = Append(<< FirstRun >>, r)
    BY <1>1
  <2> QED
    BY <2>1, <2>2
<1>4. derivations' # <<>> /\ DOMAIN derivations' = {1, 2} /\ Last(derivations') = r
  <2>1. 1..2 = {1, 2} /\ Len(<<>>) = 0
    OBVIOUS
  <2> QED
    BY <1>3, <2>1 DEF Last
<1>5. /\ FirstRun.memory \in MIN_KDF_MEMORY..MAX_KDF_MEMORY
      /\ FirstRun.passes \in MIN_KDF_ITERATIONS..MAX_KDF_ITERATIONS
      /\ WellFormedEnvelope
  BY <1>1, OneRun
<1>6. PICK s \in Source : /\ IsWhole(s) /\ HasPassword(s)
                          /\ index = s.index /\ envelope.header = s.header
  BY <1>1, Authenticated
<1>7. Consistent(s) /\ s.header.version = LEGACY_VAULT_VERSION_1
  BY <1>1, <1>6 DEF Known, Consistent
<1>8. IsWhole(s)' /\ HasPassword(s)' /\ Consistent(s)' /\ WellFormedEnvelope'
  BY <1>1, <1>5, <1>6, <1>7, SameInput DEF Consistent
<1>9. BoundedCost'
  BY <1>2, <1>3, <1>4, <1>5, <1>7, <1>8 DEF BoundedCost
<1> QED
  BY <1>1, <1>9, Accepted

LEMMA MachineFailsStep ==
    ASSUME Known, MachineFails
    PROVE  IInv'
<1>1. /\ at \in Parsed /\ data \in File /\ UNCHANGED <<data, password, derivations>>
      /\ result' = "CryptoError" /\ at' = "returned"
  BY DEF Known, MachineFails, Returns, Parsed
<1>2. ErrorsNameTheCause'
  BY <1>1 DEF ErrorsNameTheCause
<1> QED
  BY <1>1, <1>2, Refused

LEMMA NextHolds == IInv /\ [Next]_vars => IInv'
<1> SUFFICES ASSUME IInv, [Next]_vars PROVE IInv'
  OBVIOUS
<1>1. CASE UNCHANGED vars
  BY <1>1 DEF vars, IInv, Known, OnlyWholeFilesOpen, ErrorsNameTheCause, BoundedCost,
              WellFormedEnvelope, IsWhole, HasPassword, Consistent, Opens, FirstRun
<1>2. CASE Parse
  BY <1>2, ParseStep DEF IInv
<1>3. CASE DeriveKeys
  BY <1>3, DeriveKeysStep DEF IInv
<1>4. CASE Authenticate
  BY <1>4, AuthenticateStep DEF IInv
<1>5. CASE Decode
  BY <1>5, DecodeStep DEF IInv
<1>6. CASE FromSubkeysAndData
  BY <1>6, FromSubkeysAndDataStep DEF IInv
<1>7. CASE Rekey
  BY <1>7, RekeyStep DEF IInv
<1>8. CASE MachineFails
  BY <1>8, MachineFailsStep DEF IInv
<1>9. CASE Returned
  BY <1>1, <1>9 DEF Returned
<1> QED
  BY <1>1, <1>2, <1>3, <1>4, <1>5, <1>6, <1>7, <1>8, <1>9 DEF Next

\* Every state of open has IInv.
THEOREM IInvHolds == Spec => []IInv
  BY InitHolds, NextHolds, PTL DEF Spec

\* Only a whole and consistent file opens, and only with its password: the
\* offsets at which parse_envelope cuts a file, the canonical header it
\* compares and what the AEAD authenticates leave no byte of it unchecked.
THEOREM OnlyWholeOpens == Spec => []OnlyWholeFilesOpen
  BY IInvHolds, PTL DEF IInv

\* An error names what is wrong with the file: damage to the envelope and a
\* broken index are CorruptedData, everything else that a file or a password
\* can have is InvalidPassword.
THEOREM ErrorsAreTrue == Spec => []ErrorsNameTheCause
  BY IInvHolds, PTL DEF IInv

\* A file costs no run of Argon2 before its envelope is known to be well
\* formed, one within the policy until it has authenticated, and a second only
\* for a version 1 file that is migrated.
THEOREM CostIsBounded == Spec => []BoundedCost
  BY IInvHolds, PTL DEF IInv
=============================================================================
