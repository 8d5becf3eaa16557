-------------------------- MODULE VaultPromiseProofs --------------------------
(***************************************************************************)
(* Vault implements SecretStore, for every value of the constants.         *)
(*                                                                         *)
(* Secrets decrypts a vault.  Each action of Vault is shown to be a step   *)
(* of SecretStore on what Secrets yields, or to leave it alone.  Three     *)
(* things have to be known for that:                                       *)
(*   - a map filed under HMAC keys and the map of its names have as many   *)
(*     entries and cost the same in a file.  Both costs are sums, defined  *)
(*     by folds over two different sets; they are compared by the least    *)
(*     number of entries for which they would differ (SumsAgree);          *)
(*   - a pending re-key is for the call that began it, and has copied all  *)
(*     but what is still to do (RekeysKnown);                              *)
(*   - an export is only refused for its password (ExportsReopen), and a   *)
(*     re-key only for the machine (RekeysNeverRefused).                   *)
(***************************************************************************)
EXTENDS VaultProofs, WellFoundedInduction

-----------------------------------------------------------------------------
(***************************************************************************)
(* Sums.                                                                   *)
(***************************************************************************)
LEMMA LeastMember ==
    ASSUME NEW S \in SUBSET Nat, S # {}
    PROVE  \E k \in S : \A m \in S : k <= m
<1> DEFINE R == {ss \in Nat \X Nat : ss[1] < ss[2]}
<1>1. IsWellFoundedOn(R, Nat)
  BY NatLessThanWellFounded DEF OpToRel
<1>2. \A x, y \in Nat : y < x => <<y, x>> \in R
  OBVIOUS
<1> HIDE DEF R
<1>3. PICK k \in S : \A m \in S : ~(<<m, k>> \in R)
  BY <1>1, WFMin
<1>4. \A m \in S : ~(m < k)
  BY <1>2, <1>3
<1>5. \A m \in S : k <= m
  BY <1>4
<1> QED
  BY <1>5

Pick(T) == CHOOSE x \in T : TRUE
\* g sums f over the subsets of S with at most m members
Layer(S, m) == {T \in SUBSET S : Cardinality(T) <= m}
Sums(f, D, g) == g = [T \in D |-> IF T = {} THEN 0 ELSE f[Pick(T)] + g[T \ {Pick(T)}]]

\* A subset without one of its members is smaller by one.
LEMMA Smaller ==
    ASSUME NEW S, IsFiniteSet(S), NEW T \in SUBSET S, NEW x \in T
    PROVE  /\ IsFiniteSet(T) /\ Cardinality(T) \in Nat /\ T \ {x} \in SUBSET S
           /\ Cardinality(T) >= 1 /\ Cardinality(T \ {x}) = Cardinality(T) - 1
<1>1. IsFiniteSet(T)
  BY FS_Subset
<1>2. Cardinality(T) \in Nat /\ Cardinality(T \ {x}) = Cardinality(T) - 1 /\ Cardinality(T \ {x}) \in Nat
  BY <1>1, FS_CardinalityType, FS_RemoveElement
<1> QED
  BY <1>1, <1>2

\* There is a sum over the subsets of every size, or there would be a least
\* size without one.
LEMMA LayersSum ==
    ASSUME NEW S, IsFiniteSet(S), NEW f, NEW n \in Nat
    PROVE  \E g : Sums(f, Layer(S, n), g)
<1> DEFINE Broken == {m \in 0..n : ~\E g : Sums(f, Layer(S, m), g)}
<1>1. Broken = {}
  <2> SUFFICES ASSUME Broken # {} PROVE FALSE
    OBVIOUS
  <2>1. PICK m \in Broken : \A j \in Broken : m <= j
    <3>1. Broken \subseteq Nat
      OBVIOUS
    <3> HIDE DEF Broken
    <3> QED
      BY <3>1, LeastMember
  <2>2. m \in 0..n /\ ~\E g : Sums(f, Layer(S, m), g)
    OBVIOUS
  <2>3. CASE m = 0
    <3>1. \A T \in Layer(S, 0) : T = {}
      <4> SUFFICES ASSUME NEW T \in Layer(S, 0), NEW x \in T PROVE FALSE
        OBVIOUS
      <4>1. T \in SUBSET S /\ Cardinality(T) <= 0
        BY DEF Layer
      <4>2. Cardinality(T) \in Nat /\ Cardinality(T) >= 1
        BY <4>1, Smaller
      <4> HIDE DEF Broken
      <4> QED
        BY <4>1, <4>2
    <3> DEFINE g == [T \in Layer(S, 0) |-> 0]
    <3>2. Sums(f, Layer(S, 0), g)
      BY <3>1 DEF Sums
    <3> QED
      BY <2>2, <2>3, <3>2
  <2>4. CASE m # 0
    <3>1. m - 1 \in 0..n /\ ~(m <= m - 1)
      BY <2>2, <2>4
    <3>2. PICK g : Sums(f, Layer(S, m - 1), g)
      BY <2>1, <3>1
    <3> DEFINE h == [T \in Layer(S, m) |->
                       IF T = {} THEN 0 ELSE f[Pick(T)] + g[T \ {Pick(T)}]]
    <3>3. ASSUME NEW T \in Layer(S, m), T # {}
          PROVE  T \ {Pick(T)} \in Layer(S, m - 1) /\ T \ {Pick(T)} \in Layer(S, m)
      <4>1. Pick(T) \in T
        BY <3>3 DEF Pick
      <4>2. T \in SUBSET S /\ Cardinality(T) <= m
        BY DEF Layer
      <4>3. /\ Cardinality(T) \in Nat /\ T \ {Pick(T)} \in SUBSET S
            /\ Cardinality(T \ {Pick(T)}) = Cardinality(T) - 1
        BY <4>1, <4>2, Smaller
      <4> QED
        BY <2>2, <4>2, <4>3 DEF Layer
    <3>4. \A T \in Layer(S, m - 1) : T \in Layer(S, m) /\ g[T] = h[T]
      <4>1. ASSUME NEW T \in Layer(S, m - 1) PROVE T \in Layer(S, m)
        <5>1. IsFiniteSet(T)
          BY FS_Subset DEF Layer
        <5>2. Cardinality(T) \in Nat
          BY <5>1, FS_CardinalityType
        <5> QED
          BY <2>2, <5>2 DEF Layer
      <4> QED
        BY <3>2, <4>1 DEF Sums
    <3>5. h = [T \in Layer(S, m) |->
                  IF T = {} THEN 0 ELSE f[Pick(T)] + h[T \ {Pick(T)}]]
      <4> HIDE DEF h
      <4>1. \A T \in Layer(S, m) : T # {} => g[T \ {Pick(T)}] = h[T \ {Pick(T)}]
        BY <3>3, <3>4
      <4> QED
        BY <4>1 DEF h
    <3>6. Sums(f, Layer(S, m), h)
      BY <3>5 DEF Sums
    <3> QED
      BY <2>2, <3>6
  <2> QED
    BY <2>3, <2>4
<1>2. n \in 0..n
  OBVIOUS
<1> QED
  BY <1>1, <1>2

\* What the sum of the community modules computes, by its recursion.
Total(f, S) == CHOOSE g : Sums(f, SUBSET S, g)

\* What the total over a set is, one member at a time.
LEMMA TotalFacts ==
    ASSUME NEW S, IsFiniteSet(S), NEW f, \A x \in S : f[x] \in Nat
    PROVE  /\ Total(f, S)[{}] = 0
           /\ \A T \in SUBSET S : T # {} => Total(f, S)[T] = f[Pick(T)] + Total(f, S)[T \ {Pick(T)}]
<1>1. \A T \in SUBSET S : IsFiniteSet(T) /\ Cardinality(T) \in Nat /\ Cardinality(T) <= Cardinality(S)
  BY FS_Subset, FS_CardinalityType
<1>2. Layer(S, Cardinality(S)) = SUBSET S /\ Cardinality(S) \in Nat
  BY <1>1, FS_CardinalityType DEF Layer
<1>3. \E g : Sums(f, SUBSET S, g)
  BY <1>2, LayersSum
<1>4. Sums(f, SUBSET S, Total(f, S))
  BY <1>3 DEF Total
<1> QED
  BY <1>4 DEF Sums

\* SumFunction of the community modules, as a total.
LEMMA SumIsTotal ==
    ASSUME NEW f
    PROVE  SumFunction(f) = Total(f, DOMAIN f)[DOMAIN f]
  BY DEF SumFunction, SumFunctionOnSet, FoldFunctionOnSet, MapThenFoldSet, Total, Sums, Pick

\* Among subsets of a finite set there is a smallest.
LEMMA SmallestSubset ==
    ASSUME NEW S, IsFiniteSet(S), NEW Bad \in SUBSET (SUBSET S), Bad # {}
    PROVE  \E T \in Bad : \A U \in Bad : Cardinality(T) <= Cardinality(U)
<1> DEFINE C == {Cardinality(T) : T \in Bad}
<1>1. C \in SUBSET Nat
  BY FS_Subset, FS_CardinalityType
<1>2. C # {}
  OBVIOUS
<1> HIDE DEF C
<1>3. PICK k \in C : \A m \in C : k <= m
  BY <1>1, <1>2, LeastMember
<1> QED
  BY <1>3 DEF C

\* A sum does not depend on the order of its terms.
LEMMA TakeAnyOut ==
    ASSUME NEW S, IsFiniteSet(S), NEW f, \A x \in S : f[x] \in Nat
    PROVE  \A T \in SUBSET S :
               /\ Total(f, S)[T] \in Nat
               /\ \A x \in T : Total(f, S)[T] = f[x] + Total(f, S)[T \ {x}]
<1> DEFINE g == Total(f, S)
           Good(T) == /\ g[T] \in Nat
                      /\ \A x \in T : g[T] = f[x] + g[T \ {x}]
           Bad == {T \in SUBSET S : ~Good(T)}
<1>1. /\ g[{}] = 0
      /\ \A T \in SUBSET S : T # {} => g[T] = f[Pick(T)] + g[T \ {Pick(T)}]
  BY TotalFacts
<1> HIDE DEF g
<1>2. SUFFICES ASSUME Bad # {} PROVE FALSE
  BY DEF g
<1>3. PICK T \in Bad : \A U \in Bad : Cardinality(T) <= Cardinality(U)
  <2>1. Bad \in SUBSET (SUBSET S)
    OBVIOUS
  <2> HIDE DEF Bad
  <2> QED
    BY <1>2, <2>1, SmallestSubset
<1>4. T \in SUBSET S /\ ~Good(T)
  OBVIOUS
<1>5. ASSUME NEW x \in T PROVE T \ {x} \in SUBSET S /\ Good(T \ {x})
  <2>1. /\ Cardinality(T) \in Nat /\ T \ {x} \in SUBSET S
        /\ Cardinality(T \ {x}) = Cardinality(T) - 1
    BY <1>4, Smaller
  <2>2. ~(Cardinality(T) <= Cardinality(T \ {x}))
    BY <2>1
  <2>3. T \ {x} \notin Bad
    BY <1>3, <2>2
  <2> QED
    BY <2>1, <2>3
<1>6. T # {}
  <2>1. Good({})
    BY <1>1
  <2> HIDE DEF Bad, Good
  <2> QED
    BY <1>4, <2>1
<1> DEFINE y == Pick(T)
<1>7. y \in T /\ g[T] = f[y] + g[T \ {y}]
  BY <1>1, <1>4, <1>6 DEF Pick
<1> HIDE DEF y
<1>8. \A x \in T : f[x] \in Nat
  BY <1>4
<1>9. g[T] \in Nat
  BY <1>5, <1>7, <1>8
<1>10. ASSUME NEW x \in T PROVE g[T] = f[x] + g[T \ {x}]
  <2>1. CASE x = y
    BY <1>7, <2>1
  <2>2. CASE x # y
    <3> DEFINE R == (T \ {x}) \ {y}
    <3>1. (T \ {y}) \ {x} = R
      OBVIOUS
    <3>2. y \in T \ {x} /\ x \in T \ {y}
      BY <1>7, <2>2
    <3>3. g[T \ {x}] = f[y] + g[R] /\ g[T \ {x}] \in Nat
      BY <1>5, <3>2
    <3>4. g[T \ {y}] = f[x] + g[R] /\ g[T \ {y}] \in Nat
      BY <1>5, <1>7, <3>1, <3>2
    <3>5. g[R] \in Nat
      <4>1. T \ {x} \in SUBSET S /\ y \in T \ {x}
        BY <1>5, <3>2
      <4>2. /\ R \in SUBSET S /\ Cardinality(T \ {x}) \in Nat
            /\ Cardinality(R) = Cardinality(T \ {x}) - 1
        BY <4>1, Smaller
      <4>3. Cardinality(T) \in Nat /\ Cardinality(T \ {x}) = Cardinality(T) - 1
        BY <1>4, Smaller
      <4>4. ~(Cardinality(T) <= Cardinality(R))
        BY <4>2, <4>3
      <4>5. R \notin Bad
        BY <1>3, <4>4
      <4> QED
        BY <4>2, <4>5
    <3> QED
      BY <1>7, <1>8, <3>3, <3>4, <3>5
  <2> QED
    BY <2>1, <2>2
<1> QED
  BY <1>4, <1>9, <1>10

\* Renaming the members of a set keeps its size.
LEMMA RenamedSet ==
    ASSUME NEW S, IsFiniteSet(S), NEW h, \A x, y \in S : h[x] = h[y] => x = y
    PROVE  /\ IsFiniteSet({h[x] : x \in S})
           /\ Cardinality({h[x] : x \in S}) = Cardinality(S)
<1> DEFINE T == {h[x] : x \in S}
           f == [x \in S |-> h[x]]
<1>1. f \in [S -> T] /\ \A y \in T : \E x \in S : f[x] = y
  OBVIOUS
<1>2. \A x, y \in S : f[x] = f[y] => x = y
  OBVIOUS
<1> HIDE DEF f, T
<1>3. f \in Surjection(S, T) /\ f \in Injection(S, T)
  BY <1>1, <1>2 DEF Surjection, Injection, IsInjective
<1>4. IsFiniteSet(T) /\ Cardinality(T) = Cardinality(S)
  BY <1>3, FS_Surjection
<1> QED
  BY <1>4 DEF T

\* Neither does a sum depend on what its terms are filed under.
LEMMA SumsAgree ==
    ASSUME NEW f, NEW g, NEW h, IsFiniteSet(DOMAIN f),
           \A x, y \in DOMAIN f : h[x] = h[y] => x = y,
           DOMAIN g = {h[x] : x \in DOMAIN f},
           \A x \in DOMAIN f : f[x] \in Nat /\ g[h[x]] = f[x]
    PROVE  SumFunction(f) = SumFunction(g)
<1> DEFINE S == DOMAIN f
           Img(T) == {h[x] : x \in T}
           F == Total(f, S)
           G == Total(g, Img(S))
           Bad == {T \in SUBSET S : F[T] # G[Img(T)]}
<1>1. IsFiniteSet(Img(S))
  BY RenamedSet
<1>2. \A y \in Img(S) : g[y] \in Nat
  OBVIOUS
<1>3. F[{}] = 0 /\ \A T \in SUBSET S : \A x \in T : F[T] = f[x] + F[T \ {x}]
  BY TotalFacts, TakeAnyOut
<1>4. G[{}] = 0 /\ \A T \in SUBSET Img(S) : \A y \in T : G[T] = g[y] + G[T \ {y}]
  <2> HIDE DEF S, Img
  <2> QED
    BY <1>1, <1>2, TotalFacts, TakeAnyOut
<1> HIDE DEF F, G
<1>5. Bad = {}
  <2> SUFFICES ASSUME Bad # {} PROVE FALSE
    OBVIOUS
  <2>1. PICK T \in Bad : \A U \in Bad : Cardinality(T) <= Cardinality(U)
    <3>1. Bad \in SUBSET (SUBSET S)
      OBVIOUS
    <3> HIDE DEF Bad
    <3> QED
      BY <3>1, SmallestSubset
  <2>2. T \in SUBSET S /\ F[T] # G[Img(T)]
    OBVIOUS
  <2>3. T # {}
    <3>1. Img({}) = {}
      OBVIOUS
    <3> HIDE DEF Bad, Img
    <3> QED
      BY <1>3, <1>4, <2>2, <3>1
  <2>4. PICK x \in T : TRUE
    BY <2>3
  <2>5. T \ {x} \in SUBSET S /\ F[T \ {x}] = G[Img(T \ {x})]
    <3>1. /\ Cardinality(T) \in Nat /\ T \ {x} \in SUBSET S
          /\ Cardinality(T \ {x}) = Cardinality(T) - 1
      BY <2>2, Smaller
    <3>2. ~(Cardinality(T) <= Cardinality(T \ {x}))
      BY <3>1
    <3>3. T \ {x} \notin Bad
      BY <2>1, <3>2
    <3> QED
      BY <3>1, <3>3
  <2>6. /\ Img(T) \in SUBSET Img(S) /\ h[x] \in Img(T)
        /\ Img(T) \ {h[x]} = Img(T \ {x})
    BY <2>2
  <2>7. g[h[x]] = f[x]
    BY <2>2
  <2> HIDE DEF Img, Bad
  <2>8. F[T] = f[x] + F[T \ {x}]
    BY <1>3, <2>2
  <2>9. G[Img(T)] = g[h[x]] + G[Img(T) \ {h[x]}]
    BY <1>4, <2>6
  <2> QED
    BY <2>2, <2>5, <2>6, <2>7, <2>8, <2>9
<1>6. F[S] = G[Img(S)]
  BY <1>5
<1> QED
  BY <1>6, SumIsTotal DEF F, G
-----------------------------------------------------------------------------
(***************************************************************************)
(* What a map says when it is decrypted, and what the operations make of   *)
(* it.                                                                     *)
(***************************************************************************)
Names(key, files) == {m \in Name : HmacKeyForName(key, m) \in DOMAIN files}

\* A map that opens under its key, of finitely many entries.
Readable(key, files) == IsFiles(files) /\ WellSealed(key, files) /\ IsFiniteSet(DOMAIN files)

\* Names differ in their HMAC keys (no collisions).
LEMMA HmacKeysDiffer ==
    ASSUME NEW key, NEW m, NEW n, HmacKeyForName(key, m) = HmacKeyForName(key, n)
    PROVE  m = n
  BY DEF HmacKeyForName

\* The contents of a map that opens: a value for each name filed in it.
LEMMA ContentsFacts ==
    ASSUME NEW key, NEW files, WellSealed(key, files)
    PROVE  /\ DOMAIN Contents(key, files) = Names(key, files)
           /\ \A n \in Names(key, files) :
                Contents(key, files)[n] = files[HmacKeyForName(key, n)].encrypted_data.text
           /\ Contents(key, files) = [n \in Names(key, files) |-> Contents(key, files)[n]]
  BY DEF Contents, Names, WellSealed

\* Entries are filed under the keys of the names they hold, so there are as
\* many names as entries.
LEMMA EntryNames ==
    ASSUME NEW key, NEW files, Readable(key, files)
    PROVE  /\ \A t \in DOMAIN files :
                /\ files[t].encrypted_name.text \in Names(key, files)
                /\ files[t].encrypted_data.text \in Value
                /\ t = HmacKeyForName(key, files[t].encrypted_name.text)
           /\ \A n \in Names(key, files) :
                files[HmacKeyForName(key, n)].encrypted_name.text = n
<1>1. ASSUME NEW t \in DOMAIN files
      PROVE  /\ files[t].encrypted_name.text \in Name
             /\ files[t].encrypted_data.text \in Value
             /\ t = HmacKeyForName(key, files[t].encrypted_name.text)
  BY DEF Readable, IsFiles, IndexEntry, WellSealed
<1>2. ASSUME NEW n \in Names(key, files)
      PROVE  files[HmacKeyForName(key, n)].encrypted_name.text = n
  <2>1. HmacKeyForName(key, n) \in DOMAIN files
    BY DEF Names
  <2> QED
    BY <1>1, <2>1, HmacKeysDiffer
<1> QED
  BY <1>1, <1>2 DEF Names

\* The HMAC keys of a map are its names, renamed one to one.
LEMMA NamesRenamed ==
    ASSUME NEW key, NEW files, Readable(key, files)
    PROVE  LET h == [t \in DOMAIN files |-> files[t].encrypted_name.text] IN
           /\ Names(key, files) = {h[t] : t \in DOMAIN files}
           /\ \A t, u \in DOMAIN files : h[t] = h[u] => t = u
<1> DEFINE h == [t \in DOMAIN files |-> files[t].encrypted_name.text]
<1>1. \A t \in DOMAIN files : h[t] \in Names(key, files) /\ t = HmacKeyForName(key, h[t])
  BY EntryNames
<1>2. ASSUME NEW n \in Names(key, files) PROVE \E t \in DOMAIN files : h[t] = n
  <2>1. HmacKeyForName(key, n) \in DOMAIN files
    BY DEF Names
  <2> QED
    BY <2>1, EntryNames
<1> HIDE DEF h
<1>3. Names(key, files) = {h[t] : t \in DOMAIN files}
  BY <1>1, <1>2
<1>4. \A t, u \in DOMAIN files : h[t] = h[u] => t = u
  BY <1>1
<1> QED
  BY <1>3, <1>4 DEF h

\* The entry cap means the same for the map and for its contents.
LEMMA AsManyNames ==
    ASSUME NEW key, NEW files, Readable(key, files)
    PROVE  Promise!Cardinality(DOMAIN Contents(key, files)) = Cardinality(DOMAIN files)
<1>1. \A S : Promise!Cardinality(S) = Cardinality(S)
  BY DEF Promise!Cardinality, Cardinality
<1>2. DOMAIN Contents(key, files) = Names(key, files)
  BY ContentsFacts DEF Readable
<1>3. IsFiniteSet(DOMAIN files)
  BY DEF Readable
<1> DEFINE h == [t \in DOMAIN files |-> files[t].encrypted_name.text]
<1>4. /\ Names(key, files) = {h[t] : t \in DOMAIN files}
      /\ \A t, u \in DOMAIN files : h[t] = h[u] => t = u
  BY NamesRenamed
<1> HIDE DEF h
<1>5. Cardinality(Names(key, files)) = Cardinality(DOMAIN files)
  BY <1>3, <1>4, RenamedSet
<1> QED
  BY <1>1, <1>2, <1>5

\* What export measures is what the abstract vault is measured by.
LEMMA SameFileLen ==
    ASSUME NEW key, NEW files, Readable(key, files)
    PROVE  ExportLen(files) = Promise!FileLen(Contents(key, files))
<1> DEFINE h == [t \in DOMAIN files |-> files[t].encrypted_name.text]
           f == [t \in DOMAIN files |-> ENTRY_FIXED_LEN
                    + EncryptedNameLen(files[t]) + EncryptedDataLen(files[t])]
           c == Contents(key, files)
           g == [n \in DOMAIN c |-> 128 + NameLen[n] + DataLen[c[n]]]
<1>1. /\ DOMAIN g = {h[t] : t \in DOMAIN files}
      /\ \A t, u \in DOMAIN files : h[t] = h[u] => t = u
  <2>1. DOMAIN g = Names(key, files)
    BY ContentsFacts DEF Readable
  <2>2. /\ Names(key, files) = {h[t] : t \in DOMAIN files}
        /\ \A t, u \in DOMAIN files : h[t] = h[u] => t = u
    BY NamesRenamed
  <2> HIDE DEF g, h
  <2> QED
    BY <2>1, <2>2
<1>2. ASSUME NEW t \in DOMAIN files PROVE f[t] \in Nat /\ g[h[t]] = f[t]
  <2> DEFINE n == files[t].encrypted_name.text
             x == files[t].encrypted_data.text
  <2>1. n \in Names(key, files) /\ x \in Value /\ t = HmacKeyForName(key, n)
    BY EntryNames
  <2>2. n \in DOMAIN c /\ c[n] = x
    BY <2>1, ContentsFacts DEF Readable
  <2>3. n \in Name /\ NameLen[n] \in Nat /\ DataLen[x] \in Nat
    BY <2>1, LengthsAssumption DEF Names
  <2>4. f[t] = 48 + (24 + NameLen[n] + 16) + (24 + DataLen[x] + 16)
    BY DEF ENTRY_FIXED_LEN, EncryptedNameLen, EncryptedDataLen,
           XCHACHA20_NONCE_LEN, POLY1305_OUTSIZE
  <2>5. g[h[t]] = 128 + NameLen[n] + DataLen[x]
    BY <2>2
  <2> HIDE DEF n, x, f, g, h
  <2> QED
    BY <2>3, <2>4, <2>5
<1>3. SumFunction(f) = SumFunction(g)
  <2>1. DOMAIN f = DOMAIN files /\ IsFiniteSet(DOMAIN files)
    BY DEF Readable
  <2> HIDE DEF f, g, h
  <2> QED
    BY <1>1, <1>2, <2>1, SumsAgree
<1>4. ExportLen(files) = 4 + HeaderJsonLen + 24 + (2 + 8 + 8 + 4) + SumFunction(f) + 16
  BY DEF ExportLen, XCHACHA20_NONCE_LEN, POLY1305_OUTSIZE, INDEX_PREAMBLE_LEN
<1>5. \A k : Promise!SumFunction(k) = SumFunction(k)
  BY DEF Promise!SumFunction, Promise!SumFunctionOnSet, Promise!FoldFunctionOnSet,
         Promise!MapThenFoldSet, SumFunction, SumFunctionOnSet, FoldFunctionOnSet,
         MapThenFoldSet
<1>6. Promise!FileLen(c) = 66 + HeaderJsonLen + SumFunction(g)
  BY <1>5 DEF Promise!FileLen
<1>7. SumFunction(f) \in Nat
  <2>1. DOMAIN f = DOMAIN files /\ IsFiniteSet(DOMAIN files)
    BY DEF Readable
  <2> HIDE DEF f, g, h
  <2> QED
    BY <1>2, <2>1, SumIsTotal, TakeAnyOut
<1> HIDE DEF f, g, c
<1> QED
  BY <1>3, <1>4, <1>6, <1>7, LengthsAssumption DEF c

\* A new vault holds nothing.
LEMMA ContentsOfNothing ==
    ASSUME NEW key
    PROVE  Contents(key, NoFiles) = Promise!Empty
<1>1. {m \in Name : HmacKeyForName(key, m) \in DOMAIN NoFiles} = {}
  BY DEF NoFiles
<1> QED
  BY <1>1 DEF Contents, Promise!Empty

\* c and the name n, which now has the value x.
With(c, n, x) == [k \in DOMAIN c \cup {n} |-> IF k = n THEN x ELSE c[k]]

\* insert_by_key, seen from the names.
LEMMA ContentsStored ==
    ASSUME NEW key, NEW files, NEW n \in Name, NEW e, WellSealed(key, files),
           WellSealed(key, InsertByKey(files, HmacKeyForName(key, n), e))
    PROVE  Contents(key, InsertByKey(files, HmacKeyForName(key, n), e))
             = With(Contents(key, files), n, e.encrypted_data.text)
<1> DEFINE t == HmacKeyForName(key, n)
           f == InsertByKey(files, t, e)
           c == Contents(key, files)
           d == Contents(key, f)
<1>1. /\ DOMAIN f = DOMAIN files \cup {t}
      /\ \A u \in DOMAIN f : f[u] = IF u = t THEN e ELSE files[u]
  BY DEF InsertByKey
<1>2. /\ DOMAIN c = Names(key, files)
      /\ \A k \in Names(key, files) : c[k] = files[HmacKeyForName(key, k)].encrypted_data.text
  BY ContentsFacts
<1>3. /\ DOMAIN d = Names(key, f) /\ d = [k \in Names(key, f) |-> d[k]]
      /\ \A k \in Names(key, f) : d[k] = f[HmacKeyForName(key, k)].encrypted_data.text
  <2> HIDE DEF f
  <2> QED
    BY ContentsFacts DEF f
<1> HIDE DEF c, d, f
<1>4. Names(key, f) = Names(key, files) \cup {n}
  <2>1. \A k : HmacKeyForName(key, k) = t <=> k = n
    BY HmacKeysDiffer
  <2> HIDE DEF t
  <2> QED
    BY <1>1, <2>1 DEF Names
<1>5. ASSUME NEW k \in Names(key, f)
      PROVE  d[k] = IF k = n THEN e.encrypted_data.text ELSE c[k]
  <2>1. HmacKeyForName(key, k) \in DOMAIN f
    BY DEF Names
  <2>2. CASE k = n
    BY <1>1, <1>3, <2>1, <2>2
  <2>3. CASE k # n
    <3>1. HmacKeyForName(key, k) # t
      BY <2>3, HmacKeysDiffer
    <3>2. k \in Names(key, files)
      BY <1>4, <2>3
    <3> HIDE DEF t
    <3> QED
      BY <1>1, <1>2, <1>3, <2>1, <2>3, <3>1, <3>2
  <2> QED
    BY <2>2, <2>3
<1>6. d = With(c, n, e.encrypted_data.text)
  BY <1>2, <1>3, <1>4, <1>5 DEF With
<1> QED
  BY <1>6 DEF c, d, f

\* remove_by_key, seen from the names.
LEMMA ContentsRemoved ==
    ASSUME NEW key, NEW files, NEW n, WellSealed(key, files)
    PROVE  Contents(key, RemoveByKey(files, HmacKeyForName(key, n)))
             = Promise!Restrict(Contents(key, files), DOMAIN Contents(key, files) \ {n})
<1> DEFINE t == HmacKeyForName(key, n)
           f == RemoveByKey(files, t)
           c == Contents(key, files)
           d == Contents(key, f)
<1>1. /\ DOMAIN f = DOMAIN files \ {t}
      /\ \A u \in DOMAIN f : f[u] = files[u]
  BY DEF RemoveByKey, Restrict
<1>2. /\ DOMAIN c = Names(key, files)
      /\ \A k \in Names(key, files) : c[k] = files[HmacKeyForName(key, k)].encrypted_data.text
  BY ContentsFacts
<1>3. /\ DOMAIN d = Names(key, f) /\ d = [k \in Names(key, f) |-> d[k]]
      /\ \A k \in Names(key, f) : d[k] = f[HmacKeyForName(key, k)].encrypted_data.text
  <2>1. WellSealed(key, f)
    <3> HIDE DEF f
    <3> QED
      BY <1>1 DEF WellSealed
  <2> HIDE DEF f
  <2> QED
    BY <2>1, ContentsFacts
<1> HIDE DEF c, d, f
<1>4. Names(key, f) = Names(key, files) \ {n}
  <2>1. \A k : HmacKeyForName(key, k) = t <=> k = n
    BY HmacKeysDiffer
  <2> HIDE DEF t
  <2> QED
    BY <1>1, <2>1 DEF Names
<1>5. ASSUME NEW k \in Names(key, f) PROVE d[k] = c[k]
  <2>1. HmacKeyForName(key, k) \in DOMAIN f /\ k \in Names(key, files)
    BY <1>4 DEF Names
  <2> QED
    BY <1>1, <1>2, <1>3, <2>1
<1>6. d = Promise!Restrict(c, DOMAIN c \ {n})
  BY <1>2, <1>3, <1>4, <1>5 DEF Promise!Restrict
<1> QED
  BY <1>6 DEF c, d, f, t
-----------------------------------------------------------------------------
(***************************************************************************)
(* The steps of SecretStore in terms of the refinement mapping.            *)
(***************************************************************************)
Secrets(v) == [password |-> v.key.password, contents |-> Contents(v.key, v.files)]
Stored == [i \in Inst |-> IF vault[i] = NULL THEN NULL ELSE Secrets(vault[i])]
Snapshots == {Revealed(b) : b \in exports}
Promised == [Promise!SNext]_(Promise!svars)

\* NULL is no vault: the model value of the instances is no function at all.
NullIsNoFunction == NULL # [x \in DOMAIN NULL |-> NULL[x]]

\* Neither a vault nor what it holds is taken for `no vault'.
LEMMA NoRecordIsNull ==
    ASSUME NullIsNoFunction
    PROVE  /\ \A v : IsVault(v) => v # NULL
           /\ \A p, c : [password |-> p, contents |-> c] # NULL
<1>1. ASSUME NEW v, IsVault(v) PROVE v # NULL
  <2>1. v = [x \in DOMAIN v |-> v[x]]
    BY <1>1 DEF IsVault
  <2> QED
    BY <2>1 DEF NullIsNoFunction
<1>2. ASSUME NEW p, NEW c PROVE [password |-> p, contents |-> c] # NULL
  <2> DEFINE v == [password |-> p, contents |-> c]
  <2>1. v = [x \in DOMAIN v |-> v[x]]
    OBVIOUS
  <2> QED
    BY <2>1 DEF NullIsNoFunction
<1> QED
  BY <1>1, <1>2

\* Nothing happens, or an answer is given.
LEMMA QuietStep ==
    ASSUME UNCHANGED <<Stored, Snapshots, ret>>
    PROVE  Promised
  BY DEF Stored, Snapshots, Secrets, Promised, Promise!svars

\* The steps of SecretStore, from what the caller sees of a call.  First a
\* call that fails.
LEMMA FailingStep ==
    ASSUME NEW i \in Inst, NEW call, NEW error, UNCHANGED <<Stored, Snapshots>>,
           Returns(i, call, error, NULL)
    PROVE  Promise!Fails(i, call, error)
  BY DEF Stored, Snapshots, Secrets, Returns, Promise!Fails, Promise!Returns

\* A call the machine may break.
LEMMA BreakingStep ==
    ASSUME NEW i \in Inst, NEW call \in Promise!MayBreak, UNCHANGED <<Stored, Snapshots>>,
           Returns(i, call, "CryptoError", NULL)
    PROVE  Promised
<1>1. Promise!Fails(i, call, "CryptoError")
  BY FailingStep
<1> QED
  BY <1>1 DEF Promised, Promise!SNext

\* create.
LEMMA NewStep ==
    ASSUME NEW i \in Inst, NEW p \in Password, vault[i] = NULL, LongEnough(p),
           Stored' = [Stored EXCEPT ![i] = [password |-> p, contents |-> Promise!Empty]],
           UNCHANGED Snapshots, Returns(i, <<"create", p>>, "Ok", NULL)
    PROVE  Promised
<1>1. Promise!New(i, p)
  BY DEF Stored, Snapshots, Secrets, Returns, LongEnough,
         Promise!New, Promise!Returns, Promise!LongEnough
<1> QED
  BY <1>1 DEF Promised, Promise!SNext

\* store.
LEMMA PutStep ==
    ASSUME NEW i \in Inst, NEW n \in Name, NEW x \in Value, NEW pw, NEW c,
           Stored[i] = [password |-> pw, contents |-> c], Stored[i] # NULL,
           Promise!WithinLimits(c, n, x),
           Stored' = [Stored EXCEPT ![i] = [password |-> pw, contents |-> With(c, n, x)]],
           UNCHANGED Snapshots, Returns(i, <<"store", n, x>>, "Ok", NULL)
    PROVE  Promised
<1>1. Stored[i].contents = c /\ DOMAIN Stored = Inst
  BY DEF Stored
<1> DEFINE d == With(c, n, x)
<1>2. Stored' = [Stored EXCEPT ![i].contents = With(Stored[i].contents, n, x)]
  <2>1. [Stored EXCEPT ![i].contents = d] = [Stored EXCEPT ![i] = [password |-> pw, contents |-> d]]
    <3>1. PICK s : s = Stored
      OBVIOUS
    <3>2. DOMAIN s = Inst /\ s[i] = [password |-> pw, contents |-> c]
      BY <1>1, <3>1
    <3> HIDE DEF d
    <3>3. [s[i] EXCEPT !.contents = d] = [password |-> pw, contents |-> d]
      BY <3>2
    <3>4. [s EXCEPT ![i].contents = d] = [s EXCEPT ![i] = [s[i] EXCEPT !.contents = d]]
      BY <3>2
    <3> QED
      BY <3>1, <3>3, <3>4
  <2> QED
    BY <1>1, <2>1
<1>3. Promise!WithinLimits(Stored[i].contents, n, x)
  BY <1>1
<1>4. Promise!Put(i, n, x)
  BY <1>2, <1>3 DEF Stored, Snapshots, Secrets, Returns, With, Promise!Put, Promise!Returns
<1> QED
  BY <1>4 DEF Promised, Promise!SNext

\* remove.
LEMMA DeleteStep ==
    ASSUME NEW i \in Inst, NEW n \in Name, NEW pw, NEW c,
           Stored[i] = [password |-> pw, contents |-> c], Stored[i] # NULL,
           Stored' = [Stored EXCEPT ![i] =
                        [password |-> pw, contents |-> Promise!Restrict(c, DOMAIN c \ {n})]],
           UNCHANGED Snapshots, Returns(i, <<"remove", n>>, "Ok", n \in DOMAIN c)
    PROVE  Promised
<1>1. Stored[i].contents = c /\ DOMAIN Stored = Inst
  BY DEF Stored
<1> DEFINE d == Promise!Restrict(c, DOMAIN c \ {n})
<1>2. Stored' = [Stored EXCEPT ![i].contents =
                    Promise!Restrict(Stored[i].contents, DOMAIN Stored[i].contents \ {n})]
  <2>1. [Stored EXCEPT ![i].contents = d] = [Stored EXCEPT ![i] = [password |-> pw, contents |-> d]]
    <3>1. PICK s : s = Stored
      OBVIOUS
    <3>2. DOMAIN s = Inst /\ s[i] = [password |-> pw, contents |-> c]
      BY <1>1, <3>1
    <3> HIDE DEF d
    <3>3. [s[i] EXCEPT !.contents = d] = [password |-> pw, contents |-> d]
      BY <3>2
    <3>4. [s EXCEPT ![i].contents = d] = [s EXCEPT ![i] = [s[i] EXCEPT !.contents = d]]
      BY <3>2
    <3> QED
      BY <3>1, <3>3, <3>4
  <2> QED
    BY <1>1, <2>1
<1>3. Returns(i, <<"remove", n>>, "Ok", n \in DOMAIN Stored[i].contents)
  BY <1>1
<1>4. Promise!Delete(i, n)
  BY <1>2, <1>3 DEF Stored, Snapshots, Secrets, Returns, Promise!Delete, Promise!Returns
<1> QED
  BY <1>4 DEF Promised, Promise!SNext

\* retrieve.
LEMMA GetStep ==
    ASSUME NEW i \in Inst, NEW n \in Name, NEW pw, NEW c,
           Stored[i] = [password |-> pw, contents |-> c], Stored[i] # NULL,
           UNCHANGED <<Stored, Snapshots>>,
           Returns(i, <<"retrieve", n>>, "Ok", IF n \in DOMAIN c THEN c[n] ELSE NULL)
    PROVE  Promised
<1>1. Stored[i].contents = c
  OBVIOUS
<1>2. Returns(i, <<"retrieve", n>>, "Ok",
              IF n \in DOMAIN Stored[i].contents THEN Stored[i].contents[n] ELSE NULL)
  BY <1>1
<1>3. Promise!Get(i, n)
  BY <1>2 DEF Stored, Snapshots, Secrets, Returns, Promise!Get, Promise!Returns
<1> QED
  BY <1>3 DEF Promised, Promise!SNext

\* export.
LEMMA SnapshotStep ==
    ASSUME NEW i \in Inst, NEW pw, NEW c,
           Stored[i] = [password |-> pw, contents |-> c], Stored[i] # NULL,
           Promise!Fits(c), UNCHANGED Stored,
           Snapshots' = Snapshots \cup {[password |-> pw, contents |-> c]},
           Returns(i, <<"export">>, "Ok", NULL)
    PROVE  Promised
<1>1. Promise!Fits(Stored[i].contents) /\ Snapshots' = Snapshots \cup {Stored[i]}
  OBVIOUS
<1>2. Promise!Snapshot(i)
  BY <1>1 DEF Stored, Snapshots, Secrets, Returns, Promise!Snapshot, Promise!Returns
<1> QED
  BY <1>2 DEF Promised, Promise!SNext

\* open.
LEMMA RestoreStep ==
    ASSUME NEW i \in Inst, NEW p \in Password, NEW s \in Snapshots, vault[i] = NULL,
           s.password = p, Stored' = [Stored EXCEPT ![i] = s], UNCHANGED Snapshots,
           Returns(i, <<"open", p>>, "Ok", NULL)
    PROVE  Promised
<1>1. Promise!Restore(i, p, s)
  BY DEF Stored, Snapshots, Secrets, Returns, Promise!Restore, Promise!Returns
<1> QED
  BY <1>1 DEF Promised, Promise!SNext, Snapshots

\* change_password.
LEMMA ChangePasswordStep ==
    ASSUME NEW i \in Inst, NEW p \in Password, NEW q \in Password, NEW c,
           Stored[i] = [password |-> p, contents |-> c], Stored[i] # NULL, LongEnough(q),
           Stored' = [Stored EXCEPT ![i] = [password |-> q, contents |-> c]],
           UNCHANGED Snapshots, Returns(i, <<"change_password", p, q>>, "Ok", NULL)
    PROVE  Promised
<1>1. Stored[i].password = p /\ DOMAIN Stored = Inst
  BY DEF Stored
<1>2. Stored' = [Stored EXCEPT ![i].password = q]
  <2>1. [Stored EXCEPT ![i].password = q] = [Stored EXCEPT ![i] = [password |-> q, contents |-> c]]
    <3>1. PICK s : s = Stored
      OBVIOUS
    <3>2. DOMAIN s = Inst /\ s[i] = [password |-> p, contents |-> c]
      BY <1>1, <3>1
    <3>3. [s[i] EXCEPT !.password = q] = [password |-> q, contents |-> c]
      BY <3>2
    <3>4. [s EXCEPT ![i].password = q] = [s EXCEPT ![i] = [s[i] EXCEPT !.password = q]]
      BY <3>2
    <3> QED
      BY <3>1, <3>3, <3>4
  <2> QED
    BY <2>1
<1>3. Promise!ChangePassword(i, p, q)
  BY <1>1, <1>2 DEF Stored, Snapshots, Secrets, Returns, LongEnough,
     Promise!ChangePassword, Promise!Returns, Promise!LongEnough
<1> QED
  BY <1>3 DEF Promised, Promise!SNext

\* A vault is dropped.
LEMMA ForgetStep ==
    ASSUME NEW i \in Inst, Stored' = [Stored EXCEPT ![i] = NULL], UNCHANGED <<Snapshots, ret>>
    PROVE  Promised
<1>1. Promise!Forget(i)
  BY DEF Stored, Snapshots, Secrets, Promise!Forget
<1> QED
  BY <1>1 DEF Promised, Promise!SNext

\* The refusals that must have a cause.
LEMMA RefusingSteps ==
    ASSUME NEW i \in Inst, UNCHANGED <<Stored, Snapshots>>
    PROVE  /\ \A p \in Password :
                /\ ~LongEnough(p) /\ Returns(i, <<"create", p>>, "InvalidInput", NULL)
                   => Promised
                /\ \A s \in Snapshots :
                     /\ s.password # p
                     /\ Returns(i, <<"open", p>>, "InvalidPassword", NULL)
                     => Promised
                /\ \A q \in Password :
                     /\ /\ Stored[i] # NULL /\ ~LongEnough(q)
                        /\ Returns(i, <<"change_password", p, q>>, "InvalidInput", NULL)
                        => Promised
                     /\ /\ Stored[i] # NULL /\ LongEnough(q) /\ Stored[i].password # p
                        /\ Returns(i, <<"change_password", p, q>>, "InvalidPassword", NULL)
                        => Promised
           /\ \A n \in Name, x \in Value :
                /\ Stored[i] # NULL /\ ~Promise!WithinLimits(Stored[i].contents, n, x)
                /\ Returns(i, <<"store", n, x>>, "InvalidInput", NULL)
                => Promised
           /\ /\ Stored[i] # NULL /\ ~Promise!Fits(Stored[i].contents)
              /\ Returns(i, <<"export">>, "SerializationError", NULL)
              => Promised
<1> USE FailingStep
<1>1. ASSUME NEW p \in Password, ~LongEnough(p),
             Returns(i, <<"create", p>>, "InvalidInput", NULL)
      PROVE  Promised
  <2>1. Promise!CreateRefused(i, p)
    BY <1>1 DEF Promise!CreateRefused, Promise!LongEnough, LongEnough
  <2> QED
    BY <2>1 DEF Promised, Promise!SNext
<1>2. ASSUME NEW p \in Password, NEW s \in Snapshots, s.password # p,
             Returns(i, <<"open", p>>, "InvalidPassword", NULL)
      PROVE  Promised
  <2>1. Promise!RestoreRefused(i, p, s)
    BY <1>2 DEF Promise!RestoreRefused
  <2> QED
    BY <2>1 DEF Promised, Promise!SNext, Snapshots
<1>3. ASSUME NEW p \in Password, NEW q \in Password, Stored[i] # NULL,
             \/ /\ ~LongEnough(q)
                /\ Returns(i, <<"change_password", p, q>>, "InvalidInput", NULL)
             \/ /\ LongEnough(q) /\ Stored[i].password # p
                /\ Returns(i, <<"change_password", p, q>>, "InvalidPassword", NULL)
      PROVE  Promised
  <2>1. Promise!ChangePasswordRefused(i, p, q)
    BY <1>3 DEF Promise!ChangePasswordRefused, Promise!LongEnough, LongEnough, Stored, Secrets
  <2> QED
    BY <2>1 DEF Promised, Promise!SNext
<1>4. ASSUME NEW n \in Name, NEW x \in Value, Stored[i] # NULL,
             ~Promise!WithinLimits(Stored[i].contents, n, x),
             Returns(i, <<"store", n, x>>, "InvalidInput", NULL)
      PROVE  Promised
  <2>1. Promise!PutRefused(i, n, x)
    BY <1>4 DEF Promise!PutRefused, Stored, Secrets
  <2> QED
    BY <2>1 DEF Promised, Promise!SNext
<1>5. ASSUME Stored[i] # NULL, ~Promise!Fits(Stored[i].contents),
             Returns(i, <<"export">>, "SerializationError", NULL)
      PROVE  Promised
  <2>1. Promise!SnapshotRefused(i)
    BY <1>5 DEF Promise!SnapshotRefused, Stored, Secrets
  <2> QED
    BY <2>1 DEF Promised, Promise!SNext
<1> QED
  BY <1>1, <1>2, <1>3, <1>4, <1>5
-----------------------------------------------------------------------------
(***************************************************************************)
(* What a pending re-key is about to do.  Its new vault holds what the old *)
(* one does, but for the entries it has yet to copy; the old one is the    *)
(* vault of the call, or that of a file.                                   *)
(***************************************************************************)
CopiedSoFar(r) ==
    LET c == Contents(r.old.key, r.old.files) IN
    Contents(r.new.key, r.new.files)
      = [n \in {m \in DOMAIN c : HmacKeyForName(r.old.key, m) \notin r.todo} |-> c[n]]

RekeyForCall(i) ==
    LET r == rekey[i] IN
    \/ \E p \in Password :
        /\ r.call = <<"open", p>>
        /\ vault[i] = NULL
        /\ [password |-> p, contents |-> Contents(r.old.key, r.old.files)] \in Snapshots
        /\ r.new.key.password = p
    \/ \E p, q \in Password :
        /\ r.call = <<"change_password", p, q>>
        /\ vault[i] # NULL /\ vault[i] = r.old /\ r.old.key.password = p
        /\ LongEnough(q)
        /\ r.new.key.password = q

RekeysKnown ==
    \A i \in Inst : rekey[i] # NULL => RekeyForCall(i) /\ CopiedSoFar(rekey[i])

\* Vaults and blobs open under their keys.
LEMMA VaultReadable ==
    ASSUME NEW v, IsVault(v), SoundVault(v)
    PROVE  Readable(v.key, v.files)
  BY DEF IsVault, SoundVault, Sound, MapWithinLimits, Readable

\* What open reconstructs holds what the blob reveals.
LEMMA OpenedSecrets ==
    ASSUME NEW p, NEW b \in exports, OpenResult(p, b) = "Ok"
    PROVE  /\ Secrets(OpenedVault(p, b)) = Revealed(b)
           /\ Revealed(b).password = p
           /\ Revealed(b) \in Snapshots
<1>1. OpensWithAad(DeriveKey(p, b.header), b.nonce, b.encrypted_index, b.header)
  BY DEF OpenResult
<1>2. b.encrypted_index.key = DeriveKey(p, b.header)
  BY <1>1 DEF OpensWithAad
<1>3. /\ OpenedVault(p, b).key = DeriveKey(p, b.header)
      /\ OpenedVault(p, b).files = DecodedFiles(b.header.version, b.encrypted_index.text)
  BY DEF OpenedVault
<1>4. DeriveKey(p, b.header).password = p
  BY DEF DeriveKey
<1> QED
  BY <1>2, <1>3, <1>4 DEF Secrets, Revealed, Snapshots

\* A re-key that has just begun has copied nothing.
LEMMA NothingCopied ==
    ASSUME NEW call, NEW v, WellSealed(v.key, v.files), NEW p, NEW s, NEW n
    PROVE  CopiedSoFar([call |-> call, old |-> v, new |-> NewVault(p, s, n),
                        todo |-> DOMAIN v.files])
<1> DEFINE new == NewVault(p, s, n)
           r == [call |-> call, old |-> v, new |-> new, todo |-> DOMAIN v.files]
           c == Contents(v.key, v.files)
<1>1. new.files = NoFiles
  BY DEF NewVault
<1> HIDE DEF new
<1>2. r.old = v /\ r.new = new /\ r.todo = DOMAIN v.files
  OBVIOUS
<1>3. {m \in DOMAIN c : HmacKeyForName(v.key, m) \notin DOMAIN v.files} = {}
  <2>1. DOMAIN c = Names(v.key, v.files)
    BY ContentsFacts
  <2> HIDE DEF c
  <2> QED
    BY <2>1 DEF Names
<1>4. Contents(new.key, new.files) = [k \in {} |-> c[k]]
  BY <1>1, ContentsOfNothing DEF Promise!Empty
<1> HIDE DEF r, c
<1>5. CopiedSoFar(r)
  BY <1>2, <1>3, <1>4 DEF CopiedSoFar, c
<1> QED
  BY <1>5 DEF r, new

\* One entry more.
LEMMA OneMoreCopied ==
    ASSUME NEW r, IsRekey(r), SoundVault(r.old), SoundVault(r.new), CopiedSoFar(r),
           NEW t \in r.todo, NEW w,
           SoundVault(w), w.key = r.new.key, NEW e,
           w.files = InsertByKey(r.new.files,
                        HmacKeyForName(r.new.key, r.old.files[t].encrypted_name.text), e),
           e.encrypted_data.text = r.old.files[t].encrypted_data.text
    PROVE  CopiedSoFar([r EXCEPT !.new = w, !.todo = @ \ {t}])
<1> DEFINE q == [r EXCEPT !.new = w, !.todo = @ \ {t}]
           c == Contents(r.old.key, r.old.files)
           d == Contents(r.new.key, r.new.files)
           n == r.old.files[t].encrypted_name.text
           x == r.old.files[t].encrypted_data.text
           Done(todo) == {m \in DOMAIN c : HmacKeyForName(r.old.key, m) \notin todo}
<1>1. q.old = r.old /\ q.new = w /\ q.todo = r.todo \ {t}
  BY DEF IsRekey
<1>2. Readable(r.old.key, r.old.files) /\ t \in DOMAIN r.old.files
  BY VaultReadable DEF IsRekey
<1>3. n \in Names(r.old.key, r.old.files) /\ t = HmacKeyForName(r.old.key, n)
  BY <1>2, EntryNames
<1>4. n \in DOMAIN c /\ c[n] = x /\ n \in Name
  <2>1. /\ DOMAIN c = Names(r.old.key, r.old.files)
        /\ c[n] = r.old.files[HmacKeyForName(r.old.key, n)].encrypted_data.text
    BY <1>2, <1>3, ContentsFacts DEF Readable
  <2> HIDE DEF c, n
  <2> QED
    BY <1>3, <2>1 DEF Names
<1>5. WellSealed(r.new.key, r.new.files) /\ WellSealed(r.new.key, w.files)
  BY DEF SoundVault, Sound
<1> HIDE DEF n, x, q, c, d
<1>6. Contents(w.key, w.files) = With(d, n, x)
  BY <1>4, <1>5, ContentsStored DEF d, n, x
<1>7. d = [m \in Done(r.todo) |-> c[m]]
  BY DEF CopiedSoFar, c, d
<1>8. Done(r.todo \ {t}) = Done(r.todo) \cup {n}
  <2>1. \A m : HmacKeyForName(r.old.key, m) = t <=> m = n
    BY <1>3, HmacKeysDiffer
  <2> QED
    BY <1>4, <2>1
<1> HIDE DEF Done
<1>9. With(d, n, x) = [m \in Done(r.todo \ {t}) |-> c[m]]
  BY <1>4, <1>7, <1>8 DEF With
<1>10. CopiedSoFar(q)
  BY <1>1, <1>6, <1>9 DEF CopiedSoFar, c, Done
<1> QED
  BY <1>10 DEF q

\* Nothing is left to copy.
LEMMA AllCopied ==
    ASSUME NEW r, WellSealed(r.old.key, r.old.files), CopiedSoFar(r), r.todo = {}
    PROVE  Contents(r.new.key, r.new.files) = Contents(r.old.key, r.old.files)
<1> DEFINE c == Contents(r.old.key, r.old.files)
<1>1. c = [n \in DOMAIN c |-> c[n]]
  BY ContentsFacts
<1>2. {m \in DOMAIN c : HmacKeyForName(r.old.key, m) \notin r.todo} = DOMAIN c
  OBVIOUS
<1> QED
  BY <1>1, <1>2 DEF CopiedSoFar

\* A step of one object leaves the re-keys of the others as they were.
LEMMA OtherRekeysKnown ==
    ASSUME RekeysKnown, NEW i \in Inst,
           \A j \in Inst \ {i} : vault'[j] = vault[j] /\ rekey'[j] = rekey[j],
           exports \subseteq exports',
           rekey'[i] = NULL \/ (RekeyForCall(i)' /\ CopiedSoFar(rekey'[i]))
    PROVE  RekeysKnown'
<1>1. Snapshots \subseteq Snapshots'
  BY DEF Snapshots
<1>2. ASSUME NEW j \in Inst, j # i, rekey'[j] # NULL
      PROVE  RekeyForCall(j)' /\ CopiedSoFar(rekey'[j])
  <2>1. vault'[j] = vault[j] /\ rekey'[j] = rekey[j]
    BY <1>2
  <2>2. RekeyForCall(j) /\ CopiedSoFar(rekey[j])
    BY <1>2, <2>1 DEF RekeysKnown
  <2> QED
    BY <1>1, <2>1, <2>2 DEF RekeyForCall
<1> QED
  BY <1>2 DEF RekeysKnown

\* A call that is over, or has nothing to do with re-keying.
LEMMA NoRekeyOfThis ==
    ASSUME IInv, RekeysKnown, NEW i \in Inst, NEW w,
           vault' = vault \/ vault' = [vault EXCEPT ![i] = w],
           \/ rekey' = [rekey EXCEPT ![i] = NULL]
           \/ rekey' = rekey /\ rekey[i] = NULL,
           exports \subseteq exports'
    PROVE  RekeysKnown'
<1>1. \A j \in Inst \ {i} : vault'[j] = vault[j] /\ rekey'[j] = rekey[j]
  BY DEF IInv, TypeOK
<1>2. rekey'[i] = NULL
  BY DEF IInv, TypeOK
<1> QED
  BY <1>1, <1>2, OtherRekeysKnown

\* Nothing has been copied at first, and the call is the one that began it.
LEMMA RekeyBegins ==
    ASSUME IInv, RekeysKnown, NEW i \in Inst, NEW call, NEW v, SoundVault(v),
           NEW p \in Password, BeginRekey(i, call, v, p), UNCHANGED <<vault, exports>>,
           \/ /\ call = <<"open", p>> /\ vault[i] = NULL /\ v.key.password = p
              /\ Secrets(v) \in Snapshots
           \/ \E q \in Password :
                /\ call = <<"change_password", q, p>> /\ LongEnough(p)
                /\ vault[i] # NULL /\ vault[i] = v /\ v.key.password = q
    PROVE  RekeysKnown'
<1> DEFINE new == NewVault(p, drawn + 1, drawn + 2)
           r == [call |-> call, old |-> v, new |-> new, todo |-> DOMAIN v.files]
<1>1. rekey' = [rekey EXCEPT ![i] = r]
  BY DEF BeginRekey
<1>2. CopiedSoFar(r)
  BY NothingCopied DEF SoundVault, Sound
<1>3. new.key.password = p
  BY DEF NewVault, DeriveKey
<1> HIDE DEF new
<1>4. r.call = call /\ r.old = v /\ r.new = new
  OBVIOUS
<1> HIDE DEF r
<1>5. rekey'[i] = r /\ \A j \in Inst \ {i} : vault'[j] = vault[j] /\ rekey'[j] = rekey[j]
  BY <1>1 DEF IInv, TypeOK
<1>6. Snapshots' = Snapshots
  BY DEF Snapshots
<1>7. RekeyForCall(i)'
  BY <1>3, <1>4, <1>5, <1>6 DEF RekeyForCall, Secrets
<1> QED
  BY <1>2, <1>5, <1>7, OtherRekeysKnown

\* The loop copies one entry as it is.
LEMMA RekeyGoesOn ==
    ASSUME IInv, RekeysKnown, NEW i \in Inst, RekeyEntry(i)
    PROVE  RekeysKnown'
<1>1. /\ IsRekey(rekey[i]) /\ SoundVault(rekey[i].old) /\ SoundVault(rekey[i].new)
      /\ rekey[i] # NULL
  BY DEF RekeyEntry, Idle, IInv, TypeOK
<1>2. PICK t \in rekey[i].todo :
          LET old == rekey[i].old
              new == rekey[i].new
              n == old.files[t].encrypted_name.text
              x == old.files[t].encrypted_data.text
          IN /\ StoreVerdict(new, n, x) = "Ok"
             /\ ~MapFull(new.files, HmacKeyForName(new.key, n))
             /\ rekey' = [rekey EXCEPT
                            ![i].new = StoredIn(@, n, x, drawn + 1, drawn + 2),
                            ![i].todo = @ \ {t}]
  BY DEF RekeyEntry
<1> DEFINE n == rekey[i].old.files[t].encrypted_name.text
           x == rekey[i].old.files[t].encrypted_data.text
           e == SealEntry(rekey[i].new, n, x, drawn + 1, drawn + 2)
           w == StoredIn(rekey[i].new, n, x, drawn + 1, drawn + 2)
           r == [rekey[i] EXCEPT !.new = w, !.todo = @ \ {t}]
<1>3. n \in Name /\ x \in Value
  BY <1>1 DEF IsRekey, IsVault, IsFiles, IndexEntry
<1>4. drawn + 1 \in Random /\ drawn + 2 \in Random
  BY DEF IInv, TypeOK, Random
<1>5. SoundVault(w)
  BY <1>1, <1>2, <1>3, <1>4, SoundStored DEF IsRekey
<1>6. /\ w.key = rekey[i].new.key
      /\ w.files = InsertByKey(rekey[i].new.files, HmacKeyForName(rekey[i].new.key, n), e)
  BY <1>1 DEF StoredIn, IsRekey, IsVault
<1>7. e.encrypted_data.text = x
  BY DEF SealEntry, SealWithAad
<1>8. rekey' = [rekey EXCEPT ![i] = r]
  BY <1>2 DEF IInv, TypeOK
<1> HIDE DEF w, e
<1>9. CopiedSoFar(r)
  BY <1>1, <1>5, <1>6, <1>7, OneMoreCopied DEF RekeysKnown
<1>10. r.call = rekey[i].call /\ r.old = rekey[i].old /\ r.new.key = rekey[i].new.key
  BY <1>1, <1>6 DEF IsRekey
<1> HIDE DEF r, n, x
<1>11. rekey'[i] = r /\ \A j \in Inst \ {i} : vault'[j] = vault[j] /\ rekey'[j] = rekey[j]
  BY <1>8 DEF IInv, TypeOK, RekeyEntry
<1>12. RekeyForCall(i)'
  <2>1. RekeyForCall(i)
    BY <1>1 DEF RekeysKnown
  <2>2. Snapshots' = Snapshots /\ vault' = vault
    BY DEF RekeyEntry, Snapshots
  <2> QED
    BY <1>10, <1>11, <2>1, <2>2 DEF RekeyForCall
<1>13. exports' = exports
  BY DEF RekeyEntry
<1> QED
  BY <1>9, <1>11, <1>12, <1>13, OtherRekeysKnown

\* The invariant of pending re-keys.
LEMMA StepKeepsRekeysKnown == IInv /\ RekeysKnown /\ [Next]_vars => RekeysKnown'
<1> SUFFICES ASSUME IInv, RekeysKnown, [Next]_vars PROVE RekeysKnown'
  OBVIOUS
<1>1. CASE UNCHANGED vars
  BY <1>1 DEF vars, RekeysKnown, RekeyForCall, Snapshots
<1>2. ASSUME NEW i \in Inst, NEW p \in Password, NEW b \in exports, OpenLegacy(i, p, b)
      PROVE  RekeysKnown'
  <2>1. SoundVault(OpenedVault(p, b))
    BY <1>2, SoundOpenedVault DEF OpenLegacy, IInv
  <2>2. Secrets(OpenedVault(p, b)) \in Snapshots
    BY <1>2, OpenedSecrets DEF OpenLegacy
  <2>3. OpenedVault(p, b).key.password = p
    BY DEF OpenedVault, DeriveKey
  <2>4. /\ BeginRekey(i, <<"open", p>>, OpenedVault(p, b), p)
        /\ vault[i] = NULL /\ UNCHANGED <<vault, exports>>
    BY <1>2 DEF OpenLegacy, Absent
  <2> QED
    BY <2>1, <2>2, <2>3, <2>4, RekeyBegins
<1>3. ASSUME NEW i \in Inst, NEW p \in Password, NEW q \in Password, ChangePassword(i, p, q)
      PROVE  RekeysKnown'
  <2>1. /\ SoundVault(vault[i]) /\ vault[i] # NULL /\ LongEnough(q)
        /\ BeginRekey(i, <<"change_password", p, q>>, vault[i], q)
        /\ UNCHANGED <<vault, exports>>
    BY <1>3 DEF ChangePassword, Open, IInv
  <2>2. vault[i].key.password = p
    BY <1>3 DEF ChangePassword, VerifyPassword, DeriveKey
  <2> QED
    BY <2>1, <2>2, RekeyBegins
<1>4. ASSUME NEW i \in Inst, RekeyEntry(i)
      PROVE  RekeysKnown'
  BY <1>4, RekeyGoesOn
<1>5. ASSUME NEW i \in Inst, RekeyAborts(i) \/ RekeyCommit(i) \/ Crash(i)
      PROVE  RekeysKnown'
  <2>1. CASE RekeyAborts(i)
    BY <2>1, NoRekeyOfThis DEF RekeyAborts
  <2>2. CASE RekeyCommit(i)
    BY <2>2, NoRekeyOfThis DEF RekeyCommit
  <2>3. CASE Crash(i)
    BY <2>3, NoRekeyOfThis DEF Crash
  <2> QED
    BY <1>5, <2>1, <2>2, <2>3
<1>6. ASSUME NEW i \in Inst, NEW p \in Password,
             \/ Create(i, p) \/ CreateRefused(i, p)
             \/ \E b \in exports : OpenCurrent(i, p, b) \/ OpenRefused(i, p, b)
             \/ \E q \in Password : \/ ChangePasswordRefused(i, p, q)
                                    \/ KeySetupFails(i, p, q)
      PROVE  RekeysKnown'
  <2>1. /\ vault' = vault \/ \E w : vault' = [vault EXCEPT ![i] = w]
        /\ rekey' = rekey /\ rekey[i] = NULL /\ exports' = exports
    BY <1>6 DEF Create, CreateRefused, OpenCurrent, OpenRefused, Absent, Open, Idle,
                ChangePasswordRefused, KeySetupFails, Fails
  <2> QED
    BY <2>1, NoRekeyOfThis
<1>7. ASSUME NEW i \in Inst, NEW n \in Name,
             \/ Retrieve(i, n) \/ Remove(i, n)
             \/ \E x \in Value : \/ Store(i, n, x) \/ StoreRefused(i, n, x)
                                 \/ StoreWastesCounter(i, n, x)
      PROVE  RekeysKnown'
  <2>1. \E w : vault' = vault \/ vault' = [vault EXCEPT ![i] = w]
    <3>1. CASE Retrieve(i, n)
      BY <3>1 DEF Retrieve
    <3>2. CASE Remove(i, n)
      BY <3>2 DEF Remove
    <3>3. ASSUME NEW x \in Value, Store(i, n, x) \/ StoreRefused(i, n, x)
          PROVE  \E w : vault' = vault \/ vault' = [vault EXCEPT ![i] = w]
      BY <3>3 DEF Store, StoreRefused, Fails
    <3>4. ASSUME NEW x \in Value, StoreWastesCounter(i, n, x)
          PROVE  \E w : vault' = vault \/ vault' = [vault EXCEPT ![i] = w]
      BY <3>4 DEF StoreWastesCounter
    <3> QED
      BY <1>7, <3>1, <3>2, <3>3, <3>4
  <2>2. rekey' = rekey /\ rekey[i] = NULL /\ exports' = exports
    BY <1>7 DEF Retrieve, Remove, Store, StoreRefused, StoreWastesCounter, Fails, Open, Idle
  <2> QED
    BY <2>1, <2>2, NoRekeyOfThis
<1>8. ASSUME NEW i \in Inst,
             \/ Export(i) \/ ExportTooLarge(i) \/ ExportOverflows(i) \/ ExportWastesCounter(i)
      PROVE  RekeysKnown'
  <2>1. \E w : vault' = vault \/ vault' = [vault EXCEPT ![i] = w]
    <3>1. CASE Export(i)
      BY <3>1 DEF Export
    <3>2. CASE ExportTooLarge(i)
      BY <3>2 DEF ExportTooLarge
    <3>3. CASE ExportOverflows(i)
      BY <3>3 DEF ExportOverflows, Fails
    <3>4. CASE ExportWastesCounter(i)
      BY <3>4 DEF ExportWastesCounter
    <3> QED
      BY <1>8, <3>1, <3>2, <3>3, <3>4
  <2>2. rekey' = rekey /\ rekey[i] = NULL /\ exports \subseteq exports'
    BY <1>8 DEF Export, ExportTooLarge, ExportOverflows, ExportWastesCounter, Fails, Open, Idle
  <2> QED
    BY <2>1, <2>2, NoRekeyOfThis
<1> QED
  BY <1>1, <1>2, <1>3, <1>4, <1>5, <1>6, <1>7, <1>8 DEF Next
-----------------------------------------------------------------------------
(***************************************************************************)
(* The steps of Vault against those of SecretStore.                        *)
(***************************************************************************)
LEMMA NoFunctionIsNull ==
    ASSUME NullIsNoFunction, NEW f, f = [x \in DOMAIN f |-> f[x]]
    PROVE  f # NULL
  BY DEF NullIsNoFunction

\* What the abstract store says of an open vault.
LEMMA OpenVault ==
    ASSUME NullIsNoFunction, IInv, NEW i \in Inst, vault[i] # NULL
    PROVE  /\ IsVault(vault[i]) /\ SoundVault(vault[i])
           /\ Readable(vault[i].key, vault[i].files)
           /\ Stored[i] = Secrets(vault[i])
           /\ Stored[i] = [password |-> vault[i].key.password,
                           contents |-> Contents(vault[i].key, vault[i].files)]
           /\ Stored[i] # NULL
<1>1. IsVault(vault[i]) /\ SoundVault(vault[i])
  BY DEF IInv, TypeOK
<1>2. Stored[i] = Secrets(vault[i])
  BY DEF Stored
<1>3. Stored[i] # NULL
  BY <1>2, NoRecordIsNull DEF Secrets
<1> QED
  BY <1>1, <1>2, <1>3, VaultReadable DEF Secrets

\* A step of one object changes what is stored there.
LEMMA OneStored ==
    ASSUME IInv, NEW i \in Inst, NEW w, vault' = [vault EXCEPT ![i] = w]
    PROVE  Stored' = [Stored EXCEPT ![i] = IF w = NULL THEN NULL ELSE Secrets(w)]
<1>1. \A j \in Inst : vault'[j] = IF j = i THEN w ELSE vault[j]
  BY DEF IInv, TypeOK
<1> QED
  BY <1>1 DEF Stored, Secrets

\* Counters and nonces are not part of what is stored.
LEMMA SameStored ==
    ASSUME IInv, NEW i \in Inst, NEW w, vault' = [vault EXCEPT ![i] = w],
           vault[i] # NULL, w # NULL, w.key = vault[i].key, w.files = vault[i].files
    PROVE  Stored' = Stored
<1>1. \A j \in Inst : vault'[j] = IF j = i THEN w ELSE vault[j]
  BY DEF IInv, TypeOK
<1> QED
  BY <1>1 DEF Stored, Secrets

\* Vault::create.
LEMMA CreateIsNew ==
    ASSUME NullIsNoFunction, IInv, NEW i \in Inst, NEW p \in Password, Create(i, p)
    PROVE  Promised
<1> DEFINE w == NewVault(p, drawn + 1, drawn + 2)
<1>1. w # NULL
  <2>1. w = [x \in DOMAIN w |-> w[x]]
    BY DEF NewVault
  <2> HIDE DEF w
  <2> QED
    BY <2>1, NoFunctionIsNull
<1>2. w.key.password = p /\ w.files = NoFiles
  BY DEF NewVault, DeriveKey
<1>3. vault' = [vault EXCEPT ![i] = w]
  BY DEF Create
<1> HIDE DEF w
<1>4. Secrets(w) = [password |-> p, contents |-> Promise!Empty]
  BY <1>2, ContentsOfNothing DEF Secrets
<1>5. Stored' = [Stored EXCEPT ![i] = [password |-> p, contents |-> Promise!Empty]]
  BY <1>1, <1>3, <1>4, OneStored
<1>6. /\ vault[i] = NULL /\ LongEnough(p) /\ UNCHANGED Snapshots
      /\ Returns(i, <<"create", p>>, "Ok", NULL)
  BY DEF Create, Absent, Snapshots
<1> QED
  BY <1>5, <1>6, NewStep

\* Vault::open on a file of the current format.
LEMMA OpenIsRestore ==
    ASSUME NullIsNoFunction, IInv, NEW i \in Inst, NEW p \in Password, NEW b \in exports,
           OpenCurrent(i, p, b)
    PROVE  Promised
<1> DEFINE w == OpenedVault(p, b)
<1>1. w # NULL
  <2>1. w = [x \in DOMAIN w |-> w[x]]
    BY DEF OpenedVault
  <2> HIDE DEF w
  <2> QED
    BY <2>1, NoFunctionIsNull
<1>2. vault' = [vault EXCEPT ![i] = w]
  BY DEF OpenCurrent
<1>3. /\ Secrets(w) = Revealed(b) /\ Revealed(b).password = p
      /\ Revealed(b) \in Snapshots
  BY OpenedSecrets DEF OpenCurrent
<1> HIDE DEF w
<1>4. Stored' = [Stored EXCEPT ![i] = Revealed(b)]
  BY <1>1, <1>2, <1>3, OneStored
<1>5. /\ vault[i] = NULL /\ UNCHANGED Snapshots
      /\ Returns(i, <<"open", p>>, "Ok", NULL)
  BY DEF OpenCurrent, Absent, Snapshots
<1> QED
  BY <1>3, <1>4, <1>5, RestoreStep

\* ExportsReopen: the only cause is the password.
LEMMA OpenRefusedForPassword ==
    ASSUME IInv, EveryExportReopens, NEW i \in Inst, NEW p \in Password, NEW b \in exports,
           OpenRefused(i, p, b)
    PROVE  Promised
<1>1. OpenResult(p, b) = "InvalidPassword" /\ b.encrypted_index.key.password # p
  BY DEF OpenRefused, EveryExportReopens
<1>2. Revealed(b).password # p /\ Revealed(b) \in Snapshots
  BY <1>1 DEF Revealed, Snapshots
<1>3. /\ UNCHANGED <<Stored, Snapshots>>
      /\ Returns(i, <<"open", p>>, "InvalidPassword", NULL)
  BY <1>1 DEF OpenRefused, Fails, Stored, Snapshots
<1> QED
  BY <1>2, <1>3, RefusingSteps

\* store refuses what SecretStore refuses.
LEMMA SameLimits ==
    ASSUME IInv, NEW key, NEW files, Readable(key, files), NEW n \in Name, NEW x \in Value
    PROVE  Promise!WithinLimits(Contents(key, files), n, x)
             <=> /\ NameLen[n] <= MAX_ENTRY_NAME_LEN
                 /\ DataLen[x] <= MAX_ENTRY_DATA_SIZE
                 /\ ~MapFull(files, HmacKeyForName(key, n))
<1>1. n \in DOMAIN Contents(key, files) <=> HmacKeyForName(key, n) \in DOMAIN files
  BY ContentsFacts DEF Readable, Names
<1>2. /\ Promise!Cardinality(DOMAIN Contents(key, files)) = Cardinality(DOMAIN files)
      /\ Cardinality(DOMAIN files) \in Nat
  BY AsManyNames, FS_CardinalityType DEF Readable
<1> QED
  BY <1>1, <1>2, LimitsAssumption DEF Promise!WithinLimits, MapFull

\* Vault::store that succeeds.
LEMMA StoreIsPut ==
    ASSUME NullIsNoFunction, IInv, NEW i \in Inst, NEW n \in Name, NEW x \in Value,
           Store(i, n, x)
    PROVE  Promised
<1> DEFINE v == vault[i]
           e == SealEntry(v, n, x, drawn + 1, drawn + 2)
           w == StoredIn(v, n, x, drawn + 1, drawn + 2)
           c == Contents(v.key, v.files)
<1>1. /\ v # NULL /\ StoreVerdict(v, n, x) = "Ok"
      /\ ~MapFull(v.files, HmacKeyForName(v.key, n))
      /\ vault' = [vault EXCEPT ![i] = w]
      /\ drawn + 1 \in Random /\ drawn + 2 \in Random
  BY DEF Store, Open, IInv, TypeOK, Random
<1>2. /\ IsVault(v) /\ SoundVault(v) /\ Readable(v.key, v.files)
      /\ Stored[i] = [password |-> v.key.password, contents |-> c]
      /\ Stored[i] # NULL
  BY <1>1, OpenVault
<1>3. IsVault(w) /\ SoundVault(w) /\ w # NULL
  <2>1. IsVault(w)
    BY <1>1, <1>2, StoredInType
  <2>2. SoundVault(w)
    BY <1>1, <1>2, SoundStored
  <2> QED
    BY <2>1, <2>2, NoRecordIsNull
<1>4. w.key = v.key /\ w.files = InsertByKey(v.files, HmacKeyForName(v.key, n), e)
  BY <1>2 DEF StoredIn, IsVault
<1>5. e.encrypted_data.text = x
  BY DEF SealEntry, SealWithAad
<1>6. NameLen[n] <= MAX_ENTRY_NAME_LEN /\ DataLen[x] <= MAX_ENTRY_DATA_SIZE
  BY <1>1, LengthsAssumption, LimitsAssumption DEF StoreVerdict
<1>7. UNCHANGED Snapshots /\ Returns(i, <<"store", n, x>>, "Ok", NULL)
  BY DEF Store, Snapshots
<1> HIDE DEF v, e, w, c
<1>8. Contents(w.key, w.files) = With(c, n, x)
  <2>1. WellSealed(v.key, v.files) /\ WellSealed(w.key, w.files)
    BY <1>2, <1>3 DEF SoundVault, Sound
  <2> QED
    BY <1>4, <1>5, <2>1, ContentsStored DEF c
<1>9. Stored' = [Stored EXCEPT ![i] = [password |-> v.key.password, contents |-> With(c, n, x)]]
  BY <1>1, <1>3, <1>4, <1>8, OneStored DEF Secrets
<1>10. Promise!WithinLimits(c, n, x)
  BY <1>1, <1>2, <1>6, SameLimits DEF c
<1> QED
  BY <1>2, <1>7, <1>9, <1>10, PutStep

\* Vault::store that fails, also when it has advanced the counter.
LEMMA StoreRefusalsKept ==
    ASSUME NullIsNoFunction, IInv, NEW i \in Inst, NEW n \in Name, NEW x \in Value,
           StoreRefused(i, n, x) \/ StoreWastesCounter(i, n, x)
    PROVE  Promised
<1> DEFINE v == vault[i]
           c == Contents(v.key, v.files)
<1>1. v # NULL
  BY DEF StoreRefused, StoreWastesCounter, Open
<1>2. /\ IsVault(v) /\ Readable(v.key, v.files)
      /\ Stored[i].contents = c /\ Stored[i] # NULL
  <2>1. /\ IsVault(v) /\ Readable(v.key, v.files)
        /\ Stored[i] = [password |-> v.key.password, contents |-> c]
        /\ Stored[i] # NULL
    BY <1>1, OpenVault
  <2> QED
    BY <2>1
<1>3. UNCHANGED <<Stored, Snapshots>>
  <2>1. CASE StoreRefused(i, n, x)
    BY <2>1 DEF StoreRefused, Fails, Stored, Snapshots
  <2>2. CASE StoreWastesCounter(i, n, x)
    <3> DEFINE w == [v EXCEPT !.data_nonce_counter = @ + 1]
    <3>1. vault' = [vault EXCEPT ![i] = w] /\ UNCHANGED Snapshots
      BY <2>2 DEF StoreWastesCounter, Snapshots, IInv, TypeOK
    <3>2. w.key = v.key /\ w.files = v.files /\ w = [f \in DOMAIN w |-> w[f]]
      BY <1>2 DEF IsVault
    <3> HIDE DEF w
    <3>3. w # NULL
      BY <3>2, NoFunctionIsNull
    <3> QED
      BY <1>1, <3>1, <3>2, <3>3, SameStored
  <2> QED
    BY <2>1, <2>2
<1>4. <<"store", n, x>> \in Promise!MayBreak
  BY DEF Promise!MayBreak
<1>5. NameLen[n] \in Nat /\ DataLen[x] \in Nat
  BY LengthsAssumption
<1>6. \/ Returns(i, <<"store", n, x>>, "CryptoError", NULL)
      \/ /\ Returns(i, <<"store", n, x>>, "InvalidInput", NULL)
         /\ \/ NameLen[n] > MAX_ENTRY_NAME_LEN \/ DataLen[x] > MAX_ENTRY_DATA_SIZE
            \/ MapFull(v.files, HmacKeyForName(v.key, n))
  BY DEF StoreRefused, StoreWastesCounter, StoreVerdict, Fails
<1> HIDE DEF v
<1>7. CASE Returns(i, <<"store", n, x>>, "CryptoError", NULL)
  BY <1>3, <1>4, <1>7, BreakingStep
<1>8. CASE /\ Returns(i, <<"store", n, x>>, "InvalidInput", NULL)
           /\ \/ NameLen[n] > MAX_ENTRY_NAME_LEN \/ DataLen[x] > MAX_ENTRY_DATA_SIZE
              \/ MapFull(v.files, HmacKeyForName(v.key, n))
  <2>1. ~Promise!WithinLimits(c, n, x)
    BY <1>2, <1>5, <1>8, SameLimits, LimitsAssumption
  <2> QED
    BY <1>2, <1>3, <1>8, <2>1, RefusingSteps
<1> QED
  BY <1>6, <1>7, <1>8

\* Vault::retrieve.
LEMMA RetrieveIsGet ==
    ASSUME NullIsNoFunction, IInv, NEW i \in Inst, NEW n \in Name, Retrieve(i, n)
    PROVE  Promised
<1> DEFINE v == vault[i]
           c == Contents(v.key, v.files)
           t == HmacKeyForName(v.key, n)
           e == v.files[t]
<1>1. v # NULL /\ UNCHANGED <<Stored, Snapshots>>
  BY DEF Retrieve, Open, Stored, Snapshots
<1>2. /\ Readable(v.key, v.files) /\ Stored[i] # NULL
      /\ Stored[i] = [password |-> v.key.password, contents |-> c]
  BY <1>1, OpenVault
<1>3. /\ n \in DOMAIN c <=> t \in DOMAIN v.files
      /\ n \in DOMAIN c => c[n] = e.encrypted_data.text
  <2>1. /\ DOMAIN c = Names(v.key, v.files)
        /\ \A m \in Names(v.key, v.files) :
             c[m] = v.files[HmacKeyForName(v.key, m)].encrypted_data.text
    BY <1>2, ContentsFacts DEF Readable
  <2> HIDE DEF c, v
  <2> QED
    BY <2>1 DEF Names
<1>4. t \in DOMAIN v.files => EntryOpens(v.key, t, e)
  BY <1>2 DEF Readable, WellSealed
<1>5. IF t \in DOMAIN v.files
      THEN Returns(i, <<"retrieve", n>>, "Ok", e.encrypted_data.text)
      ELSE Returns(i, <<"retrieve", n>>, "Ok", NULL)
  BY <1>4 DEF Retrieve, EntryOpens
<1> HIDE DEF v, c, t, e
<1>6. Returns(i, <<"retrieve", n>>, "Ok", IF n \in DOMAIN c THEN c[n] ELSE NULL)
  BY <1>3, <1>5
<1> QED
  BY <1>1, <1>2, <1>6, GetStep

\* Vault::remove.
LEMMA RemoveIsDelete ==
    ASSUME NullIsNoFunction, IInv, NEW i \in Inst, NEW n \in Name, Remove(i, n)
    PROVE  Promised
<1> DEFINE v == vault[i]
           c == Contents(v.key, v.files)
           t == HmacKeyForName(v.key, n)
           f == RemoveByKey(v.files, t)
           w == [v EXCEPT !.files = f]
<1>1. v # NULL /\ vault' = [vault EXCEPT ![i] = w] /\ UNCHANGED Snapshots
  BY DEF Remove, Open, Snapshots, IInv, TypeOK
<1>2. /\ IsVault(v) /\ Readable(v.key, v.files) /\ Stored[i] # NULL
      /\ Stored[i] = [password |-> v.key.password, contents |-> c]
  BY <1>1, OpenVault
<1>3. w # NULL /\ w.key = v.key /\ w.files = f
  <2>1. w.key = v.key /\ w.files = f /\ w = [x \in DOMAIN w |-> w[x]]
    BY <1>2 DEF IsVault
  <2> HIDE DEF w
  <2> QED
    BY <2>1, NoFunctionIsNull
<1>4. Contents(v.key, f) = Promise!Restrict(c, DOMAIN c \ {n})
  BY <1>2, ContentsRemoved DEF Readable
<1>5. n \in DOMAIN c <=> t \in DOMAIN v.files
  <2>1. DOMAIN c = Names(v.key, v.files)
    BY <1>2, ContentsFacts DEF Readable
  <2> HIDE DEF c, v
  <2> QED
    BY <2>1 DEF Names
<1>6. Returns(i, <<"remove", n>>, "Ok", t \in DOMAIN v.files)
  BY DEF Remove
<1> HIDE DEF v, c, f, w, t
<1>7. Returns(i, <<"remove", n>>, "Ok", n \in DOMAIN c)
  <2>1. (n \in DOMAIN c) = (t \in DOMAIN v.files)
    BY <1>5
  <2> QED
    BY <1>6, <2>1
<1>8. Stored' = [Stored EXCEPT ![i] = [password |-> v.key.password,
                                       contents |-> Promise!Restrict(c, DOMAIN c \ {n})]]
  BY <1>1, <1>3, <1>4, OneStored DEF Secrets
<1> QED
  BY <1>1, <1>2, <1>7, <1>8, DeleteStep

\* What an export reveals is what the vault holds.
LEMMA ExportIsSnapshot ==
    ASSUME NullIsNoFunction, IInv, NEW i \in Inst, Export(i) \/ ExportTooLarge(i)
    PROVE  Promised
<1> DEFINE u == vault[i]
           c == Contents(u.key, u.files)
           v == AdvanceNonce(u, drawn + 1)
           b == ExportedBlob(v)
<1>1. /\ u # NULL /\ vault' = [vault EXCEPT ![i] = v]
      /\ u.header.version = VAULT_VERSION
  BY DEF Export, ExportTooLarge, Open, IInv
<1>2. /\ IsVault(u) /\ Readable(u.key, u.files) /\ Stored[i] # NULL
      /\ Stored[i] = [password |-> u.key.password, contents |-> c]
  BY <1>1, OpenVault
<1>3. /\ v.key = u.key /\ v.files = u.files /\ v.header = u.header
      /\ v = [x \in DOMAIN v |-> v[x]]
  BY <1>2 DEF AdvanceNonce, IsVault
<1>4. Stored' = Stored
  <2> HIDE DEF u, v
  <2>1. v # NULL
    BY <1>3, NoFunctionIsNull
  <2> QED
    BY <1>1, <1>3, <2>1, SameStored DEF u
<1>5. ValidExportSize(b) <=> Promise!Fits(c)
  <2>1. b.len = ExportLen(u.files)
    BY <1>3 DEF ExportedBlob
  <2>2. ExportLen(u.files) = Promise!FileLen(c)
    BY <1>2, SameFileLen
  <2> HIDE DEF u, c, b
  <2> QED
    BY <2>1, <2>2 DEF ValidExportSize, Promise!Fits
<1>6. Revealed(b) = [password |-> u.key.password, contents |-> c]
  <2>1. /\ b.encrypted_index.key = v.key /\ b.header = v.header
        /\ b.encrypted_index.text.files = v.files
    BY DEF ExportedBlob, SealWithAad, EncodeIndex
  <2> HIDE DEF b, v, u
  <2>2. DecodedFiles(b.header.version, b.encrypted_index.text) = u.files
    BY <1>1, <1>3, <2>1 DEF DecodedFiles, VAULT_VERSION, LEGACY_VAULT_VERSION_1
  <2> QED
    BY <1>3, <2>1, <2>2 DEF Revealed
<1>7. CASE Export(i)
  <2>1. /\ exports' = exports \cup {b} /\ ValidExportSize(b)
        /\ Returns(i, <<"export">>, "Ok", NULL)
    BY <1>7 DEF Export
  <2> HIDE DEF b, c, u
  <2>2. Snapshots' = Snapshots \cup {[password |-> u.key.password, contents |-> c]}
    BY <1>6, <2>1 DEF Snapshots
  <2> QED
    BY <1>2, <1>4, <1>5, <2>1, <2>2, SnapshotStep
<1>8. CASE ExportTooLarge(i)
  <2>1. /\ exports' = exports /\ ~ValidExportSize(b)
        /\ Returns(i, <<"export">>, "SerializationError", NULL)
    BY <1>8 DEF ExportTooLarge
  <2> HIDE DEF b, c, u
  <2>2. UNCHANGED <<Stored, Snapshots>> /\ Stored[i].contents = c
    BY <1>2, <1>4, <2>1 DEF Snapshots
  <2> QED
    BY <1>2, <1>5, <2>1, <2>2, RefusingSteps
<1> QED
  BY <1>7, <1>8

\* An export that fails leaves the contents, though not the counter.
LEMMA ExportBreaks ==
    ASSUME NullIsNoFunction, IInv, NEW i \in Inst, ExportOverflows(i) \/ ExportWastesCounter(i)
    PROVE  Promised
<1>1. UNCHANGED <<Stored, Snapshots>>
  <2>1. CASE ExportOverflows(i)
    BY <2>1 DEF ExportOverflows, Fails, Stored, Snapshots
  <2>2. CASE ExportWastesCounter(i)
    <3> DEFINE v == vault[i]
               w == [v EXCEPT !.nonce_counter = @ + 1]
    <3>1. v # NULL /\ vault' = [vault EXCEPT ![i] = w] /\ UNCHANGED Snapshots
      BY <2>2 DEF ExportWastesCounter, Open, Snapshots, IInv, TypeOK
    <3>2. IsVault(v)
      BY <3>1 DEF IInv, TypeOK
    <3>3. w.key = v.key /\ w.files = v.files /\ w = [f \in DOMAIN w |-> w[f]]
      BY <3>2 DEF IsVault
    <3> HIDE DEF w
    <3>4. w # NULL
      BY <3>3, NoFunctionIsNull
    <3> QED
      BY <3>1, <3>3, <3>4, SameStored
  <2> QED
    BY <2>1, <2>2
<1>2. Returns(i, <<"export">>, "CryptoError", NULL)
  BY DEF ExportOverflows, ExportWastesCounter, Fails
<1>3. <<"export">> \in Promise!MayBreak
  BY DEF Promise!MayBreak
<1> QED
  BY <1>1, <1>2, <1>3, BreakingStep

\* A failing KDF, generator or locked memory.
LEMMA SetupBreaks ==
    ASSUME NEW i \in Inst, NEW p \in Password, NEW q \in Password, KeySetupFails(i, p, q)
    PROVE  Promised
<1>1. UNCHANGED <<Stored, Snapshots>>
  BY DEF KeySetupFails, Fails, Stored, Snapshots
<1>2. PICK call \in {<<"create", p>>, <<"open", p>>, <<"change_password", p, q>>} :
          Returns(i, call, "CryptoError", NULL)
  BY DEF KeySetupFails, Fails
<1>3. call \in Promise!MayBreak
  BY DEF Promise!MayBreak
<1> QED
  BY <1>1, <1>2, <1>3, BreakingStep

\* A password that is too short or wrong.
LEMMA RefusalsKept ==
    ASSUME NullIsNoFunction, IInv, NEW i \in Inst, NEW p \in Password, NEW q \in Password,
           CreateRefused(i, p) \/ ChangePasswordRefused(i, p, q)
    PROVE  Promised
<1>1. UNCHANGED <<Stored, Snapshots>>
  BY DEF CreateRefused, ChangePasswordRefused, Fails, Stored, Snapshots
<1>2. CASE CreateRefused(i, p)
  BY <1>1, <1>2, RefusingSteps DEF CreateRefused, Fails
<1>3. CASE ChangePasswordRefused(i, p, q)
  <2>1. vault[i] # NULL
    BY <1>3 DEF ChangePasswordRefused, Open
  <2>2. /\ Stored[i] # NULL /\ IsVault(vault[i]) /\ vault[i].key.header = vault[i].header
        /\ Stored[i].password = vault[i].key.password
    <3>1. /\ Stored[i] # NULL /\ IsVault(vault[i]) /\ SoundVault(vault[i])
          /\ Stored[i] = [password |-> vault[i].key.password,
                          contents |-> Contents(vault[i].key, vault[i].files)]
      BY <2>1, OpenVault
    <3>2. Stored[i].password = vault[i].key.password
      BY <3>1
    <3> QED
      BY <3>1, <3>2 DEF SoundVault
  <2>3. VerifyPassword(vault[i], p) <=> vault[i].key.password = p
    BY <2>2 DEF VerifyPassword, DeriveKey, IsVault, Key
  <2>4. \/ ~LongEnough(q) /\ Returns(i, <<"change_password", p, q>>, "InvalidInput", NULL)
        \/ /\ LongEnough(q) /\ Stored[i].password # p
           /\ Returns(i, <<"change_password", p, q>>, "InvalidPassword", NULL)
    BY <1>3, <2>2, <2>3 DEF ChangePasswordRefused, Fails
  <2> QED
    BY <1>1, <2>2, <2>4, RefusingSteps
<1> QED
  BY <1>2, <1>3

\* Only the machine makes a re-key fail, and then the vault is as it was.
LEMMA AbortBreaks ==
    ASSUME RekeysKnown, RekeyNeverRefused, NEW i \in Inst, RekeyAborts(i)
    PROVE  Promised
<1>1. rekey[i] # NULL /\ UNCHANGED <<Stored, Snapshots>>
  BY DEF RekeyAborts, Idle, Stored, Snapshots
<1>2. Returns(i, rekey[i].call, "CryptoError", NULL)
  <2>1. PICK t \in rekey[i].todo : \E e \in RekeyErrors(rekey[i], t) :
                Returns(i, rekey[i].call, e, NULL)
    BY DEF RekeyAborts
  <2>2. RekeyErrors(rekey[i], t) = {"CryptoError"}
    BY <1>1 DEF RekeyNeverRefused, Idle
  <2> QED
    BY <2>1, <2>2
<1>3. rekey[i].call \in Promise!MayBreak
  <2>1. RekeyForCall(i)
    BY <1>1 DEF RekeysKnown
  <2>2. \/ \E p \in Password : rekey[i].call = <<"open", p>>
        \/ \E p, q \in Password : rekey[i].call = <<"change_password", p, q>>
    BY <2>1 DEF RekeyForCall
  <2>3. /\ \A p \in Password : <<"open", p>> \in Promise!MayBreak
        /\ \A p, q \in Password : <<"change_password", p, q>> \in Promise!MayBreak
    BY DEF Promise!MayBreak
  <2> QED
    BY <2>2, <2>3
<1> QED
  BY <1>1, <1>2, <1>3, BreakingStep

\* The new vault holds what the old one held, so that what happens when it
\* takes over is what the call promised.
LEMMA CommitKept ==
    ASSUME NullIsNoFunction, IInv, RekeysKnown, NEW i \in Inst, RekeyCommit(i)
    PROVE  Promised
<1> DEFINE old == rekey[i].old
           new == rekey[i].new
           c == Contents(old.key, old.files)
<1>1. /\ rekey[i] # NULL /\ rekey[i].todo = {} /\ vault' = [vault EXCEPT ![i] = new]
      /\ Returns(i, rekey[i].call, "Ok", NULL) /\ UNCHANGED Snapshots
  BY DEF RekeyCommit, Idle, Snapshots
<1>2. RekeyForCall(i) /\ CopiedSoFar(rekey[i])
  BY <1>1 DEF RekeysKnown
<1>3. IsVault(new) /\ WellSealed(old.key, old.files)
  BY <1>1 DEF IInv, TypeOK, IsRekey, SoundVault, Sound
<1>4. Contents(new.key, new.files) = c
  BY <1>1, <1>2, <1>3, AllCopied
<1>5. new # NULL
  BY <1>3, NoRecordIsNull
<1>6. Stored' = [Stored EXCEPT ![i] = [password |-> new.key.password, contents |-> c]]
  <2> HIDE DEF old, new, c
  <2>1. Stored' = [Stored EXCEPT ![i] = IF new = NULL THEN NULL ELSE Secrets(new)]
    BY <1>1, OneStored
  <2>2. Secrets(new) = [password |-> new.key.password, contents |-> c]
    BY <1>4 DEF Secrets
  <2> QED
    BY <1>5, <2>1, <2>2
<1>7. CASE \E p \in Password :
             /\ rekey[i].call = <<"open", p>>
             /\ vault[i] = NULL
             /\ [password |-> p, contents |-> c] \in Snapshots
             /\ new.key.password = p
  <2> HIDE DEF new, c
  <2>1. PICK p \in Password :
             /\ rekey[i].call = <<"open", p>>
             /\ vault[i] = NULL
             /\ [password |-> p, contents |-> c] \in Snapshots
             /\ new.key.password = p
    BY <1>7
  <2>2. PICK s \in Snapshots : s = [password |-> p, contents |-> c]
    BY <2>1
  <2>3. s.password = p /\ Stored' = [Stored EXCEPT ![i] = s]
    BY <1>6, <2>1, <2>2
  <2> QED
    BY <1>1, <2>1, <2>3, RestoreStep
<1>8. CASE \E p, q \in Password :
             /\ rekey[i].call = <<"change_password", p, q>>
             /\ vault[i] # NULL /\ vault[i] = old /\ old.key.password = p
             /\ LongEnough(q)
             /\ new.key.password = q
  <2>1. PICK p \in Password, q \in Password :
             /\ rekey[i].call = <<"change_password", p, q>>
             /\ vault[i] # NULL /\ vault[i] = old /\ old.key.password = p
             /\ LongEnough(q)
             /\ new.key.password = q
    BY <1>8
  <2>2. /\ Stored[i] = [password |-> vault[i].key.password,
                        contents |-> Contents(vault[i].key, vault[i].files)]
        /\ Stored[i] # NULL
    BY <2>1, OpenVault
  <2>3. Stored[i] = [password |-> p, contents |-> c]
    BY <2>1, <2>2
  <2> HIDE DEF old, new, c
  <2> QED
    BY <1>1, <1>6, <2>1, <2>2, <2>3, ChangePasswordStep
<1> QED
  BY <1>2, <1>7, <1>8 DEF RekeyForCall

\* An object that is gone, with its re-key.
LEMMA CrashForgets ==
    ASSUME IInv, NEW i \in Inst, Crash(i)
    PROVE  Promised
<1>1. /\ vault' = [vault EXCEPT ![i] = NULL] /\ UNCHANGED <<Snapshots, ret>>
  BY DEF Crash, Snapshots
<1>2. Stored' = [Stored EXCEPT ![i] = NULL]
  BY <1>1, OneStored
<1> QED
  BY <1>1, <1>2, ForgetStep

\* A re-key begins and goes on without anything changing for the caller.
LEMMA RekeyIsQuiet ==
    ASSUME NEW i \in Inst,
           \/ RekeyEntry(i)
           \/ \E p \in Password, b \in exports : OpenLegacy(i, p, b)
           \/ \E p, q \in Password : ChangePassword(i, p, q)
    PROVE  Promised
<1>1. UNCHANGED <<vault, exports, ret>>
  BY DEF RekeyEntry, OpenLegacy, ChangePassword
<1>2. UNCHANGED <<Stored, Snapshots, ret>>
  BY <1>1 DEF Stored, Snapshots
<1> QED
  BY <1>2, QuietStep

StepsKept ==
    /\ IInv
    /\ RekeysKnown
    /\ RekeyNeverRefused
    /\ EveryExportReopens

\* One step of Vault is one of SecretStore, or none.
LEMMA StepKeepsPromise ==
    ASSUME NullIsNoFunction
    PROVE  StepsKept /\ [Next]_vars => Promised
<1>0. SUFFICES ASSUME StepsKept, [Next]_vars PROVE Promised
  OBVIOUS
<1>1. IInv /\ RekeysKnown /\ RekeyNeverRefused /\ EveryExportReopens
  BY <1>0 DEF StepsKept
<1>2. CASE UNCHANGED vars
  <2>1. UNCHANGED <<Stored, Snapshots, ret>>
    BY <1>2 DEF vars, Stored, Snapshots
  <2> QED
    BY <2>1, QuietStep
<1>3. CASE Next
  <2>1. PICK i \in Inst :
           \/ \E p \in Password :
                \/ Create(i, p)
                \/ CreateRefused(i, p)
                \/ \E b \in exports : \/ OpenCurrent(i, p, b)
                                      \/ OpenLegacy(i, p, b)
                                      \/ OpenRefused(i, p, b)
                \/ \E q \in Password : \/ ChangePassword(i, p, q)
                                       \/ ChangePasswordRefused(i, p, q)
                                       \/ KeySetupFails(i, p, q)
           \/ \E n \in Name :
                \/ Retrieve(i, n)
                \/ Remove(i, n)
                \/ \E x \in Value : \/ Store(i, n, x)
                                    \/ StoreRefused(i, n, x)
                                    \/ StoreWastesCounter(i, n, x)
           \/ Export(i) \/ ExportTooLarge(i)
           \/ ExportOverflows(i) \/ ExportWastesCounter(i)
           \/ RekeyEntry(i)
           \/ RekeyAborts(i)
           \/ RekeyCommit(i)
           \/ Crash(i)
    BY <1>3 DEF Next
  <2>2. ASSUME NEW p \in Password, Create(i, p) \/ CreateRefused(i, p) PROVE Promised
    BY <1>0, <1>1, <2>2, CreateIsNew, RefusalsKept
  <2>3. ASSUME NEW p \in Password, NEW b \in exports,
               OpenCurrent(i, p, b) \/ OpenLegacy(i, p, b) \/ OpenRefused(i, p, b)
        PROVE  Promised
    BY <1>0, <1>1, <2>3, OpenIsRestore, RekeyIsQuiet, OpenRefusedForPassword
  <2>4. ASSUME NEW p \in Password, NEW q \in Password,
               \/ ChangePassword(i, p, q) \/ ChangePasswordRefused(i, p, q)
               \/ KeySetupFails(i, p, q)
        PROVE  Promised
    BY <1>0, <1>1, <2>4, RekeyIsQuiet, RefusalsKept, SetupBreaks
  <2>5. ASSUME NEW n \in Name, Retrieve(i, n) \/ Remove(i, n) PROVE Promised
    BY <1>0, <1>1, <2>5, RetrieveIsGet, RemoveIsDelete
  <2>6. ASSUME NEW n \in Name, NEW x \in Value,
               Store(i, n, x) \/ StoreRefused(i, n, x) \/ StoreWastesCounter(i, n, x)
        PROVE  Promised
    BY <1>0, <1>1, <2>6, StoreIsPut, StoreRefusalsKept
  <2>7. CASE Export(i) \/ ExportTooLarge(i) \/ ExportOverflows(i) \/ ExportWastesCounter(i)
    BY <1>0, <1>1, <2>7, ExportIsSnapshot, ExportBreaks
  <2>8. CASE RekeyEntry(i) \/ RekeyAborts(i) \/ RekeyCommit(i)
    BY <1>0, <1>1, <2>8, RekeyIsQuiet, AbortBreaks, CommitKept
  <2>9. CASE Crash(i)
    BY <1>1, <2>9, CrashForgets
  <2> QED
    BY <2>1, <2>2, <2>3, <2>4, <2>5, <2>6, <2>7, <2>8, <2>9
<1> QED
  BY <1>0, <1>2, <1>3

\* No vaults, and the version 1 files as snapshots.
LEMMA PromiseAtTheStart == Init => Promise!SInit
<1> SUFFICES ASSUME Init PROVE Promise!SInit
  OBVIOUS
<1>1. \A i \in Inst : vault[i] = NULL
  BY DEF Init
<1>2. exports = LegacyFiles /\ ret = NULL
  BY DEF Init
<1> QED
  BY <1>1, <1>2 DEF Promise!SInit

\* Vault implements SecretStore, whenever the model value for `no vault' is no
\* function and hence no record: every call is one atomic step of a map from
\* names to values or changes nothing, with re-keying and the migration of
\* version 1 files taking effect at once, and every error has its cause
\* (src/vault/facade.rs).
THEOREM VaultKeepsPromise ==
    ASSUME NullIsNoFunction
    PROVE  Spec => KeepsPromise
<1>1. Init => RekeysKnown
  BY DEF Init, RekeysKnown
<1>2. Init => Promise!SInit
  BY PromiseAtTheStart
<1>3. IInv /\ RekeysKnown /\ [Next]_vars => RekeysKnown'
  BY StepKeepsRekeysKnown
<1>4. StepsKept /\ [Next]_vars => [Promise!SNext]_(Promise!svars)
  BY StepKeepsPromise DEF Promised
<1> QED
  BY <1>1, <1>2, <1>3, <1>4, IInvHolds, ExportsReopen, RekeysNeverRefused, PTL
     DEF Spec, KeepsPromise, Promise!SSpec, StepsKept
=============================================================================
