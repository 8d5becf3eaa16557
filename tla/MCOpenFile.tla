------------------------------ MODULE MCOpenFile ------------------------------
(***************************************************************************)
(* An instance of OpenFile for TLC: files of both versions, of other       *)
(* writers, and everything that one or two small accidents make of them.   *)
(***************************************************************************)
EXTENDS OpenFile, TLC

CONSTANTS p1, p2

H(version, salt, memory, passes, key_length) ==
    [version |-> version, kdf_salt |-> salt, kdf_memory_cost |-> memory,
     kdf_iterations |-> passes, key_length |-> key_length]

I(format, wellFormed, counterAhead) ==
    [format |-> format, wellFormed |-> wellFormed, counterAhead |-> counterAhead]

S(id, header, contents) ==
    [id |-> id, header |-> header, password |-> p1, index |-> contents]

\* 1, 2: written by this release, under one header and under two.  3: written
\* by 0.2.1.  4 to 7: authenticated, but inconsistent inside.  8 to 13: parameters at
\* the ends of their ranges and outside, and an unknown version.
MCSource ==
    {S(1, H(2, 1, 128, 4, 32), I(2, TRUE, TRUE)),
     S(2, H(2, 2, 128, 4, 32), I(2, TRUE, TRUE)),
     S(3, H(1, 1, 128, 4, 32), I(1, TRUE, TRUE)),
     S(4, H(2, 1, 128, 4, 32), I(2, FALSE, TRUE)),
     S(5, H(2, 1, 128, 4, 32), I(2, TRUE, FALSE)),
     S(6, H(1, 1, 128, 4, 32), I(1, TRUE, FALSE)),
     S(7, H(2, 1, 128, 4, 32), I(1, TRUE, TRUE)),
     S(8, H(2, 1, 256, 10, 32), I(2, TRUE, TRUE)),
     S(9, H(2, 1, 257, 4, 32), I(2, TRUE, TRUE)),
     S(10, H(2, 1, 32, 3, 32), I(2, TRUE, TRUE)),
     S(11, H(2, 1, 31, 4, 32), I(2, TRUE, TRUE)),
     S(12, H(2, 1, 128, 11, 16), I(2, TRUE, TRUE)),
     S(13, H(3, 1, 128, 4, 32), I(2, TRUE, TRUE))}

Counter == << [byte |-> 0], [byte |-> 1] >>

Written == {Layout(s, Counter) : s \in MCSource}

Cell == UNION {ToSet(f) : f \in Written} \cup Byte \cup {Blank}

\* The length field says something else.
Misstated(f) ==
    {LeBytes(n) \o SubSeq(f, HEADER_LEN_CELLS + 1, Len(f)) : n \in 0..(BASE * BASE - 1)}

\* A cell is changed, added or lost, or the end is.
Damaged(f, cells) ==
    {ReplaceAt(f, k, c) : k \in DOMAIN f, c \in cells}
    \cup {InsertAt(f, k, c) : k \in 1..(Len(f) + 1), c \in cells}
    \cup {RemoveAt(f, k) : k \in DOMAIN f}
    \cup {SubSeq(f, 1, k) : k \in 0..Len(f)}

\* Front of one file, rest of another.
Spliced(f) ==
    UNION {{SubSeq(f, 1, k) \o SubSeq(g, k + 1, Len(g)) : k \in DOMAIN f} : g \in Written}

\* One file of each version, which is damaged in every way.
Damageable == {Layout(s, Counter) : s \in {t \in MCSource : t.id \in {1, 3}}}

MCFile ==
    Written
    \cup UNION {Spliced(f) : f \in Written}
    \cup UNION {Damaged(f, Cell) : f \in Damageable}
    \cup UNION {UNION {Damaged(g, Byte \cup {Blank, f[Len(f)]}) : g \in Misstated(f)} :
                    f \in Damageable}
=============================================================================
