----------------------------- MODULE MCIndexCodec -----------------------------
(***************************************************************************)
(* An instance of IndexCodec for TLC.  The widths of the fields are the    *)
(* real ones; ciphertexts are at most one byte longer than the shortest.   *)
(***************************************************************************)
EXTENDS IndexCodec, TLC

CONSTANT LongestInput

\* Every length up to one byte more than the longest encoding.
MCInputLen == 0..LongestInput

KeysAndCounters == Permutations(EntryKey) \cup Permutations(Counter)
=============================================================================
