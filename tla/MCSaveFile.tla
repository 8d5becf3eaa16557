------------------------------ MODULE MCSaveFile ------------------------------
(* Instances of SaveFile for TLC. *)
EXTENDS SaveFile, TLC

\* Processes, and the random suffixes they draw, are interchangeable.
ProcessesAndSuffixes == Permutations(Process) \cup Permutations(Tmp)
=============================================================================
