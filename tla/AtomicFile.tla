------------------------------ MODULE AtomicFile ------------------------------
(***************************************************************************)
(* What Vault::save and Vault::load promise of the file at a path: its     *)
(* content is always one whole blob, or there is no file; a save replaces  *)
(* it in one step; a load returns what was there at one moment.  A power   *)
(* loss may bring back a content that was not settled on disk, never a     *)
(* mixture.                                                                *)
(***************************************************************************)
CONSTANTS
    Process,    \* callers of save and load
    Blob,       \* the blobs that may be saved
    NoFile,     \* there is no file at the path
    NULL

VARIABLES
    value,      \* the content of the file, or NoFile
    fallback,   \* the contents a power loss may leave, value among them
    view,       \* view[p]: the content that p's pending load has chosen, or NULL
    answer      \* answer[p]: what p's load returns, or NULL

vars == <<value, fallback, view, answer>>

Init ==
    /\ value = NoFile
    /\ fallback = {NoFile}
    /\ view = [p \in Process |-> NULL]
    /\ answer = [p \in Process |-> NULL]

Replace ==
    /\ value' \in Blob
    /\ fallback' = fallback \cup {value'}
    /\ UNCHANGED <<view, answer>>

Settle ==
    /\ fallback' = {value}
    /\ UNCHANGED <<value, view, answer>>

PowerLoss ==
    /\ value' \in fallback
    /\ fallback' = {value'}
    /\ view' = [p \in Process |-> NULL]
    /\ answer' = [p \in Process |-> NULL]

Look(p) ==
    /\ view[p] = NULL
    /\ value # NoFile
    /\ view' = [view EXCEPT ![p] = value]
    /\ UNCHANGED <<value, fallback, answer>>

Answer(p) ==
    /\ view[p] # NULL
    /\ answer[p] = NULL
    /\ answer' = [answer EXCEPT ![p] = view[p]]
    /\ UNCHANGED <<value, fallback, view>>

\* The caller has the answer, or the load failed or its process died.
Forget(p) ==
    /\ view' = [view EXCEPT ![p] = NULL]
    /\ answer' = [answer EXCEPT ![p] = NULL]
    /\ UNCHANGED <<value, fallback>>

Next ==
    \/ Replace
    \/ Settle
    \/ PowerLoss
    \/ \E p \in Process : Look(p) \/ Answer(p) \/ Forget(p)

FSpec == Init /\ [][Next]_vars
=============================================================================
