----------------------------- MODULE SecretStore -----------------------------
(***************************************************************************)
(* What a vault promises to its caller, with no cryptography, no counters  *)
(* and no steps inside a call: every open vault is a password and a map    *)
(* from names to values; an export is a copy of both that can be reopened  *)
(* at any later time with that password and no other; a call that fails    *)
(* changes nothing, and reports a limit or a wrong password only when      *)
(* there is one.  Vault.tla is shown to implement this.                    *)
(***************************************************************************)
EXTENDS FiniteSetsExt

CONSTANTS
    Inst,       \* vault objects, of one process or of several
    Name, Value, Password, NULL,
    NameLen, DataLen, PasswordLen,
    MIN_PASSWORD_LEN, MAX_ENTRY_NAME_LEN, MAX_ENTRY_DATA_SIZE,
    MAX_INDEX_ENTRIES, MAX_VAULT_FILE_SIZE, HeaderJsonLen,
    OldSnapshots        \* what files of releases up to 0.2.1 hold

VARIABLES
    store,      \* store[i]: NULL or [password, contents]
    snapshots,  \* the set of [password, contents] exported so far
    ret         \* the result of the last call that returned

svars == <<store, snapshots, ret>>

Returns(i, call, result, value) ==
    ret' = [inst |-> i, call |-> call, result |-> result, value |-> value]

LongEnough(password) == PasswordLen[password] >= MIN_PASSWORD_LEN

Empty == [n \in {} |-> NULL]

\* An exported file costs its plaintexts, 128 bytes and the name for each
\* entry, and the envelope.
FileLen(contents) ==
    66 + HeaderJsonLen
       + SumFunction([n \in DOMAIN contents |->
                        128 + NameLen[n] + DataLen[contents[n]]])

Fits(contents) == FileLen(contents) <= MAX_VAULT_FILE_SIZE

\* An existing name may be overwritten at the cap.
WithinLimits(contents, n, x) ==
    /\ NameLen[n] <= MAX_ENTRY_NAME_LEN
    /\ DataLen[x] <= MAX_ENTRY_DATA_SIZE
    /\ \/ n \in DOMAIN contents
       \/ Cardinality(DOMAIN contents) < MAX_INDEX_ENTRIES

SInit ==
    /\ store = [i \in Inst |-> NULL]
    /\ snapshots = OldSnapshots
    /\ ret = NULL

New(i, password) ==
    /\ Returns(i, <<"create", password>>, "Ok", NULL)
    /\ store[i] = NULL
    /\ LongEnough(password)
    /\ store' = [store EXCEPT ![i] = [password |-> password, contents |-> Empty]]
    /\ UNCHANGED snapshots

Put(i, n, x) ==
    /\ Returns(i, <<"store", n, x>>, "Ok", NULL)
    /\ store[i] # NULL
    /\ WithinLimits(store[i].contents, n, x)
    /\ store' = [store EXCEPT ![i].contents =
                    [m \in DOMAIN @ \cup {n} |-> IF m = n THEN x ELSE @[m]]]
    /\ UNCHANGED snapshots

\* NULL stands for `no secret of that name'.
Get(i, n) ==
    /\ store[i] # NULL
    /\ Returns(i, <<"retrieve", n>>, "Ok", IF n \in DOMAIN store[i].contents
                            THEN store[i].contents[n] ELSE NULL)
    /\ UNCHANGED <<store, snapshots>>

Delete(i, n) ==
    /\ store[i] # NULL
    /\ Returns(i, <<"remove", n>>, "Ok", n \in DOMAIN store[i].contents)
    /\ store' = [store EXCEPT ![i].contents = Restrict(@, DOMAIN @ \ {n})]
    /\ UNCHANGED snapshots

Snapshot(i) ==
    /\ Returns(i, <<"export">>, "Ok", NULL)
    /\ store[i] # NULL
    /\ Fits(store[i].contents)
    /\ snapshots' = snapshots \cup {store[i]}
    /\ UNCHANGED store

Restore(i, p, s) ==
    /\ Returns(i, <<"open", p>>, "Ok", NULL)
    /\ store[i] = NULL
    /\ s \in snapshots
    /\ s.password = p
    /\ store' = [store EXCEPT ![i] = s]
    /\ UNCHANGED snapshots

ChangePassword(i, current, new) ==
    /\ store[i] # NULL
    /\ Returns(i, <<"change_password", current, new>>, "Ok", NULL)
    /\ store[i].password = current
    /\ LongEnough(new)
    /\ store' = [store EXCEPT ![i].password = new]
    /\ UNCHANGED snapshots

\* The vault is dropped, or its process dies, with or without a call pending.
Forget(i) ==
    /\ store' = [store EXCEPT ![i] = NULL]
    /\ UNCHANGED <<snapshots, ret>>

-----------------------------------------------------------------------------
(***************************************************************************)
(* Failures.  Random numbers, locked memory, the KDF and the counters may  *)
(* fail in any call.  Every other error has a cause the caller can see; in *)
(* particular nothing a vault exported is ever reported as corrupted.      *)
(***************************************************************************)
Fails(i, call, error) ==
    /\ Returns(i, call, error, NULL)
    /\ UNCHANGED <<store, snapshots>>

CreateRefused(i, password) ==
    /\ Fails(i, <<"create", password>>, "InvalidInput")
    /\ ~LongEnough(password)

RestoreRefused(i, password, s) ==
    /\ Fails(i, <<"open", password>>, "InvalidPassword")
    /\ s.password # password

PutRefused(i, n, x) ==
    /\ Fails(i, <<"store", n, x>>, "InvalidInput")
    /\ store[i] # NULL
    /\ ~WithinLimits(store[i].contents, n, x)

SnapshotRefused(i) ==
    /\ Fails(i, <<"export">>, "SerializationError")
    /\ store[i] # NULL
    /\ ~Fits(store[i].contents)

ChangePasswordRefused(i, current, new) ==
    /\ LET call == <<"change_password", current, new>> IN
       IF ~LongEnough(new) THEN Fails(i, call, "InvalidInput")
                           ELSE Fails(i, call, "InvalidPassword")
    /\ store[i] # NULL
    /\ LongEnough(new) => store[i].password # current

\* retrieve and remove draw nothing, lock nothing and count nothing.
MayBreak ==
    {"create", "open"} \X Password
    \cup {"store"} \X Name \X Value
    \cup {"change_password"} \X Password \X Password
    \cup {<<"export">>}

-----------------------------------------------------------------------------
SNext ==
    \E i \in Inst :
        \/ \E p \in Password :
            \/ New(i, p)
            \/ CreateRefused(i, p)
            \/ \E s \in snapshots : Restore(i, p, s) \/ RestoreRefused(i, p, s)
            \/ \E q \in Password : \/ ChangePassword(i, p, q)
                                   \/ ChangePasswordRefused(i, p, q)
        \/ \E n \in Name : \/ Get(i, n)
                           \/ Delete(i, n)
                           \/ \E x \in Value : Put(i, n, x) \/ PutRefused(i, n, x)
        \/ Snapshot(i)
        \/ SnapshotRefused(i)
        \/ Forget(i)
        \/ \E call \in MayBreak : Fails(i, call, "CryptoError")

SSpec == SInit /\ [][SNext]_svars
=============================================================================
