# memseal in TLA+

A verification project for the memseal crate: an encrypted vault of named
secrets that is kept in memory, exported to bytes, and saved to a file. Paths
below are relative to the crate's root.

* [Inventory](#inventory)
* [Modules](#modules)
* [Runs](#runs)
* [Bounds and abstractions](#bounds-and-abstractions)
* [Proofs](#proofs)
* [Findings](#findings)
* [What is not modelled](#what-is-not-modelled)
* [Plan](#plan)

## Inventory

| Component | State | Operations | What makes it correct |
| --- | --- | --- | --- |
| Vault facade (`src/vault/facade.rs`) | a header and an index | `create`, `open`, `store`, `retrieve`, `with_secret`, `remove`, `export`, `change_password`, `rekey` | each call acts as one step on a map, or fails and changes nothing the caller can see; what is exported can be opened |
| VaultIndex (`src/vault/vault_index.rs`) | map of entries, index nonce, `nonce_counter`, `data_nonce_counter`, two subkeys | `advance_nonce`, `next_data_nonce_counter`, `insert_by_key`, `remove_by_key`, `from_subkeys_and_data` | counters only grow and never wrap; the data counter is past every entry; no nonce is used twice |
| save and load (`src/vault/facade.rs`) | a file, a temporary file, a directory | `save`, `load` | the path always holds one whole blob; no temporary file is left; a save on disk stays |
| Index codec, version 2 (`src/vault/index_codec.rs`) | none | `encode_index`, `decode_index` | the decoder accepts what the encoder writes, and nothing out of bounds |
| Version 1 decoder and migration | none | `decode_index_v1`, then `rekey` | an old file opens with its contents and is never written again in its format |
| Envelope and header (`facade.rs`, `vault_header.rs`) | none | `parse_envelope`, `validate_header` | every length is checked before it is used |
| Key derivation, AEAD, random numbers | none | `derive_master_key`, `derive_subkeys`, `seal_with_aad`, `open_with_aad`, `secure_bytes_fill` | assumed: treated symbolically |
| LockedSecret (`src/mem/locked_secret.rs`) | pages of locked memory | `new`, `with_bytes`, `drop` | one container's release never unlocks another |
| Error mapping (`src/vault/vault_error.rs`) | none | `From` | the variant names the cause |

**How they interact.** A call on `Vault` borrows it mutably, so calls on one
object never overlap; the facade calls the index, the codec and the AEAD in
turn. Objects share nothing in memory. They meet through bytes: two objects
opened from the same blob are forks with equal counters and the same key, in
one process or in several, and a process may reopen any file it still has,
also an older one. Files are where processes really interleave: `save` and
`load` on one path are sequences of system calls.

**What is hard.** A call changes a counter before it can still fail (`store`,
`export`). Re-keying is a loop that may fail, or die with its process, after
any entry. Counters have an upper end. The limits of `store`, of `export` and
of the decoder have to agree, or a vault could be written and not read.
Version 1 files add a second path into all of this. In `save`, power may be
lost between any two system calls, and temporary names may collide.

## Modules

| Module | What it is |
| --- | --- |
| `VaultData` | keys, ciphertexts, entries, index, limits: the data of a vault and what the codecs accept |
| `Vault` | vault objects and the blobs they export; the properties; the refinement of `SecretStore` |
| `SecretStore` | abstract: a password and a map per object, snapshots that can be restored, and the errors a caller may see |
| `SaveFile` | `save` and `load` on one path, a system call a step; the refinement of `AtomicFile` |
| `AtomicFile` | abstract: a file replaced in one step and read in one glance, and what a power loss may bring back |
| `VaultFile` | `Vault` composed with `AtomicFile`: objects that load from and save to one path |
| `IndexCodec` | `encode_index`, and the cursor of `decode_index` over any input |
| `LegacyIndex` | `decode_index_v1` over JSON documents |
| `OpenFile` | `open` on bytes of any origin: `parse_envelope`, `validate_header` and the steps that follow |
| `LockedMemory` | `LockedSecret::new` and its drop, for several vaults of one process |
| `MCVault`, `MCSaveFile`, `MCVaultFile`, `MCIndexCodec`, `MCLegacyIndex`, `MCOpenFile` | the instances TLC checks (`LockedMemory` needs no module of its own) |
| `VaultProofs` | theorems of `Vault`: types, soundness of every map, what open and re-key answer; then nonces, counters and (name, counter) pairs over a history |
| `VaultPromiseProofs` | `Vault` implements `SecretStore`: the theorem |
| `VaultFileProofs`, `SaveFileProofs`, `IndexCodecProofs`, `LegacyIndexProofs`, `OpenFileProofs`, `LockedMemoryProofs` | theorems of the module each is named after |

The modules meet in three places. `SaveFile` implements `AtomicFile`, which is
why `VaultFile` may use `AtomicFile` in its place. `VaultData` says of the
decoders only what they accept; `IndexCodec`, `LegacyIndex` and `OpenFile` say
how they come to that. `Vault` has one step for "setting up a key fails";
`LockedMemory` has the steps in which it does.

**Vault.** `vault[i]` is the object at place `i`, a record of the fields of
`Vault` and `VaultIndex`. The map from HMAC keys to entries is a function.
`rekey[i]` holds the locals of a pending `rekey`: the old vault, the new one
and the entries still to do, in any order, as the iteration order of a hash map
is arbitrary. `exports` is every blob a call ever returned; opening chooses any
of them. `ret` is the last result. `seen` and `ancestry` are history: the blobs
an object descends from.

A public call is one action, with the early returns as actions of their own:
`Store`, `StoreRefused` (a limit, found before anything changes) and
`StoreWastesCounter` (the generator fails or the map is full: the counter has
advanced) are the three ways through `store`. `Export`, `ExportOverflows`,
`ExportWastesCounter` and `ExportTooLarge` are those through `export`.
`change_password` and opening a version 1 file begin a re-key; `RekeyEntry`,
`RekeyAborts` and `RekeyCommit` are its loop. `Crash` drops an object or kills
its process, in the middle of a re-key too. `KeySetupFails` is the failure of
the KDF, the generator or the locked memory while a key is set up.

**SaveFile.** `job[p]` is where process `p` is in `save` or `load`, with the
call's locals. `dir` is the directory as processes see it and `durable` the set
of directories a power loss may leave. `file[f]` is what file `f` holds and
`synced` says whether it is on disk. A blob is the number of the export call that made it,
and the file created for it has the same number. `Kill` and `PowerLoss` may
come between any two system calls, and every system call may fail.

**VaultFile.** The state of `Vault`, and `value`, `fallback` and `view` of
`AtomicFile`. `written` numbers the exported blobs, and `saving[i]` is a pending
`save`. `save` is `BeginSave` (the export), then `ReplacePath` or `SaveFails`,
then `SaveReturns` (with or without the directory's fsync); `SaveFailsEarly`
is an export that fails. `load` is `BeginLoad` and `FinishLoad`: what it opens
is what it saw, which may by then be old. An object is in the hands of one call
(`Ready`), and all objects go on between each other's steps. `Drop` and
`PowerLoss` come at any time. History, which no guard reads and no power loss
cuts: `order` is everything that ever was at the path, `undone` what a power loss
took away from there, `acked` the saves that returned Ok, `settled` those that
synced the directory, `missed[i]` what was put there since `i` took its copy, and
`clobbers` who replaced what it had missed.

**IndexCodec.** `len` and `pos` are the input's length and the cursor of
`Reader`. A field gets its value when it is read, so every input is met whose
fields hold values of the instance. There is one action for each kind of field,
in the order in which `decode_index` reads them, each with its checks;
`Truncated` is `take` at the end of the input. `USIZE` is the modulus of `usize`,
as the decoder multiplies a count that came from the input. `EncodeIndex` is
the encoder: the sequence of fields it writes.

**LegacyIndex.** `FromSlice` is serde's parse, in which the last of two members
of one name stays, followed by the checks on version and number. `TakeEntry`
is the loop's body; it takes any name that is left, as a `HashMap` is iterated
in arbitrary order. What stops at the first faulty entry must not depend on it.

**OpenFile.** `data` and `password` are the arguments of `open`. `Parse` is
`parse_envelope` as one step, written with the offsets of the code, its checks
in the code's order. `DeriveKeys`, `Authenticate`, `Decode`,
`FromSubkeysAndData` and `Rekey` follow; `derivations` records each run of
Argon2 and its parameters. `Source` is what writers have ever sealed, those of
other versions and careless ones among them. The properties do not use the
offsets: they say what a whole file is by its layout.

**LockedMemory.** `allocated`, `locked` and `bytes` are the pages of the process,
`vault[i]` the two containers of an open vault, `call[i]` a pending call with its
locals: containers it has built (`got`), the vault read from a version 1 file
(`base`), containers on their way out (`gone`), the page in hand. `MallocSized`,
`Mlock`/`MlockFails`, `CopyFromSlice` are the steps of `LockedSecret::new`, run
twice for a pair of subkeys; `Zeroize` and `FreeRegion` are those of its drop.
`ReturnVault`, `RekeyLegacy`, `ReplaceIndex` and `ReencryptFails` say what the
calls of the facade do with a pair. memsec is external.

Definitions whose name begins with `Slip` are deliberate mistakes. They are
used by no action; each is put in the place of the definition below it to see
that a property notices.

## Runs

| Run | Question | What it shows |
| --- | --- | --- |
| `forks` (`MCVaultForks.cfg`) | two objects opened from each other's files, with counters that reach their end | nonces are unique over all ciphertexts of a key, whatever forked, failed or was reopened; along one line of files no (name, counter) pair is issued twice; counters are monotonic; every entry opens |
| `limits` (`MCVaultLimits.cfg`) | one object with names, values, entries and files at and past every limit | what `export` accepts, `open` accepts, and a wrong password is never reported as corruption; a re-key meets no limit once it has begun; `Vault` implements `SecretStore` |
| `legacy` (`MCVaultLegacy.cfg`) | a version 1 file with two entries, a padding entry and a gap in its counters | migration keeps the contents, may fail after any entry, and leaves no way to write version 1 |
| `save` (`MCSaveFile.cfg`) | two processes, three saves in two writes each, loads at any time, failures, kills and power losses | the path holds a whole blob at all times; temporary names are owned by one save and cleaned up; a save whose directory fsync succeeded stays; `SaveFile` implements `AtomicFile` |
| `save_ends` (`MCSaveFileLive.cfg`) | two processes that compete for one temporary name, which a killed one may leave behind for ever | every save and every load comes to an end |
| `save_durable` (`MCSaveFileOk.cfg`) | does a save that returned Ok survive a power loss? | no: see Findings |
| `vault_file` (`MCVaultFile.cfg`) | two objects load, edit and save one path | an acknowledged save is lost only to a saver that had missed it, or to a power loss before its directory was synced; a file that was lost to neither has a smaller index nonce counter than all that come to the path after it |
| `vault_file_serial` (`MCVaultFileSerial.cfg`) | one object at a time, with longer histories: stores, removals, failed saves, deaths, reloads of what a power loss brought back | no (name, counter) pair of a file that no power loss undid comes to the path again with other contents |
| `codec` (`MCIndexCodec.cfg`) | `decode_index` on inputs of every length, with counts and lengths on both sides of their bounds | it accepts what `encode_index` writes and nothing else, and reserves no more than the input can fill |
| `legacy_index` (`MCLegacyIndex.cfg`) | documents with repeated names, padding, incomplete and oversized entries, in every order | no real entry is lost, and padding never has a document rejected |
| `open_file` (`MCOpenFile.cfg`) | whole files, each damaged in one or two places, or spliced from two | only whole files open; the error names the fault; an unauthenticated file costs at most one Argon2 within the policy |
| `locked` (`LockedMemory.cfg`) | two vaults of one process with memory and a quota for one re-key | a key is on a locked page of its own all its life, failures leak nothing, no call waits for another |

`NoAadReissued` is stated along one line of files. When a caller goes back to
an older file, the pairs issued after it are issued again: the entries differ,
the nonces are random, and `NonceUnique` covers them over all lines; it leaves
out the keys of version 1 files, as releases before 0.1.6 took nonces from
counters (`CHANGELOG.md`) and nothing is sealed under those keys any more. The crate
offers no protection against rollback (`README.md`, Rollback protection).

`VaultFile` asks the same of what a caller sees who only ever saves and loads.
Two objects on one path do lose updates, as nothing locks the file; `DESIGN.md`
section 1 leaves several writers out. `NoLostUpdate` shows that this is the only
way while power stays on: an acknowledged save is part of what is at the path,
or was replaced by an object that had taken its copy before. A power loss undoes
it only if its directory was not synced.

`CounterTellsGenerations` and `AadFreshOnPath` compare each file that was ever at the
path with all that came there later, through failed saves, deaths and power
losses. They promise something for files that were *kept*: not undone by a power
loss, and not replaced by an object that had missed them. No more can be promised.
A save whose directory fsync fails returns Ok, and a power loss may then take its file away;
whoever loads what is at the path now cannot know of it, and issues its nonce counter and its
(name, counter) pairs a second time: the counter does not tell the undone file, if a copy of
it exists, from a newer generation, and two entries share their associated data.
`NonceUnique` does not depend on this, as nonces are random. The undone
file itself is on the later side of both properties: it never repeats what was kept before it.

The refinement of `SecretStore` maps a vault to its decrypted contents. A
pending re-key maps to the old vault, so a password change takes effect in
`RekeyCommit` and a failed one changes nothing. An error of the detailed
module must be one that the abstract module allows in that state: a limit or a
wrong password is only reported when there is one, and so is a file that would
be too large (`SerializationError`). `CryptoError` stands for the machine and
may come from any call that draws, derives or counts; `CorruptedData` is never
allowed for what a vault exported.

## Bounds and abstractions

* **Cryptography is symbolic.** A key is the pair of password and header, an
  entry key the pair of key and name, and a ciphertext the record of what was
  sealed. Collisions and forgeries do not happen. The blobs that `Vault` and
  `VaultFile` open are those that were exported; altered bytes are in `OpenFile`.
* **Random numbers** are counted: two draws never agree. `SaveFile` is the
  exception: temporary suffixes collide there, since its hazard is the collision.
* **`MaxDraws`, `MaxExports`** bound a behaviour of `Vault`. Eight draws and
  three blobs are enough for two objects to open one blob, to store on both
  sides, to export again and to change the password, in any order.
* In **`VaultFile`** two objects and three saves are enough for one to miss what
  the other saved and to overwrite it, and for a save to be undone and its counter
  issued again. Creating a vault takes two draws, an export one, a store two: six are
  enough for three saves of one vault and one more that fails, for two saves and a store between
  them, or for two vaults with headers of their own. The serial run has nine, and so stores,
  removals and failed saves between its three saves. `change_password` is
  left out: it begins a line of files with a salt of its own, and `Vault` has it.
* **`MAX_U64`** is 2 in `forks`, so both counters reach their end; the entry cap
  is 2 there. In `limits` it is 1, and a full map with an ordinary value fills a
  file to the last byte, so that one with the largest value is legal and yet too large.
* **`WithoutResult`** leaves `ret` out of TLC's fingerprint, and `WithoutAnswers`
  also `acked` and `settled` in the serial run. No guard and no invariant of the
  run reads them, and action properties are evaluated on every transition, so
  nothing is lost. **Symmetry**: forks, names, passwords, processes and
  suffixes are interchangeable; nothing chooses among them but the instance's
  lengths, and the names and passwords with lengths of their own are excluded.
* **The file system** is external: a rename is atomic, directory operations
  reach the disk in order and at the latest with an fsync of the directory, and a
  file that was not synced may be cut anywhere by a power loss. Two chunks make
  torn and mixed files possible; three saves make an old blob and two
  competing new ones.
* **`IndexCodec`**: the cap is three entries, names have length 0 and values
  at most 1, so that each length has a value below, at and above its bounds.
  410 bytes are more than three of the largest entries and something behind
  them. `USIZE` is 4096: 32 entries of the least length are 0 modulo it.
* **`LegacyIndex`**: three members under three names, one of which is no HMAC
  key; the cap is 2. Entries have a name or value missing, too short, too long,
  or are padding.
* **`OpenFile`**: a cell stands for some bytes. There are two for the header's
  length, two for a header (so that it can be cut or spelled differently), two for a
  nonce, two for the counter of version 1, three for a ciphertext. A length field
  counts in two digits of base 4, and a cell of other contents reads there as the
  digit 3, which is past every length that is accepted. The thirteen
  sources have KDF parameters at both ends of their ranges and past them, an
  unknown version, and indexes that are malformed, behind in their counter or
  of the other format. One file of each version is damaged at every place by
  every cell; files with a wrong length field are damaged once more.
* **`LockedMemory`**: a re-key holds four pages, so two vaults on five pages
  with a quota of four run out of pages and out of quota, alone or because
  of each other. More pages only make failures rarer.
* **No symmetry** in the runs with a liveness property, where it is unsound.

### Fairness

Liveness is checked in two modules. `SaveFile!FairSpec` and
`LockedMemory!FairSpec` assume weak fairness of *some* step of a process (or
thread) that is inside a call: the operating system runs it, and every system
call returns, successfully or not. Which step, and whether it succeeds, is left
open: a save may fail each time. Weak fairness is enough, as no step of a call
has a guard that another process can falsify for good; in fact that is what
`CallsEnd` and `CallsReturn` are about. Beginning a call, kills and power losses are
not fair: nobody has to call, and nothing has to break. The other modules state safety
properties, or refinements of a specification without fairness, and assume none.

## Proofs

Every safety invariant and every action property of a passing run is a theorem,
and so are both refinements, of `AtomicFile` by `SaveFile` and of `SecretStore`
by `Vault`. The theorems hold for
any sets of objects, names, values, passwords, processes, files and inputs, and
for any limits that satisfy the assumptions:

| Assumption | Says |
| --- | --- |
| `LengthsAssumption`, `LimitsAssumption` | lengths and limits are naturals, and the counters can count a full map (1024 against 2^64) |
| `LegacyAssumption` | a version 1 file is as 0.2.1 wrote it, whole, with its counter past its entries (`IsLegacyFile`) |
| `ChunksAssumption`, `NamesAssumption` | a blob takes at least one write; the path is no temporary name, `NULL` no file |
| `CodecAssumption` | limits are naturals, input lengths and the lengths in an input fit `usize`, and so does the least length of a full index (1024 entries of 128 bytes) |
| `DocumentAssumption` | the members of a document are a sequence |
| `KdfPolicyAssumption`, `FormatAssumption` | the KDF defaults are within their ranges (`constants.rs` pins them), a header's fields are numbers and a salt, files are sequences |
| `MemoryAssumption` | pages and vaults are finite in number, the quota is a natural |

TLC evaluates each of them on the instances. What follows is the argument of each module.

**`VaultProofs`.** `TypeCorrect` has one lemma per action. The safety
properties are not inductive by themselves. That an export reopens needs
the map it was taken from to be within the decoder's limits, so the limits must
hold of every map in memory. That a re-key keeps them needs the old map to be
readable, and the version of a blob decides how its map is read. `IInv` is the
conjunction: every vault, both halves of every re-key, and every blob are
*sound* (counter ahead, every entry well sealed, map within limits), and what is
in memory is current. The induction then says what a step does to a map:
`SoundStored` (one sealed entry more), `SoundRestricted` (one less),
`SoundOpenedVault` and `SoundExport` (a copy), `SoundLegacy` (a version 1 map
without its padding). `CounterStaysAhead`, `EntriesStayReadable`,
`FormatStaysCurrent` and `ExportsReopen` follow. For `RekeysNeverRefused` the
copies are counted (`CopiesCounted`): entries in the new map, its data counter
and the entries still to do always add up to the old map, which fits.

The second half of the module is about histories: two more inductions on top of
`IInv`. `NoncesNeverReused`: every ciphertext there is, in memory or in a blob, was sealed under a nonce that
has been drawn (`NoncesDrawn`), and what a step seals, it seals under nonces that
have not. `CountersNeverGoBack` and `PairsNeverReissued`: a vault *follows* every
blob it has seen and a blob *succeeds* its ancestors (`HInv`), in the counters if they
share a header, and in the pairs always. A re-key starts again from counter 0; that this
cannot meet an old pair needs that the salt of a pending re-key is in no other
vault and in no blob (`HeadersApart`), as a name's HMAC key depends on it.

**`VaultPromiseProofs`.** `VaultKeepsPromise`: every action of `Vault` is a step of
`SecretStore` on the decrypted contents, or leaves them alone. There is one lemma
for each action (`StoreIsPut`, `ExportIsSnapshot`, `OpenRefusedForPassword`,
`CommitKept`, ...), and three facts behind them:

* *Limits.* The code counts and measures encrypted entries, `SecretStore` names and
  values. A map has as many entries as its contents have names (`AsManyNames`), and
  both cost the same in a file (`SameFileLen`). The costs are folds over two
  different sets, each in an order of its own. That the order does not matter, and that
  renaming a set one to one keeps a sum, is proved without induction over data: by the
  smallest subset for which it would be false.
* *Re-keys.* `RekeysKnown`: a pending re-key still belongs to the call that began it,
  with the passwords of that call and the vault or snapshot it started from, and the new map
  holds exactly what is no longer to do. So `RekeyCommit` is one step of
  `ChangePassword` or `Restore`, although the copying took many.
* *Errors.* `ExportsReopen` leaves a wrong password as the only reason to refuse an
  export, and `RekeysNeverRefused` leaves the machine as the only reason to abort a re-key.

The theorem has one hypothesis of its own, `NullIsNoFunction`: `NULL`, the value for
"no vault", must not be equal to a record, or `SecretStore` could not tell an
open vault from none. It holds of a model value, as in the runs. It cannot be an
`ASSUME`, as TLC refuses to compute the domain of a model value.

**`SaveFileProofs`.** The invariant follows a save through its system calls:
until the rename its blob is in one file that no other save writes and
that the path has never been; from the rename on nobody writes that file; what the path
may fall back to is never older than the last settled save. `PromiseKept` shows
each system call to be a step of `AtomicFile` or a stutter: the rename replaces, the
`open` of a load takes the view, and the fsync of the directory forgets the fallbacks.

**`VaultFileProofs`.** Every step of `VaultFile` is one of `Vault`, or the end of
all objects at once, so the invariants of `Vault` carry over as they are. Then every
object can account for all that was ever at the path: it descends from it, has
missed it, or it was overwritten by one that had missed it, or undone (`Accounted`).
A power loss ends every object that would have to account for what it undoes. That
it takes back the end of the history and nothing settled is `PathHistory`: each blob
comes to the path once, what is there is the last that is not undone, and what may come
back is no older than any settled save.
The four theorems read this off, for any number of objects and saves.

**`IndexCodecProofs`.** First about the encoder: where each field of each entry
stands (`EncodedLen` and the positions are sums over the entries; facts about all
`k` are proved from the least `k` that would break them). Then the invariant of the decoder:
the entries it has read are the first ones of some encoding, and its cursor
stands where the encoder would be. With that, `DecoderStaysInside`,
`OnlyEncodingsDecode` and `EveryEncodingDecodes` are three readings of one state.

**`LegacyIndexProofs`.** `Progress` says what the loop has made of the names it
has taken, whatever their order; `LastPosition` says which of two members of one
name a document keeps.

**`OpenFileProofs`.** The offsets of `parse_envelope` and the layout that writers use meet
in two lemmas: `EnvelopeShape` says what an input is that passes the checks,
`WholeShape` what a file is that was written, cell for cell.

**`LockedMemoryProofs`.** The invariant gives every allocated page exactly one
purpose: a container of one vault, one on its way in or out of one call, or the page that
one call has in hand. What is locked and readable follows from the purpose,
so the steps of other threads cannot matter.

Only model-checked: the liveness properties `CallsEnd` and `CallsReturn`, which are
out of the prover's reach. `OkSurvives` is false (see Findings).

## Findings

**A save that returned Ok may not be durable** (`save_durable`). The comment of
`save` says it "fsyncs the directory" (`src/vault/facade.rs:383`). The code ignores a
failure to open or to sync it, and skips the step on other platforms than
Unix (`src/vault/facade.rs:433`), and returns Ok. After a power loss the path then holds
what it held before. `SettledSurvives` shows that the order of the steps is
right: when the fsync did succeed, the save stays. The file is never damaged
either way (`PathWhole`).

## What is not modelled

* An entry name that is no UTF-8, which a re-key would refuse (`facade.rs:489`):
  names are strings when they are stored, so no writer has sealed one.
* The syntax of JSON: serde is external. `OpenFile` has fields in any order, white
  space and unknown text; `LegacyIndex` has repeated names and missing fields.
* Bytes inside a field: a key, a nonce or a ciphertext is one value.
* Guard pages, the canary and the exclusion from core dumps, which are
  memsec's; wiping of memory other than `LockedSecret`; timing of comparisons.
* The `0600` mode and symbolic links.
* A `change_password` between a load and a save (`VaultFile`): see Bounds.
* Fuzzing entry points and benchmarks: no state or behaviour of their own.

## Plan

Done: the modules in the order of the table above, their runs, and theorems for
every safety property, action property and refinement that a run checks. What a proof
could still add is the refinement of `SecretStore` for callers of `VaultFile`, whose
objects are those of `Vault`, and which the present theorem covers only up to the power losses
that end all objects at once.
