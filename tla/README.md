# Verification of the EDW core

TLA+ models of `crates/core` and `crates/cli`, checked with TLC on small
instances, and theorems about them checked with TLAPS. Paths below are
relative to the repository; `core/` stands for `crates/core/src/`, `cli/` for
`crates/cli/src/`, and `tornado/` for `core/vault/tornadocash/`.

## 1. The system

The wallet is a command line (`cli/`) over a library (`core/`). There is no
daemon: every command is a process of its own, several may run at once, and
what they share is one directory of files per network, the chain, the bundlers
and the indexer. Concurrency therefore means processes over one key/value
store, plus async tasks inside a process; every `await` can fail, be cancelled
or be the last thing the process does.

| component | state | operations | correctness |
| --- | --- | --- | --- |
| Tornado vault (`tornado/mod.rs`, `db.rs`) | `nextNonce`, `trackedPools`, per pool: cursor, snapshot chunks, notes; a cache of Merkle trees | `prepare_deposits`, `sync`, `recover`, `notes`, `balance`, `clear_pending`, `withdrawal_inputs` | nonces are never reused, records precede calldata, snapshots hold every event once, notes agree with the chain |
| syncers (`tornado/syncer.rs`, `core/network/logs.rs`) | none | `sync_range` over an endpoint, or over a CDN ("saga") and an endpoint | the answer has no gap and no overlap |
| amount planning (`tornado/amount.rs`) | none | deposit denominations, note selection, sponsoring note | exact, fewest notes or least sum, one sponsor |
| withdrawal operations (`tornado/userop.rs`, `estimation.rs`) | the quote under way | quote until settled, prove, submit, wait, measure | the money adds up, the fee in the proof covers the gas, a quote gives no ETH note away |
| databases (`core/database/`) | one file per record; an operation lock | `get`, `put`, `delete`, `lock` | a published record is complete |
| encrypted store (`core/database/encrypted.rs`) | header with key slots, sealed records | create, unlock, change password | one data key for the life of a store |
| instance (`core/instance/`) | the store of a network, its RPC configs, bundlers, indexer | open or create, network and service configuration | what is configured stays usable |
| profiles (`core/keyring.rs`, `core/profile/`, `core/instance/profiles.rs`, `vaults.rs`) | mnemonics, index, names, vault lists | import, create, rename, add vaults | index, pointers and keyring agree |
| fresh addresses (`core/instance/address.rs`, `cli/unshield.rs`) | the vault's largest used index | derive, scan, commit | an address is not given out twice |
| assets (`core/asset/`) | registered tokens; opted-in and opted-out lists of a profile | opt in, opt out, list | what a profile opted into is registered |
| balances (`core/balance.rs`, `cli/balance.rs`) | none | read vaults and notes, add up | a report called complete is complete |
| bundlers (`core/bundler.rs`) | ordered list of URLs | estimate, send, wait | an accepted operation is followed up where it was accepted |
| broadcast, executor, delegation (`core/broadcast.rs`, `executor/`, `delegate/`, `contracts/`) | nonces, the account's delegation | send, batch, authorise | a batch is all or nothing where it claims to be |
| session (`cli/session.rs`, `unlock.rs`, `global_args.rs`) | the unlocked password and its deadline | hold, load (renews), clear, open | a cleared or expired session is gone |
| account commands (`cli/shield.rs`, `transfer.rs`, `unshield.rs`, `spend.rs`) | none | plan, confirm, send, report | success means it happened, a shield happens whole or not at all |

How they interact. A command opens the instance of a network (through the
session or a password), which unlocks the encrypted store over the file
database. A profile's vaults get scoped views of that one store, and one
operation lock for the directory, which only the Tornado vault takes. Deposit
calldata that the vault returns is given to broadcast or to a bundler, after
which nothing in the vault waits for it: whether it is mined shows up in a later
sync. Withdrawals take a Merkle proof from the vault and a quote from a bundler
and are submitted as user operations.

What is hard: operations of several processes on the same records; failures
between two writes of one operation; endpoints that lag behind each other;
calldata mined long after it was prepared, or never; a tree cached by one task
while another syncs; fees that move while a proof commits to them; retries
through a list of bundlers. `PROJECT.json` lists each hazard at its line.

## 2. The project

Each component has a module, an MC module with its instances, and the runs of
`PROJECT.json`. Twelve runs, of which two show findings.

| module | models | runs | proofs |
| --- | --- | --- | --- |
| `TornadoVault` | the vault's operations on its database (section 3) | `vault_shared`, `vault_lagging`, `vault_recovery`, `vault_listed` | `TornadoVaultProofs` |
| `NonceLedger` | what callers may rely on: abstract specification | `vault_shared` | refinement in `TornadoVaultProofs` |
| `ChainedSyncer`, `WithdrawalTree` | the syncers, and the tree cache over them (4) | `withdrawal_tree` | `WithdrawalTreeProofs` |
| `FileDatabase` | one record of the file database (5) | `file_locked` | `FileDatabaseProofs` |
| `DurableRegister` | what its callers may believe: abstract specification | `file_locked` | refinement in `FileDatabaseProofs` |
| `ProfileStore` | keyring, profile index, names (6) | `profiles` | `ProfileStoreProofs` |
| `FreshAccounts` | fresh addresses, scan, address vaults (7) | `accounts`, `accounts_early` | `FreshAccountsProofs` |
| `Amounts`, `Withdrawals` | note selection, withdrawals, bundlers (8) | `withdrawals` | `WithdrawalsProofs` |
| `Broadcasts`, over `Amounts` | transactions, delegation, shield, transfer (9) | `broadcasts` | `BroadcastsProofs` |
| `Settings`, `Home` | configuration, assets, balances; stores and the session (10) | `home` | `HomeProofs` |

## 3. The Tornado vault

`TornadoVault.tla` models `tornado/mod.rs` and `db.rs`. `Proc` are processes
(or vault instances) over one database. An operation takes the operation lock
(`Start`, mod.rs:204), then runs as the chain of its awaited steps, each of them
an action, with every database write an action of its own; `task[q]` holds the
local variables that survive an await. `Abort` is a step of every operation at
every point: an error returned by an await, a dropped future, or the end of the
process. It releases the lock, since the guard is dropped, and leaves the
database as the writes so far have made it; a restarted process is one that is
idle again. `MineDeposit` and `MineWithdrawal` are the chain: any deposit that was
ever returned may be mined later, once, and any mined deposit may be withdrawn.

| operation | steps |
| --- | --- |
| `prepare_deposits` (406) | `PrepareDeposits`, `Track`, then per pool `ReserveNonce` (or `Exhausted`), `BurnNonce`, `LoadNotes`, `PutPending`; `ReturnCalls` |
| `sync` (250) | `Sync`, `ReadHeight`, then per pool `SyncPool`, `PutSnapshot`, `LoadNotes`, `PutApplied`, `CommitSnapshot`; `Synced`, `Return` |
| `notes` (426), `balance` (539) | the same over the tracked pools |
| `recover` (273) | `Recover`, `Track`, the sync, `Scan`, `PublishMark`, per pool `NextPool`, `LoadNotes`, `PutRestored`; `LoopEnds`, `Return` |
| `clear_pending` (442) | `ClearPending`, the sync, per pool `NextPool`, `LoadNotes`, `PutCleared`; `LoopEnds`, `Return` |

Abstractions. A note is its pool and nonce, since commitment and nullifier hash
are injective in them; a leaf index is whether there is one; a pool list is a
bag, because its repetitions matter and its order does not; a snapshot is its
block range, because the chain only grows and a range then determines its
events. Blocks hold one event each. `Lagging` says whether endpoints may answer
from behind the head (`SyncedTo`, syncer.rs:116-128). `History` is what an earlier
installation of the same seed left on chain. External: the pools' contracts, and
kohaku's `recover` (its gap rule is `Reached`). Not in this module: the cache of
Merkle trees, and reorganisations of the chain, which the code does not handle.

`NonceLedger.tla` is what callers may rely on: a counter that only goes up, and
deposits handed out with nonces below it that no other deposit has. `LedgerSpec`
is that specification with the database's counter for its own.

### Runs

| run | instance | shows |
| --- | --- | --- |
| `vault_shared` | 2 processes, 2 pools, 2 nonces, no blocks | what two processes do to the counter, the records and the lock |
| `vault_lagging` | 1 process, 1 pool, 2 nonces, 3 blocks, lagging endpoints, gap 1 | what interrupted and short syncs do to chunks and notes |
| `vault_recovery` | 1 process, 2 pools, 3 nonces, 3 blocks of which 2 are history, gap 2 | what recovery finds, and that it never harms the counter |
| `vault_listed` | 1 process, 2 pools, no blocks | finding 1 |

(Section 4 has the runs of the tree cache.)

Bounds. `MaxNonce` is u64::MAX scaled down, so exhaustion happens in every run;
two nonces are the fewest that can collide or be reordered and three leave room for
a gap. Two processes suffice for a race because the lock admits one at a time;
once that is checked, one process with `Abort` gives every interleaving the
database can see, so the longer chains are run with one. Three blocks hold a
deposit, another deposit and a withdrawal, in chunks of every division. No run
checks for deadlock: operations start when a user asks, and chain and counter are
bounded, so a state in which nothing more happens is legitimate. That an operation
cannot get stuck half-way, except on an endpoint that never answers, is
`OperationsEnd`.

Fairness. `FairSpec` is fair to the steps of an operation between its requests only:
computation, and awaits of files. It says nothing of a step that awaits an
endpoint (`Awaits`: the height of the chain, the events of a pool), because the RPC
client has no timeout (network/http.rs:18, network/alloy.rs:166-183), so the code
does not bound the wait. `OperationsEnd` therefore has two parts. With `FairSpec`
alone an operation gives the lock back or comes to wait for an endpoint. If, besides, every
endpoint answers in the end, with an answer or an error (`EndpointsAnswer`, an assumption about
endpoints and not about this code), it gives the lock back. One endpoint that never
answers keeps the operation and the lock, and so every process's vault operations,
for ever: mod.rs:254-260 awaits the height under the lock. Nothing is assumed of users or
of the chain. Fairness of `Step(q)` does not force `Abort`: a process stuck with no
step would refute the property.

`MarksNeverLost` is checked with endpoints that do not lag. With `Lagging`, a
recovery whose own sync was answered from behind a block that an earlier,
interrupted sync had already applied to the notes replaces a spent record by an
unspent one until the next sync (mod.rs:343 overwrites what `apply_events` wrote
before its cursor moved). It heals by itself, and no document promises otherwise, so
it is recorded here and not as a finding. `NotesAgreeWithCursor` and
`OnlyUnminedForgotten` are about a fresh seed: before a first recovery, a seed with
history can prepare a nonce whose deposit is already on chain.

### Finding

1. `notes` lists notes twice. `track` (mod.rs:577-591) extends `trackedPools` by
   every repetition of an untracked pool, and `shield --prepare` passes one entry per
   note (`cli/shield.rs:155`). From then on `notes`, documented as "a list of every
   note derived from the vault's signer" (mod.rs:422), lists each note of that pool
   twice, and balances and note selection read that list. A balance called complete then
says more than is held (cli/balance.rs:371-396 folds the list as it is), and a
selection can take one note twice (amount.rs:156-190, 391-418 remove no repetition),
which the pool refuses. Sections 8 and 10 model both: they take the list as
`notes` returns it, with repetitions.

### Proofs

`TornadoVaultProofs.tla` proves, for every set of processes and pools, every
request and every bound, assuming only `ConstantAssumption`:

- `TypeCorrect`, `TypeInvariant`: types, together with `Shape`, which says what a task
  holds at which control point (a pool wherever one is read, for instance).
- `NonceSafety`, `RecordsBelow`, `LockExclusion`: the invariants of those names. None is
  inductive alone. A task reads the counter in one step and writes it in the
  next, so `NonceInv` adds `NonceShape`: at `burn` and `mark` the value read is still
  the counter (nobody else works, by the lock), after the write it is above every
  deposit handed out or about to be, and what a task read from the notes, or
  recognised in the snapshots, lies below the counter once it is published. `OthersIdle`
  is how the lock enters; `LocalStep`, `CounterStep`, `WriteStep` and `ReleaseStep`
  are the four shapes a step can have, and each action is an instance of one.
- `CounterMonotone` and `ImplementsLedger`: `LedgerStep` says that a step returns
  calls, moves the counter up, or touches neither, and each maps to a step of the
  ledger or to a stutter.

Its second half goes on to chunks, cursors, notes and recovery, again for any
numbers of processes, pools, nonces and blocks:

| theorem | property | hypothesis |
| --- | --- | --- |
| `RecordsComeFirst` | `RecordedBeforeExposed` | |
| `ChunksInOrder` | `ChunksHoldEventsOnce` | |
| `NotesFollowCursor` | `NotesAgreeWithCursor` | `History = <<>>`: a fresh seed |
| `MinedNotesKept` | `OnlyUnminedForgotten` | `History = <<>>` |
| `MarksKept` | `MarksNeverLost` | `~ Lagging` |
| `RecoveriesAreComplete` | `RecoveryComplete` | `Deposited(History)`: what the history withdrew, it had deposited |

The hypotheses are those under which the runs check the same properties, for the reasons given
with the runs (`Deposited` is what the pools' contracts guarantee of any history). The invariants
are layered, each with the ones before it for hypotheses:

- `FlowInv` says what a task knows at each step: which pools are still to do, that what it read from a pool's
  notes is still stored when it writes, and that every deposit it is about to return has its record.
- `RangesInv`: the chunks below a pool's counter are ranges in chain order that leave out no event below
  its cursor (`Covered`), and a snapshot starts at the cursor and, once stored, is the chunk that the commit will
  count in (`Snapped`). So a sync cut short between `put_snapshot` and `commit_snapshot` leaves no gap and no overlap:
  what it stored is not counted, and the next sync writes over it.
- `FoundInv`: what a recovery has found is `Recovered` of the committed events of its pools, and stays
  so while it writes, since no other task commits under its lock.
- `HonestInv`: a record that says mined, or spent, has that event on the chain.
- `ToldInv`: with a fresh seed every event on chain is of an exposed deposit, every event below a cursor is told by
  its record, and before a commit those of the snapshot are too.
- `CaughtInv`: without lagging endpoints, the marks of a pool's records come from blocks that the
  sync under way reaches, and that a recovery has reached before it replaces them.
- `RestoredInv`: the pools that a recovery is done with have a record of all that it found.

`NextCases` and the effect lemmas (`TrackEffect`, ...) say once what each action changes; the proofs of
the layers cite them instead of the actions.

Only model-checked: `OperationsEnd`, both parts of it, since liveness is out of the prover's reach.
`NotesListedOnce` fails (finding 1).

## 4. The syncers and the tree cache

`ChainedSyncer.tla` models `tornado/syncer.rs` with the span reader of
`core/network/logs.rs`. It has no specification of its own: `read[q]` is the call
that caller `q` has under way, `SyncerStep(q)` moves it on by one request, and the
module that composes it decides when a call starts and what becomes of its
answer. The chained syncer asks the saga (`AskSaga`, `SagaFails`), keeps its answer
if it starts where the call does, and asks the endpoint for the rest or for
everything (`SagaAnswered`, `Join`, `AskWhole`). A call to the endpoint reads its
height, clamps the range (`ReadBlockRange`), and requests logs span by span
(`ReadSpan`), while blocks arrive (`Grow`). Both servers answer from anywhere behind
the head, and the saga may answer more than it was asked for.

`WithdrawalTree.tla` extends it with `withdrawal_inputs` (mod.rs:505). `TakeLock` to
`Commit` are its sync, under the operation lock; `FindTree` and `InsertTree` are
`merkle_proof` and `build_tree`, which take only the lock of the tree cache, so two
tasks on one vault overlap there. `SyncElsewhere` is a sync by another process,
which moves the cursor but cannot reach this vault's cache. `Abort` is an error or a
dropped future at any await.

| run | instance | shows |
| --- | --- | --- |
| `withdrawal_tree` | 2 tasks, saga, spans of 2, 3 blocks | answers are exact, the cached tree is a prefix of the pool's, a proof covers what earlier syncs found |

Three blocks are one more than a span, so a range is read in one or two requests,
and they leave room for a saga answer, a tail and a block that arrives meanwhile.

Assumed, because it is not in this repository's hands: a saga answers with every
event of the range it names and names no block before the requested one (that
would repeat leaves, and only `start > from_block` is checked, syncer.rs:172); an
endpoint has the logs of every block up to the height it reports. The second
is a hazard of load-balanced endpoints and is listed as one.

### Note

`withdrawal_inputs` is documented to prove against a root that its own sync has
brought up to date (mod.rs:503). `sync_pool` drops the cached tree (601) before the
cursor moves (609). A second task on the same vault that is in `merkle_proof` at that
moment rebuilds the tree from the old cursor and caches it, and the syncing task
then uses it. Dropping the tree again after `commit_snapshot` would close the window. The
command line proves its withdrawals one after another, so it is not affected.
`ProofCoversEarlierSyncs` is what does hold: a proof is never older than the
cursor the call's sync started from.

### Proofs

`WithdrawalTreeProofs.tla`, for any number of callers, spans and blocks, from `SyncerAssumption` and `NoneAssumption`
(None is not a caller): `TypeCorrect`, `SnapshotsAreExact` (`AnswerIsExact`), `CachedTreeIsPrefix` (`TreeIsPrefix`) and
`ProofsCoverEarlierSyncs` (`ProofCoversEarlierSyncs`). `Reading` is the invariant of a call of the syncer: what it has
gathered are exactly the events from where the call starts to where it stands, and what is left to ask for begins there;
each request keeps it, and an answer is the case in which nothing is left. `PoolInv` says that the chunks flatten to the events
below the cursor and that the cached tree is a prefix of them. `CallerInv` relates a caller to the cursor its sync started from:
a syncing caller holds the lock and asks from the cursor, and once it has dropped the cache, whatever is in the
cache or under construction for it reaches at least the cursor its call began with (`Fresh`).
`FlattenAppend`,
on which the chunks rest, is proved by induction over a set of indices, since `FlattenSeq` is a recursive function.

## 5. The file database

`FileDatabase.tla` models one record of `core/database/file.rs`: the record's name and
the temporary name beside it (`names`), the names a power loss may leave
(`journal`: a directory entry is on disk for certain only after the directory was
flushed), what each file contains and whether that is on disk (`data`, `flushed`).
Each call of `put` is an action: `CreateTmp` (which truncates a temporary file it
finds, whoever made it), `WriteAll`, `SyncAll`, `Publish`, `SyncDir`; `Fail` and
`RemoveTmp` are its error path, `Kill` is the end of the process and `PowerLoss` the
end of all of them. `Guarded` says whether callers hold the operation lock around
`put` and `delete`: the Tornado vault does, the session and the profile records do not.

`DurableRegister.tla` is what a caller may believe: a write shows at once and whole,
a power loss may bring back what has not been flushed, and nothing older.

| run | instance | shows |
| --- | --- | --- |
| `file_locked` | 2 processes, 2 values, 4 files | `RegisterSpec`, `ReturnedIsDurable` |

Four files are the published one, one a power loss may bring back, one under the
temporary name and one more; `MaxJournal` bounds how many changes of names may be
unflushed when an operation starts (failed puts and deletes leave some). Assumed:
names reach the disk in order, as on a journaling file system.

### Note

Without the lock (`Guarded = FALSE`) `RegisterSpec` fails, although `put` is documented
to publish complete files (file.rs:71). The temporary name comes
from the key, and the file under it is opened with `truncate`, so a second put of the
same record empties the file that the first has flushed and then renames. The record
is empty or mixed until the second put writes or another follows. Two commands
running at the same time do this to the session, which each of them renews.

### Proofs

`FileDatabaseProofs.tla`, for any processes, values and files, from `FileAssumption`:
`TypeCorrect` without a lock; with one (`Guarded`), `PutIsDurable` and
`ImplementsRegister`. The invariant `IInv` says that every file that may be the
record after a power loss (`journal`) is whole, flushed, and not the one under
the temporary name, so that truncating that one is never seen (`TmpOnly`), and
what a put knows at each step (`Progress`): its file is still the temporary one,
and holds its value once written. The lock enters through `Alone`: while one process
is inside an operation the others know nothing that could become false.

## 6. Profiles

`ProfileStore.tla` models the keyring (`core/keyring.rs`) and the profile index
(`core/profile/index.rs`, `db.rs`) under the commands `profile new`, `profile import`
and `profile rename` (`core/instance/profiles.rs`). Each list is one record that is
read whole and written whole, and no command takes a lock, so each read and each
write is an action, and `cmd[q]` holds what command `q` has read.

| command | steps |
| --- | --- |
| import, or new phrase | `Import` (reads the next index), `CheckCanCreate`, `ReadKeyring`, `PutMnemonics`, then `ListProfiles`, `PutPointer`, `PutProfiles` |
| another profile of a phrase | `Add`, `FindPhrase`, then the same last three |
| rename | `Rename` (finds), `SetName` (reads again), `PutProfiles` |

`Stop` ends a command at any step: an error, or the end of the process. A refusal by
`create` after the phrase was stored is the control point `stranded`. Abstractions:
phrases are values, compared as `add_mnemonic` normalises them; the index is a set,
since its order means nothing; a name is a label or an index, and the index stands
for what `display_name` makes of it, so explicit names can clash with standard
ones. A name that reads as `mnemonic/profile` is left out: `find` takes it for the pair
as documented. Scanning addresses and listing vaults come after (section 7).

| run | instance | shows |
| --- | --- | --- |
| `profiles` | 4 commands, 2 at once, 2 phrases, indices 0 and 1 | `ListsConsistent` whatever overlaps; `PhrasesAgree`, `NothingLost`, `CheckedFirst` while nothing does |

Two overlapping commands are all a lost update needs, and four commands give a phrase
with a profile, two that overlap on it, and one that looks at the result. Two
indices are the smallest and the next; the third that commands may ask for is
out of range. `overlapped` is a history variable: the last three properties are
promises that the code keeps only to a user who runs one command at a time.

### Notes

Two imports at once (or `profile new`) lose a phrase. `add_mnemonic` reads the keyring,
appends and writes it back (keyring.rs:48-62); the second writer replaces the first
one's phrase at the same index, and `create` then lists both profiles on the
phrase that stayed, although `import_profile` promises a profile on `phrase`
(profiles.rs:134) and `profile new` has printed the other phrase for backup.

A process that ends between `PutMnemonics`
and `PutProfiles` leaves a phrase that cannot be imported again (`DuplicatePhrase`) and
that no profile leads to, so `profile new` cannot choose it.

### Proofs

`ProfileStoreProofs.tla`, from `ProfileAssumption`, for any number of overlapping
commands: `TypeCorrect`, and `ListsStayConsistent`. The stored lists are not enough
for induction, since a command writes back what it read earlier: `Ready` adds that
what a command holds is itself a consistent list to which its change can be
made, and that the pointers it relies on, which are never removed, exist. `Selectable`
derives from unique displayed names that `find` returns the one profile.
`NothingIsLost`, `PhrasesStayAgreed` and `ChecksComeFirst` prove `NothingLost`, `PhrasesAgree` and `CheckedFirst`, which
speak of states before anything has overlapped. `SoloInv` is what holds until then: only one command
is under way, what it has read is still what is stored, a phrase that it has stored is at the index it
works with, and the pair and the name it has checked are still free when it lists its profile.

## 7. Fresh addresses and the account scan

`FreshAccounts.tla` models the standard addresses of one profile: the counter
`nextAddress` (`core/instance/address.rs`), the address vaults that are listed
(`core/instance/vaults.rs`), and the scan that finds used addresses again
(`core/mnemonic/scan.rs`). Address n is written n. `active` is what `has_activity` sees on
chain; it only grows, and any address may come into use at any time, by an operation that
lands or by anyone's transfer.

| command | steps |
| --- | --- |
| `next-fresh-address`; with `--peek`, `--quote`, `--dry-run` or declined, only the first two | `Begin`, `Look` per index, `ReadNext`, `PutNext` |
| `unshield` | `Begin`, `Look`, `Submit`, then `keep_fresh`: `ReadNext`, `PutNext`, `Filter`, `ReadVaults`, `PutVaults` |
| `transfer --from tornado` | `Begin`, `Look`, `keep_fresh`, `Submit` |
| `profile rescan` | `Begin`, `ScanStep` per index, `Filter`, then `ReadVaults`, `PutVaults` per address |
| `profile import`, and `profile new` on a stored phrase | the same without `Filter`; `ScanFails` leaves address 0 |
| `profile new` on a new phrase | `Begin`, then `ReadVaults`, `PutVaults` for address 0, unscanned (`Entry`) |

`Stop` ends a command at any step, by an error, the end of the process or the index limit;
`KeepFails` is the warning with which `keep_fresh` goes on. A submission whose answer is
lost is `Submit` followed by `Stop`. Abstractions: the list of vaults counts vaults per
index, since nothing reads its order; the other vaults of a profile are left out; a new
vault's own scope is written before it is listed and seen by nobody until then.

| run | instance | shows |
| --- | --- | --- |
| `accounts` | 3 commands, one at a time, 2 batches of 2 addresses | `NotReused`, `OneVaultEach`, `RescanComplete`, `SpentIsKept` |
| `accounts_early` | 1 command | finding 2 |

The code has batches of 10 and a limit of 1000. Two batches of two have an unused address
before a used one, a batch without use before one with, a scan that runs into the limit, and a
fresh address that a rescan has listed already. Three commands are one that fails, one
that repairs or repeats, and one that looks. Commands run one at a time: overlapping
ones can be given the same address, which the code nowhere excludes (see the hazards).
What the run does not promise: a rescan does not reach a used address behind a batch
without one, and `keep_fresh`'s advice to rescan does not help there.

### Finding

2. `unshield` submits and then stores the fresh address (unshield.rs:201-202), although
   docs/cli.md:90 says that it stores it before submission, as `transfer --from tornado`
   does. An `unshield` that ends in between leaves an address that the next withdrawal takes
   again until the operation lands; `NotReused` excepts exactly this case (`cut`), and
   the address a command warned about (`unstored`).

### Proofs

`FreshAccountsProofs.tla`, for any batch size, number of batches, limit and number of commands: `TypeCorrect`, whatever
overlaps, and under `Alone` (there is one process, as in the runs) `AddressesNotReused`, `AddressesListedOnce`,
`RescansAreComplete` and `SpentAddressesKept`. `UsesInv` says that an address that is not below the
counter has no use, except those that `cut` and `unstored` name and the one of an unshield that is about to store it, and that
the address a command carries is not below the counter until it is stored; `VaultsInv` that what a command is to add
is not listed and that the list it writes back is the stored one; `ScanInv` that a rescan has met every address in use
below its index, and carries on those that no unused batch comes before until they are listed; `KeptInv` that
a withdrawal that has not warned has stored its address before it lists it, and a transfer both before it submits.

## 8. Amounts and withdrawals

`Amounts.tla` models `tornado/amount.rs`: the greedy split of an amount into
denominations (`DepositPools`), a list of named ones (`NamedPools`), the pruned search for
notes (`SelectNotes`, with `Hopeless` its pruning), and the choice of the note that
sponsors the gas (`WithdrawalNotes`). At its end stand the reference definitions,
stated without any search (`FewestWithSum`, `LeastCover`): the runs of
`Withdrawals` and `Broadcasts` compare the two on every wallet and amount of their instances.

`Withdrawals.tla` models one wallet that unshields and transfers from the pool, one command
after the other (`cli/unshield.rs`, `cli/transfer.rs` from `from_tornado`, `cli/spend.rs`,
`tornado/userop.rs`, `tornado/estimation.rs`, `core/bundler.rs`).

| code | actions |
| --- | --- |
| choosing notes, refusing what has no sponsor | `Begin` (`Legal`, `Chosen`, `Sponsored`) |
| the user's answer | `Confirm`; an unshield asks before it quotes, a transfer after |
| `quote_until_settled` (userop.rs:439), `from_tornado`'s loop (transfer.rs:410) | `Quote`: per estimate one of `Reselect`, `Requote`, `Settle` |
| `submit`, `fits` (userop.rs:263, 418) | `Prove` |
| `BundlerList::send_user_operation` (bundler.rs:111) | `Send`, one bundler at a time |
| `wait`, `measure` (userop.rs:189, 228) | `Wait` |
| any error, a declined prompt, the end of the process | `Stop` |
| bundlers, entry point, paymaster, pools (external) | `Gossip`, `Include` |

Each estimate is any of `Gas`, so prices move between passes. A bundler may refuse, take the
operation and lose the answer, say that it knows it already, share it with others, and
include it at any time, also after the command gave up. A unit of gas costs one unit of ETH; proofs
are the notes they spend; Merkle roots are section 4's; that two commands do not take the
same fresh address is section 7's.

| run | instance | shows |
| --- | --- | --- |
| `withdrawals` | 2 commands, 2 bundlers, 3 gas estimates, 3 wallets that spend, 272 that only quote | `SelectionLeast`, `Balanced`, `GasCovered`, `FollowedUp`, `ReportHonest`, `QuoteKeepsNotes` |

A wallet is the list that `notes` returns, which repeats the notes of a pool that is tracked twice (finding 1).
The spending wallets have equal denominations, one note without a paymaster, and token notes, and one
of them lists every note twice (`Twice`); the quoting ones are every order of four notes of four
values, in which pruning by a bound that is off by one would lose an answer, and sixteen that list two notes
twice. Three estimates let the fee settle, grow past what the notes leave, and keep
changing for all `FEE_ATTEMPTS`. Two commands are one whose operation is still under way and one that
finds its notes spent. Commands do not overlap: two at once can pick the same notes, of which the pool
lets only one operation succeed.

`Balanced` says of every operation that is sent that fee, tail calls and forward do not exceed the
notes, and leave nothing when there is a forward, although each is known only after the other
two. `GasCovered` is what makes the proof's fee enough for the proven calls. `ReportHonest` holds
with strangers paying the fresh address in the same block: the code reports that payment as change
and as less fee, which is what the property says. It also says that no reported operation
spends one note twice: the pools revert the second withdrawal of it, and the calls of an
operation run or fail together (`Include`), so a wallet that lists notes twice can have an operation sent that fails, and
never one reported that counts a note twice.

### Notes

- A selection takes a note as often as the list has it (`Drawn` in `SelectionLeast`). From a list that
  repeats notes, a quote can therefore offer more than is held, an operation with one note twice fails on
  chain, and it fails again each time the same notes are chosen. This is a consequence of finding 1, and the
  selection does what it should with the list it is given.

- Tokens are quoted with the real proofs of all notes but the sponsor's (userop.rs:353-366), although
  the comment on `QuotedWithdrawal` (userop.rs:62) speaks of placeholders. `QuoteKeepsNotes` is about ETH
  notes. The recipient is inside the proof, so a bundler could only send the tokens where they go anyway.
- An operation that a bundler took although its answer was lost is included without anybody waiting for it; a
  command that failed says nothing in the model.

### Proofs

`WithdrawalsProofs.tla`, for any wallets, requests, gas estimates and number of bundlers: `GasIsCovered`,
`OperationsBalance`, `AcceptedIsFollowed`, `ReportsAreHonest`, `SelectionIsLeast` (`SelectionLeast`), and the action property
`QuotesKeepNotes`: every property of the run. Assumed of the constants: a wallet is a list of notes, each worth a positive
whole amount, and a request is to unshield or to transfer a whole amount. The list may repeat notes, as finding 1
has it.

`WithdrawalInv` follows one operation. A command's notes suit its request (`Suits`: an ETH withdrawal has ETH notes only, a
token withdrawal ETH for its sponsor only); the operation it proves, sends or waits for is `Sound` (it suits, its fee is at least one
unit and covers its gas, and it is balanced); the bundler it waits on has it; bundlers hold sound operations; each is
included at most once, with what it paid and spent; and a report belongs to one inclusion. Confirmation, and the forward
of a command that asked for none, are part of it, since the step after a quote depends on them.

That notes suit a request rests on `SelectNotes`. This part of the proof does not say which notes it finds: it shows that the
recursive function exists (`SearchExists`, by induction over the notes that are left, since every step goes on from a
later note), so that the equation holds of it, and that every answer is made of the notes it was given
(`SelectionIsDrawn`). Since notes may be listed twice, that is said of places and not of notes: each place of the answer has
a place of its own in the list (`Among`), so no note is taken more often than it is listed. Filtering, sorting and
grouping keep this, each step of the search adds one place that was not taken (`AddsOne`), and the best answer is one that was
reached. `FoldLeft` is a CHOOSE in the same way: `Folding` and `Folds` say what is needed of it, once for sums,
filters, sorting and the trials of the search.

That the notes are the best there are says what the search finds. At a point of it, some notes are chosen, some are left, and
there is a best answer so far; `Consistent` says how these belong together. Its answer there is `Optimal`: no worse than the best so far, nor
than what is chosen with any of the notes that are left. `OptimalWithin` carries this back from the last point to the first
one; inside a point, `Tried` carries it through the numbers of notes of one denomination, from the most there can be of use down to none
(`AllTried`); which notes of equal value they are does not matter, and what `Hopeless` gives up could not have been
better (`PrunedIsOptimal`). From the first point, the answer is then compared with all sets of places of what is held, as `FewestWithSum` and `LeastCover` do. The
second invariant, `SelectionInv`, keeps this until the command selects again: only `Begin` and `Reselect` change its notes.
TLC was given it on the instance above.

## 9. Transactions, delegation, and the commands that send them

`Broadcasts.tla` models what accounts sign: `core/broadcast.rs`, `core/executor/`, `core/delegate/`,
`core/vault/simple/`, `contracts/src/simple_delegate/SimpleDelegate.sol`, and the commands `shield`
and `transfer` from an account. A command is the list of the steps that are left of it (`todo`); each is
one request or one write, and takes its answer from the chain at that moment.

| command | steps |
| --- | --- |
| `submit_batch` | `ReadDelegation`, then `Authorize`, `Fill`, `Send`, `WaitMined` for an account that pays for itself; `ReadNonce` or `FirstNonce`, and the batch |
| `SimpleExecutor` | `SignerFrom` (`PutKey` or `Rebuild`), `PersistAndRebuild`, `PutImplementation`, `AuthorizeIfMissing`, `CheckDelegate`; then `ReadNonce`, `Fill`, `Send`, `AwaitReceipt` |
| `SimpleVault` | the same records in its own order, `CheckDelegate` before `PutImplementation`; then a signed withdrawal that anyone may send |
| `transfer` | `Pick`, for a token `Simulate`, then `Covers`, `Fill`, `Confirm`, `Send`, `WaitMined` |
| `shield` | `Confirm`, `CheckBalances`, then one call as a transaction, several as one user operation: `Build`, `SendOp`, `Receipt` |

The chain is external: `Mine` (an authorisation applies at its nonce and stays when the call reverts; a call to
an account without code does nothing and succeeds), `IncludeOp` (several calls at once on the
other implementation), and `Relay`: a signed batch is public, and anyone may submit it. `Stop` ends a command at any
step, with or without telling its user. Abstractions: gas is one unit of ETH where balances are compared and free on
chain; keys are accounts. The calls of a command are a set: nothing depends on their order but the approval before its
deposit, and they take effect at once. `db` is the records of one executor, so the commands that draw a random key for it draw
one account (`BroadcastsAssumption`).

| run | instance | shows |
| --- | --- | --- |
| `broadcasts` | 2 accounts, 2 commands that may overlap, 4 initial delegations, 4 pools | `CallsRunOnce`, `AllOrNothing`, `SuccessMeansRun`, `DelegationRebuildable`, `PlanFewest` |

Two commands are one whose transaction is stale and one that makes it so: a nonce that is
read and used after another batch, a delegation that is replaced in between, a balance that is spent.
The initial states have an account that delegates to nothing, to `SimpleDelegate` after one batch, or
to the implementation of user operations, with and without a batch behind it.

`SuccessMeansRun` excepts commands that overlapped others, and the executor's, whose receipts do not say
whether the call reverted (`receipt`, executor/simple/mod.rs:231-243).

### Notes

- Two self-paid batches that overlap can both return Ok while one of them did nothing: its
  batch reached the account after the other implementation had been installed, or before its own.
- A shield's user operation delegates an account to the other implementation, even one
  that runs `SimpleDelegate`; the vault or executor on it is out of work until it authorises again.
- `shield` reports an operation that a bundler accepted, but that was not seen in time, as not sent
  (shield.rs:473, 493); it may still land, and a user who tries again shields twice.
- The comment of `SimpleVault` has the signer's tag recorded and then the signer rebuilt (vault/simple/mod.rs:108);
  the code rebuilds first and records the tag only then, as the executor's comment says. The vault stores its implementation after the check of the delegate, so a vault
  whose check fails leaves a tag and no implementation; constructing it again repairs that.

### Proofs

`BroadcastsProofs.tla`, for any accounts, processes, pools, commands and number of them, from `BroadcastsAssumption`: `PointsKept`
(the invariant, `IInv`), `NoCallTwice` (`CallsRunOnce`), `CallsTogether` (`AllOrNothing`), `SuccessIsTrue` (`SuccessMeansRun`),
`DelegationsRecorded` (`DelegationRebuildable`) and `ShieldsAreWhole`. The assumption includes that pools are worth positive whole
amounts, and that amounts are whole.

None of the four is inductive: whether a call may run again depends on what else is signed, and that on where the commands are. So
the invariant has three parts.

- Where a command is. `Placed`: the steps it has left are one of the lists of its kind (`Early`, `Picking`, `Foreign`,
  `AuthFilling`, `AuthSending`, `Authorized`, `Filling`, `Sending`, `OpSending`, `Waiting`, or none left), and each says what the command holds and
  has sent there: nothing at all (`Silent`), no calls but perhaps an authorisation (`Unsent`), or all of it. `Recorded`:
  an executor that is past a record's step has it in the database, and that comes before anything is signed.
- What was sent. `OneCarrier`: one transaction carries the calls of a command; if it carries the authorisation of the account too, it is
  all that the command sends. `RanOnce`: a call that ran did so once and with the others of its command, and then its batch is stale,
  signed for a nonce below the account's. This is what makes `Relay` harmless.
- What a command that is alone may rely on. `Lone`: one that is not in `overlapped` is the only one with a process or a pending transaction.
  `Ready`, `ReadyTx`: the batch it signed still meets an account that delegates to `SimpleDelegate`, or will once its own authorisation
  applies. `Outcome`: so what was mined for it has done something, and it is not told of a success that did nothing.

A step is shown to keep the first part by what it leaves of its own list (`Stepped`, and `QuietStep` and `FieldStep` for those that send
nothing), the other commands by what they may read (`SentNext`, `ChainNext`); `BeginNext` and `Ended` are about who is alone. TLC was
given `IInv` on the instance above before it was proved.

`ShieldsAreWhole` is what holds of a shield for any pools: it deposits its amount, neither more nor less, in at most five notes of the
asset and policy asked for, or those named; these deposits are its calls, and all of them run or none. The loop of
`DepositPools` keeps that what is chosen and what is left add up to the amount (`TakenIsPlan`, `DepositIsExact`), and no step
of a command touches its plan (`StepLeavesPlan`).

Only model-checked: `PlanFewest`, that no other split has fewer notes. It is false of some denominations (of 1, 3 and 4, the greedy split of 6 takes three notes), and
the code draws its pools from a catalog outside the repository. They need not divide each other: the tests name a pool of 0.3
ETH beside those of 0.1 and 1 (amount.rs:503), so the run has such pools, and an assumption that makes a proof would not be
one the code makes.

## 10. The home: stores, session, configuration, balances

`Home.tla` models the encrypted stores of a data directory (`core/database/encrypted.rs`,
`core/instance/mod.rs`, `data_dir.rs`), the session (`cli/session.rs`) and every way a command is unlocked
(`cli/unlock.rs`, `cli/global_args.rs`, `reveal-phrase` of `cli/profile/mod.rs`). `Settings.tla`, which it extends, says what the
configuration commands do to one record at a time (`core/instance/networks.rs`, `services.rs`, `core/asset/`)
and what `balance` adds up. A place is a data directory and a network. A store is its header (a password and the data
key it wraps) and its records by data key: what was written under another key cannot be found, as in the
code, where the key of a record is derived from the data key (`Sealed`).

| code | actions |
| --- | --- |
| `unlock` | `Load`, `Password`, `Same` or `Typed`, `Exists`, then `Unlock`, or `Create`, `PutTemp`, `PutHeader` and the defaults; `Hold` or `HoldFails` |
| `lock` | `Forget` |
| any other command | `Load` (`Renew`, `Present`, `Forget`), `Held`, `Choose`, `Open`, `Hold`, then its steps |
| `profile reveal-phrase` | `Load`, `Reveal`: the session says which instance, the password is typed again |
| `change_password` | `Rewrap`, `PutTemp`, `PutHeader` |
| a read of a record, a write of it | `Look`, `Put` (those in `Blind` write what they read earlier) |
| `balance` | `ReportBalance`, over any subset of the vaults that could be read, and any of the lists the Tornado vault may return (`Listings`) |
| an error, the end of the process or of the power | `End` |
| clock, user | `Tick`, `RemoveInstance` |

| run | instance | shows |
| --- | --- | --- |
| `home` | 2 commands out of 27, which may overlap, by 2 processes; one directory with a network that has defaults and one that has none, another directory; a session of one tick | `OneKey`, `LockHolds`, `ActiveInUse`, `ServicesUsable`, `OptedIsRegistered`, `TotalsExact` |

Two commands are enough because each property relates what one command wrote to what the next one
reads, or two that interleave; the initial states (nothing, either network unlocked) stand for what
commands before them did. The session lives for one tick of one, so that it can expire between any two steps.
Amounts saturate at 7, which every total of the instance can reach.

`balance` folds the notes as they are listed (`FoldTornado`, cli/balance.rs:371-396), and the list may have
a note twice (finding 1). So `TotalsExact` says two things. A balance called complete leaves nothing out of what is held
of the tracked assets. And no balance says more than is held when the list has each note once (`balance.once`); from a list that repeats
a note, a complete balance does say more, which is finding 1 as the user sees it.

### Notes

Not findings, as no document promises otherwise; the properties except them as said at their definitions.

- Two first unlocks of one network at once: both see no header, and the second header replaces the first, under
  whose key the first has already written (`contested` in `OneKey`).
- A command that loaded the session before another locked renews it after: the wallet is unlocked
  again. `LockHolds` is for commands that do not overlap. docs/cli.md:39 describes `lock` for one user at one
  terminal.
- The session's renewal and removal can fail, and the code goes on (`let _ =` in session.rs): `Renew` and
  `Forget` then leave the session as it was. A session store that cannot be read counts as no session, and that
  is left out: such a command goes on as one that finds no session does.
- A first unlock that ends after the header and before the defaults leaves a store to which no later
  unlock gives the RPC default (instance/mod.rs:121-143); bundlers and indexer are seeded when first
  read.
- One that ends with only the temporary file of the header leaves a directory that counts as an
  instance and has no header: unlocking it fails until the user removes it.
- The active RPC is written before the list (networks.rs:29-33): a crash in between leaves an active name
  that no list holds, and the next `add` keeps it. `rpc` then falls back to the first listed one.
- On a network without defaults, the first read of the bundlers writes an empty list, and can replace one that
  another command has just written (services.rs:96-104).
- Two `opt_in` commands at once can drop a registration, after which every command that reads the profile's
  assets fails until it is registered again.

### Proofs

`HomeProofs.tla`, for any number of processes, places, commands and ticks, from `HomeAssumption`: what commands
may be asked for (those that name an RPC or an indexer are given one), that a list of the notes (`Listings`) leaves none of them out and holds
nothing else, the homes they may find (`Found`: as commands before them left it,
with a session that was just used), that vaults and notes are finitely many and hold amounts that fit their width, and that `None` and
`Refused` are none of the values they stand beside. `TypeSafe`, `KeySafe` (`OneKey`), `LockSafe` (`LockHolds`),
`ActiveSafe` (`ActiveInUse`), `OptedSafe` (`OptedIsRegistered`), `ServicesSafe` (`ServicesUsable`) and `BalancesSafe` (`TotalsExact`):
every property of the run.

What makes these hold is the order of the steps a command has left, so the invariant says what that may be.
`Plan`: what opens a store comes before what works on it; `temp` comes after `create` or `rewrap`, and `header` after `temp`; `rpc_put` after
`rpc_active`; no step comes again, or too late, that another rests on (`Spoils`). `Formed` adds what a command knows of
itself: it has a data key once nothing that opens is left, and a `reveal` with a key was opened by its user. Every step
takes the head of a plan, or puts the answer to a question in its place, and leaves a plan (`PassStep`, `PrefixStep`,
`AnswerStep`, `WorkPlans`). The rest is in layers, each of which looks only at what the step does to it:

- `SessionInv`: while nothing overlapped, a session with time left was unlocked, and its time and the ticks since its last use
  add up to `TTL`; what a command loaded of it was live.
- `KeyInv`: a command's key is the one its store's header wraps, or the store has no header yet and the command is about to
  write it; two that are about to write one are at a contested place. Every record is under that key.
- `ActiveInv`: a list has an active config, and so has a store whose command is past `rpc_active` and about to write the list. This
  needs neither that commands be alone nor that they end well, only the order of the two writes.
- `RpcInv`, `ListInv`: alone, what a command has read is still so when it writes (`RpcAt`, `ListAt`); so the active config is
  listed or about to be, and the asset a profile opts into is registered by then.
- `ServiceInv`: every record of bundlers and of the indexer is one a wallet can use, and so is what a command has read of them
  that it is about to write from. Commands that interleave can lose each other's writes, but each replaces a usable list by
  one, and reads it before it replaces it (`Spoils`); so this needs neither that commands be alone nor that they end well.
- `TotalsExact` is inductive once `ServiceInv` gives what a `balance` has read of the tracked assets. The amounts are added by a fold
  over a set, which takes its elements in the order that CHOOSE picks. `SumsAgree` says that the folds over two sets agree on what both hold,
  `SumAny` that any element may be taken first, as saturating addition is associative and commutative, and `SumParts` that a
  set's sum is that of its two parts; all three by induction on the size of a set. The code adds up positions of a list, and what is held is a sum
over notes: `ListedCounts` says that the first is at least the second, and equal to it where each note has one position (`SumAtPositions`). A balance splits what is held into public and private, and what is noted into pending and not; `ReportExact`
  puts the parts together again, and a vault that was not read can only make the sum less.

The invariant `IInv` is the conjunction of these, and TLC finds it to hold on the instance of the run `home`.

Writing them down showed where the model had been ambiguous: a CASE of TLA+ whose guards overlap is a choice that nothing
more is known of, so `Load`, `Look`, `Work` and `ListUpdate` state the order in which the code tests its conditions.

## 11. What is checked, proved, and left out

Proved for every value of the constants: what sections 3 to 10 list under Proofs, which are all safety properties of the
runs but `PlanFewest`, with the refinements of `NonceLedger` and `DurableRegister`. The theorems assume what
the constants' named assumptions say, and the hypotheses listed with them: an empty or well-formed history, endpoints that do not
lag, one command at a time. Each of them is one that a run makes too, and the notes of the section say what
happens without it.

Only model-checked, in full at the bounds given with each run (no run is cut off): `PlanFewest`, for the reason given in
section 9, and liveness (`OperationsEnd`), which is out of the prover's reach; fairness is assumed in that run alone, of the steps
between two requests, and that endpoints answer only in the second half of the property. Induction
theorems that take a predicate cannot be instantiated, so an induction is stated over a set of numbers: it is closed under
successors, or its complement has a least element (`UpwardClosed`, `LeastElement`).
No run but `file_locked` checks for deadlock: commands start when a user asks, and chain, clock and counters are
bounded, so states in which nothing more happens are legitimate.

Modelled, but with no property that would catch it, so that a hazard is listed with less than its name says: an off-by-one in the gap rule of
a recovery (`Reached` is the rule of an external library and stands on both sides of `RecoveryComplete`), the commands that write
without a lock at the same time as another (the exceptions `alone`, `Guarded` and `contested`), and a second random delegation account in one database. Their
hazards in PROJECT.json say which part is covered.

Not modelled, and why:

- Reorganisations of the chain, which the code does not handle, and endpoints whose logs lag behind the height they
  report: no property of the notes survives either.
- Cryptography: key derivation, signatures, proofs, sealing. They are taken as ideal, and are tested by vectors.
- Request formatting, transport and the pacing of calls (`core/network/alloy.rs`, `http.rs`).
- Argument parsing, prompts, wording and output of the command line; the parsing of amounts and recipients
  (`core/recipient.rs`).
- The pool policy of a profile (classic or extended pools) as a record; its effect on a shield is `classic` in
  `Amounts`.
- Vault kinds other than address, simple and Tornado do not exist; the factory (`core/factory.rs`) only looks up tags.
