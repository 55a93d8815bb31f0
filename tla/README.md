# txn-db in TLA+

A TLA+ development of `txn-db`, an embedded multi-version transactional
key-value store: modules that model its core, TLC runs that check them on small
instances, and TLAPS proofs of what holds for every instance. Paths below are
relative to the repository; line numbers of each definition are in
`PROJECT.json` under `map`.

## The system

| Part | State | Operations |
|---|---|---|
| Timestamp oracle, `src/oracle.rs` | `next_ts`, `read_ts` (the watermark), `pending` (`done_upto`, `ahead`), `readers` | `alloc_commit_ts`, `commit_done`, `begin_reader`, `end_reader`, `low_watermark`, `new`, `recovered` |
| In-memory store, `src/store.rs` | version chains per key, one reader-writer lock per shard | `get`, `try_commit`, `collect_garbage`, `install_recovered` |
| Transactions and snapshots, `src/txn.rs` | read timestamp, write buffer, read set | `get`, `put`, `delete`, `commit`, `rollback`, drop |
| Database, `src/db.rs` | the store, the oracle, perhaps a log | `begin`, `begin_serializable`, `snapshot`, `commit_writes`, `collect_garbage`, `open`, autocommit `put`/`delete` |
| Commit log, `src/durable.rs` | records in a `wal-db` file | `append_committed`, `open`, the record codec |
| `VersionStore` seam, `src/store.rs` | a user's store | the same three operations |
| Callers, `examples/`, autocommit | the script of each thread | the retry loop around begin, read, write, commit |

A transaction registers with the oracle and reads at the watermark it got.
Committing takes a timestamp (one atomic increment), validates and applies in
the store under the locks of the shards it touches, appends to the log and syncs
it if there is one, reports the timestamp to the oracle and drops its
registration. Commits of different threads interleave between any two of these
steps; only the watermark keeps the half-finished ones out of sight. Garbage
collection asks the oracle for the oldest read timestamp in use and then sweeps
the shards one by one while everything else goes on.

What is hard about it: timestamps are taken before locks and finish in any
order; the sweep works with a low watermark that ages; validation relies on
versions that garbage collection might have removed; several locks are taken by
one commit; a crash or a log error falls between apply, append, sync and
acknowledgement; a retry may conflict again with what it cannot see yet; a
record may come back from disk damaged. `PROJECT.json` lists these hazards at their lines, each with
the properties that would catch it going wrong.

## Modules

| Module | Models |
|---|---|
| `Oracle` | the methods of `Oracle`, one operator each |
| `OracleProtocol` | the oracle with its callers: the contract between it and the database, and its inductive invariant |
| `OracleProofs` | proofs about `OracleProtocol` |
| `NatLemmas` | facts about sets of natural numbers that the proofs share |
| `MemoryStore` | the store's reads, lock acquisition, validate-and-apply and sweep |
| `StoreProofs` | lemmas about its operators: what `visible_value`, `newer_than` and `retain` return for an ascending chain |
| `Db` | handles and the commit and collection paths of an in-memory database, composing `Oracle` and `MemoryStore` |
| `DbProperties` | its properties, the three refinement mappings and its inductive invariant |
| `DbProofs` | proofs: types, the oracle's contract, locks, chain order |
| `DbHistoryProofs` | proofs: what is read, conflicts, serializability |
| `DbRefinementProofs` | proofs: `Db` implements `SnapshotIsolation` and `VersionStore` |
| `SnapshotIsolation` | the abstract specification: what the database promises |
| `SnapshotIsolationProofs` | proofs about it |
| `DurableDb` | a database with a log: append, sync, log errors, crash and `Db::open`, on top of `Db` |
| `DurableProofs` | proofs about it: the log, the database in memory, crashes and recovery |
| `VersionStore` | the contract of the trait, which `MemoryStore` inside `Db` is shown to implement |
| `CommitRecord` | the codec of commit records, as operators, and a record that is damaged |
| `Clients` | the autocommit calls and the example programs, as threads with scripts and retry loops over `Db` |
| `MCDb`, `MCDurable`, `MCPromise`, `MCClients`, `MCRecord` | instances for TLC |

### How state and actions correspond to the code

Each variable is a field of the same name (`next_ts`, `ahead`, `readers`,
`chains`, ...) or the local state of a thread inside a call (`pc`). Each action
is one access to shared state with the local work around it:

| Action of `Db` | Code |
|---|---|
| `Begin` | `Db::begin`, `begin_serializable`, `snapshot` down to `Oracle::begin_reader` |
| `Get` | `Transaction::get` / `Snapshot::get` of a key not in the write buffer. A read of a buffered key returns from the buffer, changes no state and is therefore no action |
| `Put`, `Delete` | the buffer insert |
| `CommitReadOnly` | the early return of `Transaction::commit` |
| `Rollback` | `rollback`, or dropping the handle |
| `AllocCommitTs`, `Acquire`, `TryCommit`, `CommitDone`, `EndCommit` | `Transaction::commit` and `Inner::commit_writes`: timestamp, one shard lock at a time, validate-and-apply with the release of the guards, report, drop of the `ActiveReader` |
| `StoreFails` | `try_commit` of a custom store returns `TxnError::Store`; it is assumed to have applied nothing (the trait does not say), as one that wraps the in-memory store would |
| `CollectBegin`, `CollectShard` | `Inner::collect_garbage` and the loop over the shards |

`DurableDb` replaces `CommitDone` by `AppendRecord`, `SyncRecord`, `AppendFails`
and `DurableCommitDone`, and adds `Crash` and `Open`. `wal-db` is not part of
the repository: a sync covers any records up to a point at or after the caller's
(group commit), a crash keeps the synced records and any prefix of the others,
an error may or may not leave the record in the file. The history of a
transaction whose record is in the file is kept through `Crash`, for the
properties; of every other handle nothing is remembered but its fate.

In `Clients` a thread works through a script of calls. The call says which kind
of handle it opens and which keys it reads first; `StartCall` and `ReadNext` do
that, then one action per example decides what to write (`Increment`,
`Transfer` or `Overdraw`, `GoOffCall` or `StayOnCall`, `WriteBatch`) or the
handle is dropped (`EndReport`). `Commit` takes the commit steps of `Db`, and
`Retry` or `Return` follow, as `is_retryable` says. The programs are those of
`examples/`, with small numbers; calls the example makes one after the other are
made by several threads at once. Each starts from a database in which the seed
transaction has committed. `serializable_doctors` runs under both isolations, as
its `main` does, and only the serializable one is held to the rule. The
examples are on the in-memory store, so only the autocommit calls meet a store
that fails; `custom_store` is on the store it defines, whose counter is a step
of its own (`Count`) between applying and reporting.

`CommitRecord` has the byte's radix and the widths of the length and timestamp
fields as constants. A reader that has failed stays failed, which stands for the
early returns of `?`.

`VersionStore` sees the versions as a set and the calls of `try_commit` and
`collect_garbage` that are under way; the contract is that a commit takes effect
in one step and that every step of a sweep preserves what readers at or above
its low watermark read and what later commits validate against.

Abstractions:

- The value a transaction puts is its own name, so a value tells who wrote it.
  In `Clients` values are the numbers the programs compute with. Keys are model
  values or names, and the hash is a given function of them.
- `begin_reader` and `low_watermark` hold the registry lock while they load the
  watermark, and `commit_done` stores it under another lock. No other access to
  the registry fits between, so each is one step, at the load. The relaxed
  `fetch_add` is a read-modify-write of one counter and needs no more than that.
- A critical section on one shard is one step. On the general path of
  `try_commit` the locks are taken in separate steps; validation and application
  happen with all of them held and are one step with the release.
- `seen` and the write buffers are kept after a transaction has committed, as
  history for the properties; nothing reads them afterwards. They are cleared
  when a handle is rolled back or refused.
- A handle of `Db` is used once, as Rust's move semantics demand. A thread of
  `Clients` has one handle at a time and gives its name to the next.
- A guard is granted whenever nobody holds the lock for writing: `sync.rs`
  recovers poisoned guards, so a panic elsewhere makes no difference.
- The counter stops at `MaxTs` where the code's `u64` would wrap.

Operators marked "Faulty variant" are plausible mistakes in the definition that
follows them. Substituting one for its original must break the property
`PROJECT.json` pairs it with, which shows that the property is sensitive to the
code; no specification uses them.

## Runs

| Run | Instance | Shows |
|---|---|---|
| `oracle` | 4 committers, 3 readers, 1 collector, 7 timestamps, any recovered start | the watermark is below every commit in flight, waits only for one still running, never moves back and catches up; the registry is exact; no sweep overtakes a reader |
| `db_conflicts` | 3 snapshot-isolation transactions, 2 keys in 2 shards, 1 collector | chains stay ascending, reads come from the snapshot, first committer wins, nothing unreported is visible, commits never wait for each other in a circle; with locks taken one by one and sweeps halfway, the store implements `VersionStore` |
| `db_gc` | 3 handles, transactions and snapshots, 1 key, puts and deletes, 2 collectors, a store that may fail | no sweep takes what a live or future reader needs or hides a conflict; the inductive invariant of the proofs; `Db` implements `OracleProtocol` |
| `db_serializable` | 3 serializable transactions, 2 keys in 2 shards | the writers have a serial order; `Db` implements `SnapshotIsolation` |
| `clients` | 8 programs of up to 3 threads, 8 keys in 2 shards, 1 collector, 7 timestamps | no increment is lost, money is conserved at every instant, somebody is on call, reports are whole, autocommit installs the last writer's value, the wrapper counts what can be read; every call returns, no hole is left in the timestamps, all garbage goes |
| `promise` | 3 transactions, 2 keys, 2 timestamps | the inductive invariant of the abstract store |
| `durable` | 3 serializable transactions, 2 keys, 1 crash, a log that does not fail | recovery is closed under reads-from and complete, no timestamp is logged twice, the records of a key are in order, and the transactions that are left are isolated from each other across the crash |
| `durable_faults` | 3 transactions, 1 key, puts and deletes, a sweep, 2 crashes, a failing log | acknowledged commits are on disk; what is read before and after recovery agrees with the surviving commits |
| `codec` | radix 3, lengths in 1 byte, timestamps in 2, up to 2 damages | decoding inverts encoding up to the largest length; only encodings decode; a torn record does not |
| `read_only_anomaly`, `returned_visible`, `failed_visible` | as the corresponding runs above | counterexamples to statements of the documentation, see below |

Bounds. Three transactions are what the anomalies of snapshot isolation need
(two writers and an observer), two keys what write skew and a lock cycle need,
and two shards let a sweep and a commit be halfway. `MaxOps` counts distinct
keys read plus distinct keys written per handle: two give read-modify-write,
read one and write another, and two-key writes; `clients` has four, which the
longest call needs. `MaxTs` lets every transaction take a timestamp; in
`clients` it leaves two more for retries, so that an autocommit call can be
refused by a version it cannot see yet, be refused again and then get through. One collector alone can start again after
its sweep; two, in `db_gc`, overlap with different low watermarks. In the
durable runs a second crash makes timestamps and records of three lives of the
process meet. Where transactions are interchangeable the runs use them as a
symmetry set; runs of liveness do not. In `codec` radix 3 is the least that has
an invalid tag and an invalid version beside the valid ones; the commits have
keys and values from empty to the longest a length field can hold, and one that
is longer. Two damages make a change in a length and a cut that hides it.

`CHECK_DEADLOCK FALSE` stands where every handle of the instance may be used up
and nothing is left to do. That a commit is never stuck on a lock is
`ClientReturns` and `LocksNeverDeadlock`.

Fairness. `OracleProtocol` assumes weak fairness of `Finish`: a thread inside
`commit` keeps being scheduled, and every path through `commit_writes` ends in
`commit_done`. `Clients` assumes it of `ClientStep` for each thread: a thread
that can take a step takes one, and a shard lock that stays free is granted.
Weak fairness is enough since scripts are finite and no lock is asked for
infinitely often. It also assumes it of `Sweep`, in the program that collects:
the documentation of `collect_garbage` asks that it be called periodically.
Retries are not bounded by the code, and a thread may spend them all while the
watermark waits for another; `ClientReturns` excepts a thread that has run into
`MaxTs`, and nothing else. The other modules assume no fairness: callers decide
when to begin, commit and collect.

## Proofs

| Theorem | For every value of the constants |
|---|---|
| `OracleProofs`: `Invariance`, `TypeCorrect`, `WatermarkIsSafe`, `WatermarkIsTight`, `TimestampsAreUnique`, `SweepsAreSafe`, `RegistryIsExact`, `WatermarkOnlyAdvances` | the safety properties of the run `oracle` |
| `SnapshotIsolationProofs`: `Invariance`, `ReadsAreStable` | those of `promise` |
| `DbProofs`: `TypeCorrect`, `UnreportedIsInvisible`, `ChainsAreOrdered`, `LocksAreOrdered`, `LocksCannotDeadlock`; `DbHistoryProofs`: `Invariance`, `ReadsAreSnapshots`, `SnapshotsStayIntact`, `FirstCommitterAlwaysWins`, `SerializableWriters` | those of `db_conflicts`, `db_gc` and `db_serializable` |
| `DbProofs`: `KeepsOracleContract`; `DbRefinementProofs`: `KeepsPromise`, `KeepsStoreContract` | `Db` implements `OracleProtocol`, `SnapshotIsolation` and `VersionStore` |
| `DurableProofs`: `LogInvariance`, `AckedAreSynced`, `LogTimestampsAreUnique` | what a log holds through crashes, recoveries and errors of the log |
| `DurableProofs`: `DurableInvariance`, `SurvivorsAreIsolated`, `KeyRecordsAreInOrder`, `DependenciesAreKept`, `SnapshotsAreRecovered`, `RecoveryCompletes` | isolation and snapshots of a database with a log, and what `Db::open` restores, through any number of crashes, recoveries and errors of the log |

Assumptions. `MaxTsAssumption`, `ShardAssumption`, `BoundAssumption`,
`FallibleAssumption` and `DurableAssumption` give constants their types, and
`KindAssumption` lists the kinds of handle. `NoneAssumption`: the value of an
absent key is nobody's. `TimestampAssumption`: timestamps are natural numbers.
`ShardCountAssumption` says that the number of shards, the power of two
`MemoryStore::with_shards` rounds up to, is a positive number: a fact about `2^i` that
TLC evaluates on every instance and the provers, which know nothing of
exponents, cannot derive. Sets of handles, keys and collectors are arbitrary;
`MaxTs` and `MaxOps` are arbitrary natural numbers. `KeepsStoreContract` has
one hypothesis, `~Fallible`: the in-memory store never fails, and what a store
that does may do is not part of the trait's contract.

### The oracle

None of the properties is inductive by itself.

- The watermark. To know that `commit_done` may move the watermark one has to
  know that every timestamp skipped over has finished. `WatermarkInv` says that
  each timestamp between the watermark and `next_ts` is either in `ahead` or
  held by one commit, never both, and that `done_upto + 1` is not in `ahead`.
  `FirstGapExists` shows that the drain loop ends at a gap below `next_ts`.
- The registry. To know that removing an entry forgets no live handle, the count
  must be the number of handles at that timestamp. `RegistryInv` says so with
  `Cardinality`, and adds that every snapshot is at or below the watermark, from
  which a sweep's low watermark bounds those that begin later.

### The database

`DbInv` of `DbProperties` is the inductive invariant. `db_gc` checks it with TLC.

- `Contract!IInv`. Every step of `Db` is a step of `OracleProtocol` or leaves
  its variables alone (`KeepsOracleContract`), so what is proved of the oracle
  is available here: commits in flight are above the watermark, sweeps below
  every snapshot.
- `Lifecycle`. What the stage of a handle says of its buffer, outcome and
  timestamps; every two handles that took a timestamp have different ones.
- `LocksAscending`. Only a commit on the general path of `try_commit` keeps a
  lock between steps, and it has all the locks it wants below any it holds. A
  circle of waiting commits is impossible because the one that holds the highest
  lock waits for nothing held (`HighestProceeds`); when no lock is held every
  commit can take its first.
- `ChainsAscending`. Timestamps are taken before locks, so a late commit could
  be pushed behind a younger version. Validation refuses it: its snapshot is
  below its own timestamp, so below the younger version as well.
- `VersionKept`. Validation looks at the newest version only, and a sweep
  removes deleted keys altogether. A conflict is never missed since a version
  that was applied is still there, or superseded, or at or below every snapshot
  of a live handle and the watermark, where no handle to come can conflict with
  it. `FirstCommitterWins` follows when a commit is applied.
- `Intact`. The state any reachable timestamp reads is the one the applied
  transactions spell. It must be said of every timestamp at or above the
  watermark, not only of the watermark, for the watermark moves without the
  chains. A sweep keeps it because `retain` leaves what is visible at or above
  the low watermark (`RetainVisible` of `StoreProofs`), and an applied commit
  because it lies above the watermark and above every live snapshot.
- `WritersSerializable`. A serial order of the transactions applied so far is
  extended at its end by the one now applied: no other has overwritten what it
  read, or its validation would have refused it (by `VersionKept`).

### The refinements

The abstract state is computed from the handles (`Phase`, `Committed`, `When`
and their companions in `DbProperties`). For `SnapshotIsolation`, `TryCommit`
that applies is the abstract `Commit`; its guard, that nobody wrote the
footprint after the snapshot, is what validation checks, again by `VersionKept`,
and that its timestamp is free and above what is visible comes from the oracle.
Reads are the abstract reads by `Intact`. Reporting a timestamp raises
`visible`, and taking one, locks and sweeps are stuttering steps. For
`VersionStore` the calls under way are the handles inside `try_commit` and the
collectors between shards; a swept shard is a step that removes only what the
contract lets a sweep remove, at the low watermark the sweep started with.

### The log

`LogInv` of `DurableDb`: the records have distinct timestamps below `next_ts`,
every commit that may still be logged has a timestamp of its own that is in no
record, there is no such commit when the process is down (so that `Db::open`
may start counting from the log alone, below timestamps that were handed out
and lost), and a commit past its sync that is not an error is among the synced
records. The record of an acknowledged commit survives `Crash` because a crash
keeps at least what was synced.

### Recovery

Between crashes a database with a log is the in-memory database with a pause in
the middle of a commit. `MemPc` and `MemOutcome` of `DurableDb` map it: a commit
that is being logged is one that is decided, one that the log failed or gave
back is applied, one that a crash took was never asked for. Under the mapping
`DurableProofs` instantiates the modules of the in-memory database with their
theorems (`Mem`), so a step of the running process is a step of `Db` or none
(`MemStep`), and its invariant (`MemInv`) is preserved without a second proof.
What is left are the two steps `Db` does not have.

`Crash` forgets handles, and what it forgets has to be consistent: the history
shrinks, and a subset of isolated transactions is isolated, a serial order with
some left out is still one (`HistoryShrinks`). `Open` builds chains, watermark
and counter anew, and the whole invariant must hold of them with the surviving
history. That takes four facts about the rest of the state, the other conjuncts
of `DurableInv`, next to `LogInv`:

- `RecordsApplied`. A record stands for one applied commit, with its timestamp;
  otherwise the chains would hold versions the history does not explain.
- `Fates`. What a handle's outcome says about its stage and its record: what
  counts as recovered is on disk, what is gone has ended.
- `Forgotten`. While the process is down, every commit that still counts is in
  the log, and nobody holds a timestamp or a sweep from before. This lets the
  oracle start from the log alone.
- `ReadsOnDisk`. What a handle has read is on disk, unless its commit returned a
  log error: a read comes from a version at or below the watermark
  (`VisibleOnDisk`), and a timestamp is reported only after the sync.
  `RecoveryKeepsDependencies` follows.

`KeyRecordsInOrder` needs one more invariant, `LogAboveSnapshots`: what reaches
the log after a record lies above the snapshot that record's transaction read
at, since it was unreported when it was appended. Of two commits that write one
key one has the other in its snapshot, so that one is logged later. This is what
makes a crash, which keeps a prefix of the log, keep a prefix of every key's
history; it also means that the records of one key reach `Db::open` in order,
and its sort only has to leave them so.

The chain of a key after `Open` is a sorted sequence. That one exists
(`SortedExists`) is an induction on the number of records, written as a least
counterexample, since the induction theorems cannot be instantiated here; that
it leaves no record out (`SortedIsOnto`) is a pigeonhole argument: it is
injective because timestamps are unique in the log, and as long as the set is
large. `RecoveredChain` and `RecoveredValue` conclude that the chain is
ascending and that the watermark reads its last write.

### Only model-checked

- Liveness under fairness (`WatermarkCatchesUp`, `ClientReturns`,
  `TimestampsSettle`, `GarbageReclaimed`), which is out of the prover's reach.
- What `Clients` says of the programs: an instance by construction, with fixed
  threads and scripts.
- The codec, whose decoding loop would need induction over data.

## Where the documentation and the code disagree

1. `src/src/db.rs` says that serializable transactions reject the read-only
   anomaly. A serializable transaction without writes is not validated, and
   writers may be applied against the order of their timestamps, so it can
   observe a state no serial order explains (`read_only_anomaly`). The writers
   alone are serializable (`WritersSerializable`), which is the weaker promise
   the same comment goes on to make. The order is that of validation, not of
   commit timestamps.
2. `Transaction::commit` says writes are visible to transactions that begin
   after it returns. They may have to wait for an earlier timestamp
   (`returned_visible`); `TimestampsSettle` shows that they do appear.
3. `Transaction` says writes become visible only when commit succeeds. After a
   log error they are visible although commit failed (`failed_visible`). Such a
   write is also what `RecoveryKeepsDependencies` has to except: an acknowledged
   transaction may have read it, and a crash then loses it alone.

Two more, for which no run is kept: `docs/API.md` says an unacknowledged commit
is never durable, and the comment in `commit_writes` (`src/src/db.rs:98-102`)
that a crash before the sync completes leaves a transaction that is recovered as
absent. A crash after the append may keep the record, and one after the sync
does, and `Open` installs it (the outcome `recovered` of `DurableDb`, which
`RecoveredSnapshots` and `RecoveryIsComplete` count among the survivors). And `key_count` is
said to count every key ever written, but a sweep removes deleted keys.

## Not modelled

`key_count` and the number `collect_garbage` returns; reads that a custom store
fails, which change nothing; custom stores that break the contract; error
formatting and captions; `Timestamp` formatting; `wal-db` itself; a log with a
damaged record, which `Db::open` refuses as a whole (`CommitRecord` shows which
records it refuses). `examples/durable_store.rs` has no script of its own: to
commit, drop the database and reopen it is what `DurableDb` does. The rest of
the source is documentation, re-exports and tests.

## Plan

All items are done.

1. `Oracle`, `OracleProtocol` and their proofs.
2. `MemoryStore`, `Db` and the safety and liveness of the in-memory database.
3. `SnapshotIsolation` with its proofs, and the refinements checked by TLC.
4. `DurableDb`: log, crash, recovery.
5. Statements of the documentation that the code does not keep.
6. `CommitRecord`: the codec.
7. `Clients`: autocommit, the retry loops and the example programs, with
   liveness.
8. `VersionStore`: the contract of the store, and stores that fail.
9. Proofs about `Db`: chains ascending, first committer wins, lock order, and
   the refinement of `OracleProtocol`, `VersionStore` and `SnapshotIsolation`;
   then `AckedIsSynced` and `LogTimestampsUnique` for `DurableDb`.
10. Proofs about recovery: the invariant of the in-memory database carried
    through `Crash` and `Open`, and with it isolation, dependencies and
    snapshots of the durable database.
