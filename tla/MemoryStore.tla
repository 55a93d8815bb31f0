----------------------------- MODULE MemoryStore -----------------------------
(***************************************************************************)
(* The sharded in-memory version store (src/store.rs).                     *)
(*                                                                         *)
(* Every key has a chain of versions; every shard has a reader-writer lock *)
(* over the chains of its keys.  A critical section on one shard is one    *)
(* step guarded by the lock being free.  A commit over several shards takes *)
(* their locks one step at a time, which is where two commits can meet; its *)
(* validate-and-apply, done with all of them held, is one step.            *)
(***************************************************************************)
EXTENDS Naturals, Sequences, FiniteSetsExt

CONSTANTS
    Key,
    Shards,     \* the number of shards asked for
    Hash,       \* the hash of each key
    None        \* the absent value, a tombstone's value, a free lock

ASSUME ShardAssumption == Shards \in Nat /\ Hash \in [Key -> Nat]

\* The power of two that the number of shards is rounded up to, at least one.
shard_count == Min({p \in {2^i : i \in 0..Shards} : p >= Shards})
Shard == 0..(shard_count - 1)

\* There is at least one shard: 2^Shards >= Shards, so the set above has a
\* least element, and all of it are powers of two.
ASSUME ShardCountAssumption == shard_count \in Nat \ {0}

VARIABLES
    chains,     \* chains[k]: the versions of k, <<>> when the map has no entry
    lock        \* lock[s]: the commit holding shard s for writing, or None

storeVars == <<chains, lock>>

Version(commit_ts, value) == [commit_ts |-> commit_ts, value |-> value]

\* MemoryStore::with_shards: no keys, every lock free.
with_shards ==
    /\ chains = [k \in Key |-> <<>>]
    /\ lock = [s \in Shard |-> None]

\* The FNV-1a hash is abstracted to a given assignment.
hash_key(k) == Hash[k]

\* MemoryStore::shard_of: the low bits of the hash.
shard_of(k) == hash_key(k) % shard_count

\* sync::read and sync::write grant a guard whenever nobody holds the lock for
\* writing, also after a holder has panicked: a poisoned guard is recovered.
\* The read guards are not held over a step.
Grantable(s) == lock[s] = None

\* How many versions at the start of the chain are at or below ts: the index
\* before the first newer one.
partition_point(chain, ts) ==
    (CHOOSE n \in 1..(Len(chain) + 1) :
        /\ n <= Len(chain) => chain[n].commit_ts > ts
        /\ \A i \in 1..(n - 1) : chain[i].commit_ts <= ts) - 1

\* Faulty variant: the newest version, whatever the snapshot.
visible_value_newest(chain, ts) ==
    IF chain = <<>> THEN None ELSE chain[Len(chain)].value

\* visible_value: the newest version at or below ts, None if there is none or
\* it is a tombstone.
visible_value(chain, ts) ==
    LET visible == partition_point(chain, ts)
    IN  IF visible = 0 THEN None ELSE chain[visible].value

\* newer_than: the newest version was committed after ts.
newer_than(chain, ts) ==
    chain # <<>> /\ chain[Len(chain)].commit_ts > ts

\* MemoryStore::get takes the shard's read guard, so no commit may hold it.
get(k, ts, value) ==
    /\ Grantable(shard_of(k))
    /\ value = visible_value(chains[k], ts)
    /\ UNCHANGED storeVars

-----------------------------------------------------------------------------
(* try_commit: batch maps the written keys to values (None for a delete),  *)
(* reads is the set of keys to validate besides, owner is the caller.      *)

to_lock(batch, reads) == {shard_of(k) : k \in DOMAIN batch \cup reads}

\* The fast path: one write and nothing read.
IsFastPath(batch, reads) == Cardinality(DOMAIN batch) = 1 /\ reads = {}

\* Faulty variant: locks in the order the keys happen to come.
acquire_next_unsorted(owner, batch, reads) ==
    /\ ~IsFastPath(batch, reads)
    /\ \E s \in to_lock(batch, reads) :
        /\ Grantable(s)
        /\ lock' = [lock EXCEPT ![s] = owner]
    /\ UNCHANGED chains

\* The general path takes the missing write lock with the smallest index.
acquire_next(owner, batch, reads) ==
    /\ ~IsFastPath(batch, reads)
    /\ LET missing == {s \in to_lock(batch, reads) : lock[s] # owner}
       IN  /\ missing # {}
           /\ Grantable(Min(missing))
           /\ lock' = [lock EXCEPT ![Min(missing)] = owner]
    /\ UNCHANGED chains

\* What lets validate-and-apply run: on the fast path the one lock is free (it
\* is taken and dropped inside the step); on the general path all are held.
CanValidate(owner, batch, reads) ==
    \A s \in to_lock(batch, reads) :
        IF IsFastPath(batch, reads) THEN Grantable(s) ELSE lock[s] = owner

\* Faulty variants: one of the two validation loops is missing.
HasConflict_reads_only(batch, reads, ts) ==
    \E k \in reads : newer_than(chains[k], ts)

HasConflict_writes_only(batch, reads, ts) ==
    \E k \in DOMAIN batch : newer_than(chains[k], ts)

\* Some key written or read gained a version after the snapshot.
HasConflict(batch, reads, ts) ==
    \E k \in DOMAIN batch \cup reads : newer_than(chains[k], ts)

\* The chains after one version has been appended for each write.
push(batch, commit_ts) ==
    [k \in Key |-> IF k \in DOMAIN batch
                   THEN Append(chains[k], Version(commit_ts, batch[k]))
                   ELSE chains[k]]

\* The locks after the guards of owner are dropped.
release(owner) == [s \in Shard |-> IF lock[s] = owner THEN None ELSE lock[s]]

\* try_commit once it may validate: either every write is applied or none is,
\* and the guards go.  ok is what it returns.
try_commit(owner, snapshot, commit_ts, batch, reads, ok) ==
    /\ CanValidate(owner, batch, reads)
    /\ ok = ~HasConflict(batch, reads, snapshot)
    /\ chains' = IF ok THEN push(batch, commit_ts) ELSE chains
    /\ lock' = release(owner)

-----------------------------------------------------------------------------
(* collect_garbage *)

\* Faulty variant: the version the oldest reader sees goes too.
retain_off_by_one(chain, low) ==
    SubSeq(chain, partition_point(chain, low) + 1, Len(chain))

\* What the sweep leaves of one chain: the newest version at or below the low
\* watermark and everything after it, or nothing if that is one tombstone.
retain(chain, low) ==
    LET visible == partition_point(chain, low)
        kept == IF visible > 1 THEN SubSeq(chain, visible, Len(chain))
                               ELSE chain
    IN  IF Len(kept) = 1 /\ kept[1].commit_ts <= low /\ kept[1].value = None
        THEN <<>> ELSE kept

\* One shard of the sweep, under its write lock.
collect_shard(s, low) ==
    /\ Grantable(s)
    /\ chains' = [k \in Key |-> IF shard_of(k) = s THEN retain(chains[k], low)
                                                   ELSE chains[k]]
    /\ UNCHANGED lock

=============================================================================
