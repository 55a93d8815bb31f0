---------------------------- MODULE DbProperties ----------------------------
(* What makes the database correct, stated over the variables of Db. *)
EXTENDS Db

PartialFcn(S, T) == UNION {[D -> T] : D \in SUBSET S}

\* The values the variables may take.
TypeOK ==
    /\ next_ts \in Nat
    /\ read_ts \in Nat
    /\ done_upto \in Nat
    /\ ahead \in SUBSET Nat
    /\ DOMAIN readers \in SUBSET Nat
    /\ \A ts \in DOMAIN readers : readers[ts] \in Nat \ {0}
    /\ chains \in [Key -> Seq([commit_ts : Nat, value : Txn \cup {None}])]
    /\ lock \in [Shard -> Txn \cup {None}]
    /\ pc \in [Txn -> {"idle", "active", "committing", "decided",
                       "returning", "ended"}]
    /\ kind \in [Txn -> AllKinds \cup {"none"}]
    /\ snap_ts \in [Txn -> Nat]
    /\ writes \in [Txn -> PartialFcn(Key, Txn \cup {None})]
    /\ seen \in [Txn -> PartialFcn(Key, Txn \cup {None})]
    /\ commit_ts \in [Txn -> Nat]
    /\ outcome \in [Txn -> {"none", "ok", "rolled_back"} \cup Refused]
    /\ gc \in [Collector -> [low : Nat, left : SUBSET Shard]]

-----------------------------------------------------------------------------

\* The transactions whose writes try_commit applied.
Applied == {t \in Txn : outcome[t] = "ok" /\ DOMAIN writes[t] # {}}

\* The handles that are registered and may still read or commit.
Live == {t \in Txn : pc[t] \notin {"idle", "ended"}}

\* The reference the store is held against: the state as of ts, from the
\* history of applied transactions alone.
Writers(k, ts) ==
    {u \in Applied : k \in DOMAIN writes[u] /\ commit_ts[u] <= ts}

LastWriter(k, ts) ==
    {u \in Writers(k, ts) :
        \A v \in Writers(k, ts) : commit_ts[v] <= commit_ts[u]}

TheOne(S) == CHOOSE x \in S : TRUE

ValueAt(k, ts) ==
    IF LastWriter(k, ts) = {} THEN None
    ELSE writes[TheOne(LastWriter(k, ts))][k]

\* store.rs: a chain is "kept in ascending commit-timestamp order", although
\* timestamps are taken before the locks and versions are pushed in the order
\* in which commits win them.
ChainsAscending ==
    \A k \in Key : \A i \in 1..(Len(chains[k]) - 1) :
        chains[k][i].commit_ts < chains[k][i + 1].commit_ts

\* Transaction and Snapshot: every read observed the state as of the handle's
\* timestamp, and no commit since has changed what that state was.
ReadsFromSnapshot ==
    \A t \in Txn : \A k \in DOMAIN seen[t] :
        seen[t][k] = ValueAt(k, snap_ts[t])

\* db.rs, collect_garbage: "a version a live reader can still reach is never
\* reclaimed".  Every live handle, and every one that could begin now, would
\* still read the state as of its timestamp, whatever sweeps are under way.
SnapshotsIntact ==
    \A ts \in {snap_ts[t] : t \in Live} \cup {read_ts} : \A k \in Key :
        visible_value(chains[k], ts) = ValueAt(k, ts)

\* First committer wins: of two applied transactions that wrote a common key,
\* one had committed by the time the other took its snapshot.
FirstCommitterWins ==
    \A t, u \in Applied :
        t # u /\ DOMAIN writes[t] \cap DOMAIN writes[u] # {} =>
            commit_ts[t] <= snap_ts[u] \/ commit_ts[u] <= snap_ts[t]

\* Nothing half-done is visible: a transaction that is still between taking its
\* timestamp and reporting it lies above every snapshot in use.
UnreportedInvisible ==
    \A t \in Txn : pc[t] \in {"committing", "decided"} =>
        /\ commit_ts[t] > read_ts
        /\ \A u \in Live : commit_ts[t] > snap_ts[u]

\* Only a commit inside try_commit's general path holds shard locks, and it
\* takes them in ascending order: what it holds lies below what it still wants.
LocksAscending ==
    \A s \in Shard : lock[s] # None =>
        LET t == lock[s]
            wanted == to_lock(writes[t], reads(t))
        IN  /\ pc[t] = "committing"
            /\ ~IsFastPath(writes[t], reads(t))
            /\ s \in wanted
            /\ \A r \in wanted : r < s => lock[r] = t

\* A commit inside try_commit can go on: it can validate, or take the next lock
\* of the general path.
CanProceed(t) ==
    LET missing == {s \in to_lock(writes[t], reads(t)) : lock[s] # t}
    IN  \/ CanValidate(t, writes[t], reads(t))
        \/ /\ ~IsFastPath(writes[t], reads(t))
           /\ missing # {} /\ Grantable(Min(missing))

\* store.rs, try_commit: "concurrent commits acquire shared shards in the same
\* sequence and cannot deadlock": of those inside it, one can always go on.
LocksNeverDeadlock ==
    (\E t \in Txn : pc[t] = "committing") =>
        \E t \in Txn : pc[t] = "committing" /\ CanProceed(t)

-----------------------------------------------------------------------------
(* Serializability *)

\* t comes before u in every equivalent serial order: u overwrote what t wrote,
\* read what t wrote, or overwrote what t read.
Precedes(t, u) ==
    /\ t # u
    /\ \/ \E k \in DOMAIN writes[t] \cap DOMAIN writes[u] :
            commit_ts[t] < commit_ts[u]
       \/ \E k \in DOMAIN writes[t] \cap DOMAIN seen[u] :
            commit_ts[t] <= snap_ts[u]
       \/ \E k \in DOMAIN seen[t] \cap DOMAIN writes[u] :
            snap_ts[t] < commit_ts[u]

\* There is a serial order of the transactions in S.
SerialOrderExists(S) ==
    \A C \in (SUBSET S) \ {{}} :
        \E first \in C : \A t \in C : ~Precedes(t, first)

\* Applied transactions whose reads, if any, were validated.
ValidatedWriters ==
    {t \in Applied : kind[t] = "ser" \/ DOMAIN seen[t] = {}}

\* db.rs, begin_serializable: "serializable behavior for the transactions that
\* commit writes".
WritersSerializable == SerialOrderExists(ValidatedWriters)

-----------------------------------------------------------------------------
(* What the documentation says and the code does not do *)

\* db.rs:330-331: read-set validation "rejects write skew and the read-only
\* anomaly".  If it did, a serializable transaction that only reads would fit
\* into the serial order of the writers.
NoReadOnlyAnomaly ==
    SerialOrderExists({t \in Txn : outcome[t] = "ok" /\ kind[t] = "ser"})

\* txn.rs:236: "On success every buffered write becomes visible to transactions
\* that begin afterward": once commit has returned, one that begins now, at
\* read_ts, sees it.
ReturnedCommitVisible ==
    \A t \in Applied : pc[t] = "ended" => commit_ts[t] <= read_ts

-----------------------------------------------------------------------------
(* Refinement *)

\* The timestamp a handle has yet to report, the one it is registered at, and
\* the one a collector is sweeping with; 0 for none.
Held == [t \in Txn |-> IF pc[t] \in {"committing", "decided"}
                       THEN commit_ts[t] ELSE 0]
Snap == [t \in Txn |-> IF t \in Live THEN snap_ts[t] ELSE 0]
Low == [c \in Collector |-> gc[c].low]

\* Inner and ActiveReader use the oracle as its contract demands: every
\* timestamp is reported exactly once, every handle registered and released.
Contract == INSTANCE OracleProtocol WITH
    Committer <- Txn, Reader <- Txn,
    held <- Held, live <- Live, snap <- Snap, low <- Low

OracleContract == Contract!Spec

\* The versions in the store, the calls of try_commit under way, and the low
\* watermarks of the sweeps under way.
Row(k, v) == [key |-> k, commit_ts |-> v.commit_ts, value |-> v.value]
Rows(chs) == UNION {{Row(k, chs[k][i]) : i \in DOMAIN chs[k]} : k \in Key}
CallOf(t) == [read_ts |-> snap_ts[t], commit_ts |-> commit_ts[t],
              writes |-> writes[t], reads |-> reads(t)]
Stored == Rows(chains)
Calls == {CallOf(t) : t \in {t \in Txn : pc[t] = "committing"}}
Sweeping == {gc[c].low : c \in {c \in Collector : gc[c].left # {}}}

\* MemoryStore keeps the contract of the VersionStore trait: under its shard
\* locks every commit takes effect at one point, and a sweep that goes shard by
\* shard with an ageing low watermark drops nothing that may still be observed.
StoreContract == INSTANCE VersionStore WITH
    Timestamp <- 0..MaxTs,
    versions <- Stored, commits <- Calls, sweeps <- Sweeping

ImplementsVersionStore == StoreContract!StoreSpec

\* The history of a handle as its user sees it.
Phase == [t \in Txn |->
             IF t \in Applied THEN "committed"
             ELSE IF pc[t] = "idle" THEN "idle"
             ELSE IF outcome[t] = "none" THEN "active"
             ELSE "over"]
Checked == [t \in Txn |-> kind[t] = "ser"]
Observed == [t \in Txn |-> IF outcome[t] \in Refused THEN Nothing ELSE seen[t]]
Committed == [t \in Txn |-> IF t \in Applied THEN writes[t] ELSE Nothing]
When == [t \in Txn |-> IF t \in Applied THEN commit_ts[t] ELSE 0]

\* Seen from outside, the database is the abstract store of
\* SnapshotIsolation: try_commit's validate-and-apply is the one step at which
\* a transaction commits; locks, chains and sweeps do not show.
Promise == INSTANCE SnapshotIsolation WITH
    Timestamp <- 1..MaxTs,
    visible <- read_ts, phase <- Phase, checked <- Checked,
    snapshot <- snap_ts, observed <- Observed,
    batch <- Committed, when <- When

ImplementsSnapshotIsolation == Promise!Spec

-----------------------------------------------------------------------------
(* What makes the invariants inductive *)

\* How far a handle has come bounds what it can have: nothing before it begins,
\* no outcome before try_commit has decided, a timestamp of its own from
\* alloc_commit_ts on.  Nobody reads above the watermark.
Lifecycle ==
    /\ next_ts <= MaxTs + 1
    /\ \A c \in Collector : gc[c].left = {} => gc[c].low = 0
    /\ \A t \in Txn :
        /\ pc[t] = "idle" => DOMAIN writes[t] = {} /\ DOMAIN seen[t] = {}
        /\ pc[t] \in {"committing", "decided", "returning"} =>
              DOMAIN writes[t] # {} /\ commit_ts[t] # 0
        /\ outcome[t] = "none" <=> pc[t] \in {"idle", "active", "committing"}
        /\ t \in Applied => commit_ts[t] # 0
        /\ \A k \in DOMAIN writes[t] : writes[t][k] \in {t, None}
        /\ commit_ts[t] < next_ts
        /\ snap_ts[t] <= read_ts
        /\ \A u \in Txn : t # u /\ commit_ts[t] # 0 =>
              commit_ts[t] # commit_ts[u]

\* What validation relies on, for a chain may have lost its version by then: a
\* version that was applied is still the newest of its key, or superseded, or
\* too old for any live handle to conflict with it.
VersionKept ==
    \A u \in Applied : \A k \in DOMAIN writes[u] :
        \/ newer_than(chains[k], commit_ts[u] - 1)
        \/ /\ commit_ts[u] <= read_ts
           /\ \A t \in Live : commit_ts[u] <= snap_ts[t]

\* SnapshotsIntact has to hold at the watermarks to come as well.
Reachable(ts) == ts >= read_ts \/ \E t \in Live : ts >= snap_ts[t]

Intact ==
    \A ts \in 0..MaxTs : Reachable(ts) => \A k \in Key :
        visible_value(chains[k], ts) = ValueAt(k, ts)

\* The inductive invariant of the database.
DbInv ==
    /\ TypeOK
    /\ Contract!IInv
    /\ Lifecycle
    /\ LocksAscending
    /\ ChainsAscending
    /\ VersionKept
    /\ FirstCommitterWins
    /\ Intact
    /\ ReadsFromSnapshot
    /\ WritersSerializable

=============================================================================
