------------------------------ MODULE DurableDb ------------------------------
(***************************************************************************)
(* A database opened with Db::open (src/db.rs, src/durable.rs): the Db of   *)
(* Db.tla whose commits append a record to a write-ahead log and sync it   *)
(* between being applied and being reported, and which is rebuilt from the *)
(* log after a crash.                                                      *)
(*                                                                         *)
(* The log is the external crate wal-db, modelled from how CommitLog uses  *)
(* it: append_and_sync writes the record, then syncs; one sync covers every *)
(* record written before it (group commit).  A crash keeps what was synced *)
(* and any prefix of the rest.  Either half may fail when Faulty.          *)
(***************************************************************************)
EXTENDS Db

CONSTANTS
    MaxCrash,   \* bound on the number of crashes
    Faulty      \* whether the log's append and sync may return an error

ASSUME DurableAssumption == MaxCrash \in Nat /\ Faulty \in BOOLEAN

VARIABLES
    log,        \* the records in the log file, in log order
    synced,     \* how many of them are known to be on disk
    up,         \* whether the process is running
    crashes     \* how many times it has crashed

logVars == <<log, synced, up, crashes>>
durableVars == <<vars, logVars>>

Record(t) == [txn |-> t, commit_ts |-> commit_ts[t]]

Logged == {log[i].txn : i \in DOMAIN log}

\* Wal::append_and_sync, first half: the record goes to the end of the file.
WalAppend(t) ==
    /\ log' = Append(log, Record(t))
    /\ UNCHANGED <<synced, up, crashes>>

\* Second half: everything up to the record of t, or more, is on disk.
WalSync(t) ==
    /\ \E n \in synced..Len(log) :
        /\ \E i \in 1..n : log[i].txn = t
        /\ synced' = n
    /\ UNCHANGED <<log, up, crashes>>

DurableInit ==
    /\ Init
    /\ log = <<>>
    /\ synced = 0
    /\ up = TRUE
    /\ crashes = 0

-----------------------------------------------------------------------------
(* commit_writes of a database with a log *)

\* CommitLog::append_committed of an applied commit: the append,
AppendRecord(t) ==
    /\ pc[t] = "decided"
    /\ outcome[t] = "ok"
    /\ WalAppend(t)
    /\ pc' = [pc EXCEPT ![t] = "appended"]
    /\ UNCHANGED <<oracleVars, storeVars, kind, snap_ts, writes, seen,
                   commit_ts, outcome, gc>>

\* Faulty variant: returns before anything is on disk.
SyncRecord_skipped(t) ==
    /\ pc[t] = "appended"
    /\ pc' = [pc EXCEPT ![t] = "logged"]
    /\ UNCHANGED <<oracleVars, storeVars, kind, snap_ts, writes, seen,
                   commit_ts, outcome, gc, logVars>>

\* and the sync.
SyncRecord(t) ==
    /\ pc[t] = "appended"
    /\ WalSync(t)
    /\ pc' = [pc EXCEPT ![t] = "logged"]
    /\ UNCHANGED <<oracleVars, storeVars, kind, snap_ts, writes, seen,
                   commit_ts, outcome, gc>>

\* append_committed returns an error, with or without the record in the file.
\* What try_commit applied stays applied.
AppendFails(t) ==
    /\ Faulty
    /\ pc[t] \in {"decided", "appended"}
    /\ outcome[t] = "ok"
    /\ pc' = [pc EXCEPT ![t] = "logged"]
    /\ outcome' = [outcome EXCEPT ![t] = "durability"]
    /\ UNCHANGED <<oracleVars, storeVars, kind, snap_ts, writes, seen,
                   commit_ts, gc, logVars>>

\* Faulty variant: the timestamp may be reported as soon as the writes are
\* applied; the record is written and synced all the same.
DurableCommitDone_before_log(t) ==
    /\ pc[t] \in {"decided", "logged"}
    /\ IF commit_ts[t] <= done_upto \/ commit_ts[t] \in ahead
       THEN pc[t] = "logged" /\ UNCHANGED oracleVars
       ELSE commit_done(commit_ts[t])
    /\ pc' = IF pc[t] = "logged" \/ outcome[t] = "conflict"
             THEN [pc EXCEPT ![t] = "returning"] ELSE pc
    /\ UNCHANGED <<chains, lock, kind, snap_ts, writes, seen, commit_ts,
                   outcome, gc, logVars>>

\* The timestamp is reported after a conflict, after the sync, and after an
\* error of the log.
DurableCommitDone(t) ==
    /\ \/ pc[t] = "decided" /\ outcome[t] = "conflict"
       \/ pc[t] = "logged"
    /\ Report(t)
    /\ UNCHANGED logVars

-----------------------------------------------------------------------------
(* Crash and recovery *)

\* What becomes of a handle when the process dies and the log keeps n records.
\* A commit whose record is kept has happened, even if commit never returned
\* or returned an error; one that was only in memory has not.
Fate(t, n) ==
    IF pc[t] = "idle" THEN "none"
    ELSE IF pc[t] = "ended" /\ outcome[t] = "ok" THEN "ok"
    ELSE IF \E i \in 1..n : log[i].txn = t THEN "recovered"
    ELSE IF outcome[t] \in {"durability", "failed"} THEN "failed"
    ELSE "lost"

\* The fates of a transaction of which nothing is left.
Gone == {"lost", "failed"}

\* The handles whose history is kept: of one that has left nothing in the file,
\* nothing is remembered.
Kept(t, n) == Fate(t, n) \notin Gone /\ DOMAIN writes[t] # {}

\* Memory is gone; the file keeps the synced records and some of the others.
Crash ==
    /\ up
    /\ crashes < MaxCrash
    /\ \E n \in synced..Len(log) :
        LET Keep(f, none) == [t \in Txn |-> IF Kept(t, n) THEN f[t] ELSE none]
        IN  /\ log' = SubSeq(log, 1, n)
            /\ synced' = n
            /\ outcome' = [t \in Txn |-> Fate(t, n)]
            /\ writes' = Keep(writes, Nothing)
            /\ seen' = Keep(seen, Nothing)
            /\ snap_ts' = Keep(snap_ts, 0)
            /\ commit_ts' = Keep(commit_ts, 0)
    /\ up' = FALSE
    /\ crashes' = crashes + 1
    /\ pc' = [t \in Txn |-> IF pc[t] = "idle" THEN "idle" ELSE "ended"]
    /\ lock' = [s \in Shard |-> None]
    /\ gc' = [c \in Collector |-> Resting]
    /\ UNCHANGED <<oracleVars, chains, kind>>

\* The numbers of the records in S, sorted.
InOrder(S, Before(_, _)) ==
    CHOOSE s \in [1..Cardinality(S) -> S] :
        \A i, j \in DOMAIN s : i < j => Before(s[i], s[j])

\* Faulty variant: newest first.
ReplayOrder_descending(S) ==
    InOrder(S, LAMBDA i, j : log[i].commit_ts > log[j].commit_ts)

\* The order in which Db::open installs the records in S: by commit timestamp,
\* ties in log order (a stable sort).
ReplayOrder(S) ==
    InOrder(S, LAMBDA i, j :
        \/ log[i].commit_ts < log[j].commit_ts
        \/ log[i].commit_ts = log[j].commit_ts /\ i < j)

\* install_recovered of each record in turn, as it leaves the chain of k.
Recovered(k) ==
    LET turn == ReplayOrder({i \in DOMAIN log :
                                k \in DOMAIN writes[log[i].txn]})
    IN  [n \in DOMAIN turn |->
            Version(log[turn[n]].commit_ts, writes[log[turn[n]].txn][k])]

\* Faulty variant: counts the records, although rejected commits and lost ones
\* leave gaps.
Highest_counted == Len(log)

\* The greatest recovered timestamp, 0 for an empty log.
Highest == Max({0} \cup {log[i].commit_ts : i \in DOMAIN log})

\* Db::open: a fresh store filled from the log, and an oracle that resumes
\* after the greatest timestamp in it.
Open ==
    /\ ~up
    /\ up' = TRUE
    /\ chains' = [k \in Key |-> Recovered(k)]
    /\ next_ts' = Highest + 1
    /\ read_ts' = Highest
    /\ done_upto' = Highest
    /\ ahead' = {}
    /\ readers' = [ts \in {} |-> 0]
    /\ UNCHANGED <<lock, txnVars, gc, log, synced, crashes>>

-----------------------------------------------------------------------------

\* The steps a database with a log shares with one without.
Shared(t) ==
    \/ \E knd \in Kind : Begin(t, knd)
    \/ \E k \in Key : Get(t, k) \/ Put(t, k) \/ Delete(t, k)
    \/ CommitReadOnly(t)
    \/ Rollback(t)
    \/ AllocCommitTs(t)
    \/ Acquire(t)
    \/ \E ok \in BOOLEAN : TryCommit(t, ok)
    \/ EndCommit(t)

DurableNext ==
    \/ /\ up
       /\ \E t \in Txn :
            \/ Shared(t) /\ UNCHANGED logVars
            \/ AppendRecord(t)
            \/ SyncRecord(t)
            \/ AppendFails(t)
            \/ DurableCommitDone(t)
    \/ /\ up
       /\ \E c \in Collector : CollectBegin(c) \/ CollectShard(c)
       /\ UNCHANGED logVars
    \/ Crash
    \/ Open

DurableSpec == DurableInit /\ [][DurableNext]_durableVars

-----------------------------------------------------------------------------

\* commit returned success to the caller of t.
Acknowledged(t) ==
    pc[t] = "ended" /\ outcome[t] = "ok" /\ DOMAIN writes[t] # {}

\* commit returned an error of the log to the caller of t, or was about to.
Failed(t) == is_fatal(outcome[t]) \/ outcome[t] = "failed"

\* What memory holds: commits applied since the process started or recovered
\* when it did.
InMemory ==
    {t \in Txn : /\ outcome[t] \in {"ok", "durability", "recovered"}
                 /\ DOMAIN writes[t] # {}}

\* The state as of ts according to those commits.
DurableValueAt(k, ts) ==
    LET W == {u \in InMemory : k \in DOMAIN writes[u] /\ commit_ts[u] <= ts}
    IN  IF W = {} THEN None
        ELSE LET last == CHOOSE u \in W :
                             \A v \in W : commit_ts[v] <= commit_ts[u]
             IN  writes[last][k]

\* db.rs: a commit is made durable "before it is acknowledged".  Whatever a
\* crash takes, it is never the record of a commit that returned success.
AckedIsSynced ==
    \A t \in Txn : Acknowledged(t) => \E i \in 1..synced : log[i].txn = t

\* A record in the log is the only one with its timestamp, across crashes that
\* forget timestamps that were handed out.
LogTimestampsUnique ==
    \A i, j \in DOMAIN log : log[i].commit_ts = log[j].commit_ts => i = j

\* Commits reach the log in any order (db.rs:255), but of two that write one
\* key the earlier is in the log before the later can begin to commit.  So a
\* crash, which keeps a prefix, never keeps a write and loses an earlier one of
\* the same key, whether or not anybody read it.
KeyRecordsInOrder ==
    \A i, j \in DOMAIN log :
        /\ i < j
        /\ DOMAIN writes[log[i].txn] \cap DOMAIN writes[log[j].txn] # {}
        => log[i].commit_ts < log[j].commit_ts

\* While the database runs, what a handle or a new transaction reads is what
\* the surviving and the new commits say, before and after recovery.
RecoveredSnapshots ==
    up => \A t \in Txn, k \in Key :
        LET ts == IF pc[t] \in {"idle", "ended"} THEN read_ts ELSE snap_ts[t]
        IN  visible_value(chains[k], ts) = DurableValueAt(k, ts)

\* Recovery never keeps a transaction and loses one whose write it read: what
\* is visible is in the log.  The exception is a write whose commit returned a
\* log error and is visible all the same (see FailedCommitInvisible).
RecoveryKeepsDependencies ==
    \A t \in Logged : \A k \in DOMAIN seen[t] :
        seen[t][k] = None \/ seen[t][k] \in Logged \/ Failed(seen[t][k])

\* Db::open: a transaction that begins right after recovery sees the last
\* surviving write of every key.
RecoveryIsComplete ==
    [][~up /\ up' =>
        \A k \in Key : visible_value(chains'[k], read_ts')
                           = DurableValueAt(k, MaxTs)]_durableVars

-----------------------------------------------------------------------------
(* The database in memory *)

\* How far handles have come and what has become of them, seen by a database
\* that knows of no log: what the log is about to record, failed to record or
\* gave back is applied, what a crash has taken was never asked for.
MemPc == [t \in Txn |-> IF pc[t] \in {"appended", "logged"} THEN "decided"
                                                            ELSE pc[t]]
MemOutcome == [t \in Txn |->
                  IF outcome[t] \in {"durability", "recovered"} THEN "ok"
                  ELSE IF outcome[t] \in Gone THEN "rolled_back"
                  ELSE outcome[t]]

Memory == INSTANCE DbProperties WITH pc <- MemPc, outcome <- MemOutcome

\* Isolation outlives crashes: of two transactions that wrote one key and are
\* left, from before or after a recovery, one has seen the other commit, and
\* the serializable ones have a serial order.
SurvivorsIsolated == Memory!FirstCommitterWins /\ Memory!WritersSerializable

-----------------------------------------------------------------------------
(* What makes the invariants inductive *)

LogType ==
    /\ log \in Seq([txn : Txn, commit_ts : Nat])
    /\ synced \in 0..Len(log)
    /\ next_ts \in Nat
    /\ commit_ts \in [Txn -> Nat]
    /\ DOMAIN pc = Txn /\ DOMAIN outcome = Txn /\ DOMAIN writes = Txn

\* A commit that has its timestamp and is not in the log yet.
Unlogged(t) == pc[t] \in {"committing", "decided"}

\* The counter is ahead of the log, and the timestamp of a commit that may yet
\* be logged is its own; when the process is down there is no such commit.
LogOrder ==
    /\ \A i \in 1..Len(log) : log[i].commit_ts < next_ts
    /\ \A t \in Txn : Unlogged(t) =>
        /\ up
        /\ commit_ts[t] < next_ts
        /\ \A i \in 1..Len(log) : log[i].commit_ts # commit_ts[t]
        /\ \A u \in Txn \ {t} : Unlogged(u) => commit_ts[u] # commit_ts[t]
    /\ ~up => \A t \in Txn : pc[t] \in {"idle", "ended"}

\* From the return of append_and_sync on, what is not an error is on disk.
LogComplete ==
    \A t \in Txn :
        /\ pc[t] \in {"idle", "active", "committing"} => outcome[t] # "ok"
        /\ /\ pc[t] \in {"logged", "returning", "ended"}
           /\ outcome[t] = "ok" /\ DOMAIN writes[t] # {}
           => \E i \in 1..synced : log[i].txn = t

LogInv == LogType /\ LogOrder /\ LogComplete /\ LogTimestampsUnique

\* A record stands for one commit that was applied, with its timestamp.
RecordsApplied ==
    \A i \in 1..Len(log) :
        /\ log[i].txn \in InMemory
        /\ commit_ts[log[i].txn] = log[i].commit_ts
        /\ pc[log[i].txn] \in {"appended", "logged", "returning", "ended"}

\* What is known of a handle from its outcome and its timestamp.
Fates ==
    \A t \in Txn :
        /\ outcome[t] \in Gone => pc[t] = "ended"
        /\ outcome[t] = "recovered" =>
              pc[t] = "ended" /\ \E i \in 1..synced : log[i].txn = t
        /\ is_fatal(outcome[t]) => pc[t] \in {"logged", "returning", "ended"}
        /\ pc[t] = "appended" => outcome[t] = "ok"
        /\ commit_ts[t] # 0 =>
              pc[t] \notin {"idle", "active"} /\ snap_ts[t] < commit_ts[t]

\* While the process is down nobody sweeps, and what the log does not have is
\* forgotten.
Forgotten ==
    ~up => /\ gc = [c \in Collector |-> Resting]
           /\ \A t \in Txn : IF t \in InMemory THEN t \in Logged
                             ELSE commit_ts[t] = 0 /\ snap_ts[t] = 0

\* Whatever a handle has read is on disk, unless its commit returned an error
\* of the log.
ReadsOnDisk ==
    \A t \in Txn : \A k \in DOMAIN seen[t] :
        LET u == seen[t][k]
        IN  u = None \/ Failed(u) \/ \E i \in 1..synced : log[i].txn = u

\* What is logged after a record lies above the snapshot its transaction had.
LogAboveSnapshots ==
    \A i, j \in 1..Len(log) :
        i < j => snap_ts[log[i].txn] < log[j].commit_ts

-----------------------------------------------------------------------------
(* What the documentation says and the code does not do *)

\* txn.rs:62: writes "become visible to others only when commit succeeds".
FailedCommitInvisible ==
    \A t, u \in Txn : \A k \in DOMAIN seen[t] :
        seen[t][k] = u => outcome[u] # "durability"

=============================================================================
