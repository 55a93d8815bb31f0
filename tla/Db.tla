--------------------------------- MODULE Db ---------------------------------
(***************************************************************************)
(* The in-memory database: transactions and snapshots (src/txn.rs) and the *)
(* commit and collection paths of Inner (src/db.rs), over one oracle and   *)
(* one store.                                                              *)
(*                                                                         *)
(* Txn is the set of handles ever created by begin, begin_serializable or  *)
(* snapshot; here a handle is used once, as the code's move semantics      *)
(* demand.  (Clients gives a thread its next handle under the same name.)  *)
(* The value a transaction puts is its own name, so a value says who wrote *)
(* it.  Each handle is driven by its own thread; an action is one access   *)
(* to shared state together with the local work around it.                 *)
(***************************************************************************)
EXTENDS Oracle, MemoryStore

CONSTANTS
    Txn,        \* handles
    Collector,  \* threads that may be inside collect_garbage
    Kind,       \* the kinds of handle that are created
    Op,         \* the write operations that are called: put, delete
    MaxOps,     \* bound on the keys a handle reads plus the keys it writes
    Fallible    \* whether the store may fail: a custom VersionStore may, the
                \* in-memory store by itself does not

AllKinds == {"si", "ser", "snapshot"}

ASSUME KindAssumption == Kind \subseteq AllKinds
ASSUME BoundAssumption == Op \subseteq {"put", "delete"} /\ MaxOps \in Nat
ASSUME FallibleAssumption == Fallible \in BOOLEAN
ASSUME NoneAssumption == None \notin Txn

VARIABLES
    pc,         \* pc[t]: how far handle t has come
    kind,       \* kind[t]: which constructor made it
    snap_ts,    \* snap_ts[t]: ActiveReader.read_ts
    writes,     \* writes[t]: the write buffer, key -> value (None: delete)
    seen,       \* seen[t]: what get returned from the store, key -> value
    commit_ts,  \* commit_ts[t]: the timestamp commit_writes took, or 0
    outcome,    \* outcome[t]: what became of the handle
    gc          \* gc[c]: the shards the sweep has left, and its low watermark

txnVars == <<pc, kind, snap_ts, writes, seen, commit_ts, outcome>>
vars == <<next_ts, read_ts, done_upto, ahead, readers, chains, lock,
          pc, kind, snap_ts, writes, seen, commit_ts, outcome, gc>>

\* The kinds of error a commit can end with, and the one that is fatal: it
\* comes from the log, after the writes were applied.  The others apply nothing.
TxnError == {"conflict", "store", "durability"}
is_fatal(e) == e = "durability"
Refused == {e \in TxnError : ~is_fatal(e)}

Nothing == [k \in {} |-> None]
Resting == [low |-> 0, left |-> {}]

Init ==
    /\ new
    /\ with_shards
    /\ pc = [t \in Txn |-> "idle"]
    /\ kind = [t \in Txn |-> "none"]
    /\ snap_ts = [t \in Txn |-> 0]
    /\ writes = [t \in Txn |-> Nothing]
    /\ seen = [t \in Txn |-> Nothing]
    /\ commit_ts = [t \in Txn |-> 0]
    /\ outcome = [t \in Txn |-> "none"]
    /\ gc = [c \in Collector |-> Resting]

-----------------------------------------------------------------------------
(* Transaction and Snapshot *)

\* Db::begin, begin_serializable and snapshot: register, then read at the
\* timestamp the registry recorded.
Begin(t, knd) ==
    /\ pc[t] = "idle"
    /\ begin_reader(read_ts)
    /\ pc' = [pc EXCEPT ![t] = "active"]
    /\ kind' = [kind EXCEPT ![t] = knd]
    /\ snap_ts' = [snap_ts EXCEPT ![t] = read_ts]
    /\ UNCHANGED <<chains, lock, writes, seen, commit_ts, outcome, gc>>

\* Room for one more operation of t on k under MaxOps.
MayUse(t, k, used) ==
    \/ k \in used
    \/ Cardinality(DOMAIN seen[t]) + Cardinality(DOMAIN writes[t]) < MaxOps

\* Faulty variant: reads at the current watermark.
Get_at_watermark(t, k) ==
    /\ pc[t] = "active"
    /\ k \notin DOMAIN writes[t]
    /\ MayUse(t, k, DOMAIN seen[t])
    /\ LET value == visible_value(chains[k], read_ts)
       IN  /\ get(k, read_ts, value)
           /\ seen' = [seen EXCEPT ![t] = [j \in DOMAIN @ \cup {k} |->
                                              IF j = k THEN value ELSE @[j]]]
    /\ UNCHANGED <<oracleVars, pc, kind, snap_ts, writes, commit_ts, outcome,
                   gc>>

\* Transaction::get and Snapshot::get of a key the handle has not written.  A
\* get of a key it has written answers from the buffer and changes nothing.
Get(t, k) ==
    /\ pc[t] = "active"
    /\ k \notin DOMAIN writes[t]
    /\ MayUse(t, k, DOMAIN seen[t])
    /\ LET value == visible_value(chains[k], snap_ts[t])
       IN  /\ get(k, snap_ts[t], value)
           /\ seen' = [seen EXCEPT ![t] = [j \in DOMAIN @ \cup {k} |->
                                              IF j = k THEN value ELSE @[j]]]
    /\ UNCHANGED <<oracleVars, pc, kind, snap_ts, writes, commit_ts, outcome,
                   gc>>

\* The keys a transaction asks try_commit to validate besides its writes: what
\* a serializable one read from the store and did not write itself.
reads(t) ==
    IF kind[t] = "ser" THEN DOMAIN seen[t] \ DOMAIN writes[t] ELSE {}

\* The buffer insert of put and delete; the last write of a key wins.
Buffer(t, k, value) ==
    /\ pc[t] = "active"
    /\ kind[t] # "snapshot"
    /\ MayUse(t, k, DOMAIN writes[t])
    /\ writes' = [writes EXCEPT ![t] = [j \in DOMAIN @ \cup {k} |->
                                           IF j = k THEN value ELSE @[j]]]
    /\ UNCHANGED <<oracleVars, storeVars, pc, kind, snap_ts, seen, commit_ts,
                   outcome, gc>>

Put(t, k) == "put" \in Op /\ Buffer(t, k, t)
Delete(t, k) == "delete" \in Op /\ Buffer(t, k, None)

\* Transaction::commit of an empty buffer succeeds at once; the handle is
\* dropped on the way out.
CommitReadOnly(t) ==
    /\ pc[t] = "active"
    /\ kind[t] # "snapshot"
    /\ DOMAIN writes[t] = {}
    /\ end_reader(snap_ts[t])
    /\ pc' = [pc EXCEPT ![t] = "ended"]
    /\ outcome' = [outcome EXCEPT ![t] = "ok"]
    /\ UNCHANGED <<chains, lock, kind, snap_ts, writes, seen, commit_ts, gc>>

\* Transaction::rollback, and the drop of a transaction or a snapshot: the
\* buffers are freed and only the registry notices.
Rollback(t) ==
    /\ pc[t] = "active"
    /\ end_reader(snap_ts[t])
    /\ pc' = [pc EXCEPT ![t] = "ended"]
    /\ outcome' = [outcome EXCEPT ![t] = "rolled_back"]
    /\ writes' = [writes EXCEPT ![t] = Nothing]
    /\ seen' = [seen EXCEPT ![t] = Nothing]
    /\ UNCHANGED <<chains, lock, kind, snap_ts, commit_ts, gc>>

-----------------------------------------------------------------------------
(* Transaction::commit with writes, and Inner::commit_writes *)

\* Faulty variant: the reader is released before the commit is validated.
AllocCommitTs_unregistered(t) ==
    /\ pc[t] = "active"
    /\ DOMAIN writes[t] # {}
    /\ next_ts < MaxTs
    /\ next_ts' = next_ts + 1
    /\ readers' = IF ReaderCount(snap_ts[t]) <= 1
                  THEN [r \in DOMAIN readers \ {snap_ts[t]} |-> readers[r]]
                  ELSE [readers EXCEPT ![snap_ts[t]] = @ - 1]
    /\ commit_ts' = [commit_ts EXCEPT ![t] = next_ts]
    /\ pc' = [pc EXCEPT ![t] = "committing"]
    /\ UNCHANGED <<read_ts, done_upto, ahead, chains, lock, kind, snap_ts,
                   writes, seen, outcome, gc>>

\* commit_writes takes its timestamp.
AllocCommitTs(t) ==
    /\ pc[t] = "active"
    /\ DOMAIN writes[t] # {}
    /\ alloc_commit_ts(next_ts)
    /\ commit_ts' = [commit_ts EXCEPT ![t] = next_ts]
    /\ pc' = [pc EXCEPT ![t] = "committing"]
    /\ UNCHANGED <<chains, lock, kind, snap_ts, writes, seen, outcome, gc>>

\* One more shard lock of the general path.
Acquire(t) ==
    /\ pc[t] = "committing"
    /\ acquire_next(t, writes[t], reads(t))
    /\ UNCHANGED <<oracleVars, txnVars, gc>>

\* try_commit validates, applies or refuses, and lets go of its locks.
TryCommit(t, ok) ==
    /\ pc[t] = "committing"
    /\ try_commit(t, snap_ts[t], commit_ts[t], writes[t], reads(t), ok)
    /\ pc' = [pc EXCEPT ![t] = "decided"]
    /\ outcome' = [outcome EXCEPT ![t] = IF ok THEN "ok" ELSE "conflict"]
    /\ UNCHANGED <<oracleVars, kind, snap_ts, writes, seen, commit_ts, gc>>

\* try_commit returns TxnError::Store: a custom store around the in-memory one
\* gives up and applies nothing.
StoreFails(t) ==
    /\ Fallible
    /\ pc[t] = "committing"
    /\ lock' = release(t)
    /\ pc' = [pc EXCEPT ![t] = "decided"]
    /\ outcome' = [outcome EXCEPT ![t] = "store"]
    /\ UNCHANGED <<oracleVars, chains, kind, snap_ts, writes, seen, commit_ts,
                   gc>>

\* commit_writes reports its timestamp and is about to return.
Report(t) ==
    /\ commit_done(commit_ts[t])
    /\ pc' = [pc EXCEPT ![t] = "returning"]
    /\ UNCHANGED <<chains, lock, kind, snap_ts, writes, seen, commit_ts,
                   outcome, gc>>

\* Faulty variant: a rejected commit returns without reporting.
CommitDone_on_success_only(t) ==
    /\ pc[t] = "decided"
    /\ IF outcome[t] = "ok"
       THEN Report(t)
       ELSE /\ pc' = [pc EXCEPT ![t] = "returning"]
            /\ UNCHANGED <<oracleVars, chains, lock, kind, snap_ts, writes,
                           seen, commit_ts, outcome, gc>>

\* Without a log it does so at once, on success and on error alike.
CommitDone(t) == pc[t] = "decided" /\ Report(t)

\* The transaction is dropped as commit returns: its reader goes last.  What
\* one that was applied wrote and saw is kept as history.
EndCommit(t) ==
    /\ pc[t] = "returning"
    /\ end_reader(snap_ts[t])
    /\ pc' = [pc EXCEPT ![t] = "ended"]
    /\ IF outcome[t] \notin Refused
       THEN UNCHANGED <<writes, seen>>
       ELSE /\ writes' = [writes EXCEPT ![t] = Nothing]
            /\ seen' = [seen EXCEPT ![t] = Nothing]
    /\ UNCHANGED <<chains, lock, kind, snap_ts, commit_ts, outcome, gc>>

-----------------------------------------------------------------------------
(* Inner::collect_garbage *)

\* Read the low watermark, then start the sweep.
CollectBegin(c) ==
    /\ gc[c].left = {}
    /\ gc' = [gc EXCEPT ![c] = [low |-> low_watermark, left |-> Shard]]
    /\ UNCHANGED <<oracleVars, storeVars, txnVars>>

\* Sweep the next shard, in index order.
CollectShard(c) ==
    /\ gc[c].left # {}
    /\ LET s == Min(gc[c].left)
           left == gc[c].left \ {s}
       IN  /\ collect_shard(s, gc[c].low)
           /\ gc' = [gc EXCEPT ![c] = IF left = {} THEN Resting
                                      ELSE [@ EXCEPT !.left = left]]
    /\ UNCHANGED <<oracleVars, txnVars>>

CommitStep(t) ==
    \/ Acquire(t)
    \/ \E ok \in BOOLEAN : TryCommit(t, ok)
    \/ StoreFails(t)
    \/ CommitDone(t)
    \/ EndCommit(t)

Next ==
    \/ \E t \in Txn :
        \/ \E knd \in Kind : Begin(t, knd)
        \/ \E k \in Key : Get(t, k) \/ Put(t, k) \/ Delete(t, k)
        \/ CommitReadOnly(t)
        \/ Rollback(t)
        \/ AllocCommitTs(t)
        \/ CommitStep(t)
    \/ \E c \in Collector : CollectBegin(c) \/ CollectShard(c)

Spec == Init /\ [][Next]_vars

=============================================================================
