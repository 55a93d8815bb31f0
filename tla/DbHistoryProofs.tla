--------------------------- MODULE DbHistoryProofs ---------------------------
(***************************************************************************)
(* Proofs about Db, continued: what the store answers is what the history  *)
(* of applied transactions says, whatever commits and sweeps are under     *)
(* way, and the isolation guarantees that follow.                          *)
(***************************************************************************)
EXTENDS DbProofs

-----------------------------------------------------------------------------
(* The history changes when a commit is applied, and only then *)

\* The applied transactions and what is recorded of them stay as they are.
HistoryKept ==
    /\ Applied' = Applied
    /\ \A u \in Applied :
        /\ writes'[u] = writes[u] /\ seen'[u] = seen[u]
        /\ commit_ts'[u] = commit_ts[u] /\ snap_ts'[u] = snap_ts[u]
        /\ kind'[u] = kind[u]

\* A step of a handle that is not decided yet and will not be applied by it.
LEMMA UndecidedStep ==
    ASSUME CoreInv, NEW t \in Txn, outcome[t] = "none", t \notin Applied',
           \A u \in Txn \ {t} :
              /\ writes'[u] = writes[u] /\ seen'[u] = seen[u]
              /\ commit_ts'[u] = commit_ts[u] /\ snap_ts'[u] = snap_ts[u]
              /\ kind'[u] = kind[u] /\ outcome'[u] = outcome[u]
    PROVE  HistoryKept
<1>1. t \notin Applied
  BY DEF Applied
<1>2. \A u \in Txn \ {t} : u \in Applied' <=> u \in Applied
  BY DEF Applied
<1>3. Applied' = Applied
  BY <1>1, <1>2 DEF Applied
<1>4. \A u \in Applied : u \in Txn \ {t}
  BY <1>1 DEF Applied
<1>5. QED
  BY <1>3, <1>4 DEF HistoryKept

\* Only try_commit's success changes the history.
LEMMA HistoryFrame ==
    ASSUME CoreInv, [Next]_vars, \A t \in Txn : ~TryCommit(t, TRUE)
    PROVE  HistoryKept
<1>1. DataTypes /\ \A t \in Txn : Stage(t)
  BY TypeParts, LifecycleParts DEF CoreInv
<1>2. \A t \in Txn : pc[t] \in {"idle", "active", "committing"} =>
          outcome[t] = "none"
  BY <1>1 DEF Stage
<1>3. ASSUME NEW t \in Txn, NEW knd \in Kind, Begin(t, knd)
      PROVE  HistoryKept
  <2>1. outcome[t] = "none" /\ outcome' = outcome
    BY <1>2, <1>3 DEF Begin
  <2>2. t \notin Applied'
    BY <2>1 DEF Applied
  <2>3. QED
    BY <1>1, <1>3, <2>1, <2>2, UndecidedStep DEF Begin, DataTypes
<1>4. ASSUME NEW t \in Txn, NEW k \in Key,
             Get(t, k) \/ Put(t, k) \/ Delete(t, k)
      PROVE  HistoryKept
  <2>1. outcome[t] = "none" /\ outcome' = outcome
    BY <1>2, <1>4 DEF Get, Put, Delete, Buffer
  <2>2. t \notin Applied'
    BY <2>1 DEF Applied
  <2>3. /\ \E f : writes' = [writes EXCEPT ![t] = f] \/ writes' = writes
        /\ \E f : seen' = [seen EXCEPT ![t] = f] \/ seen' = seen
        /\ UNCHANGED <<kind, snap_ts, commit_ts>>
    BY <1>4 DEF Get, Put, Delete, Buffer
  <2>4. QED
    BY <1>1, <2>1, <2>2, <2>3, UndecidedStep DEF DataTypes
<1>5. ASSUME NEW t \in Txn, CommitReadOnly(t)
      PROVE  HistoryKept
  <2>1. outcome[t] = "none" /\ writes' = writes /\ DOMAIN writes[t] = {}
    BY <1>2, <1>5 DEF CommitReadOnly
  <2>2. t \notin Applied'
    BY <2>1 DEF Applied
  <2>3. QED
    BY <1>1, <1>5, <2>1, <2>2, UndecidedStep DEF CommitReadOnly, DataTypes
<1>6. ASSUME NEW t \in Txn, Rollback(t)
      PROVE  HistoryKept
  <2>1. outcome[t] = "none" /\ outcome'[t] = "rolled_back"
    BY <1>1, <1>2, <1>6 DEF Rollback, DataTypes
  <2>2. t \notin Applied'
    BY <2>1 DEF Applied
  <2>3. QED
    BY <1>1, <1>6, <2>1, <2>2, UndecidedStep DEF Rollback, DataTypes
<1>7. ASSUME NEW t \in Txn, AllocCommitTs(t)
      PROVE  HistoryKept
  <2>1. outcome[t] = "none" /\ outcome' = outcome
    BY <1>2, <1>7 DEF AllocCommitTs
  <2>2. t \notin Applied'
    BY <2>1 DEF Applied
  <2>3. QED
    BY <1>1, <1>7, <2>1, <2>2, UndecidedStep DEF AllocCommitTs, DataTypes
<1>8. ASSUME NEW t \in Txn, TryCommit(t, FALSE) \/ StoreFails(t)
      PROVE  HistoryKept
  <2>1. /\ pc[t] = "committing"
        /\ \E e \in Refused : outcome' = [outcome EXCEPT ![t] = e]
        /\ UNCHANGED <<kind, snap_ts, writes, seen, commit_ts>>
    BY <1>8, RefusedErrors DEF TryCommit, StoreFails
  <2>2. outcome[t] = "none" /\ outcome'[t] \in {"conflict", "store"}
    BY <1>1, <1>2, <2>1, RefusedErrors DEF DataTypes
  <2>3. t \notin Applied'
    BY <2>2 DEF Applied
  <2>4. QED
    BY <1>1, <2>1, <2>2, <2>3, UndecidedStep DEF DataTypes
<1>9. ASSUME NEW t \in Txn, EndCommit(t)
      PROVE  HistoryKept
  <2>1. UNCHANGED <<kind, snap_ts, commit_ts, outcome>>
    BY <1>9 DEF EndCommit
  <2>2. CASE outcome[t] \notin Refused
    <3>1. UNCHANGED <<writes, seen>>
      BY <1>9, <2>2 DEF EndCommit
    <3>2. QED
      BY <2>1, <3>1 DEF HistoryKept, Applied
  <2>3. CASE outcome[t] \in Refused
    <3>1. /\ writes' = [writes EXCEPT ![t] = Nothing]
          /\ seen' = [seen EXCEPT ![t] = Nothing]
      BY <1>9, <2>3 DEF EndCommit
    <3>2. outcome[t] # "ok"
      BY <2>3, RefusedErrors
    <3>3. QED
      BY <1>1, <2>1, <3>1, <3>2 DEF HistoryKept, Applied, DataTypes
  <2>4. QED
    BY <2>2, <2>3
<1>10. CASE UNCHANGED <<kind, snap_ts, writes, seen, commit_ts, outcome>>
  BY <1>10 DEF HistoryKept, Applied
<1>11. ASSUME NEW t \in Txn, Acquire(t) \/ CommitDone(t)
       PROVE  UNCHANGED <<kind, snap_ts, writes, seen, commit_ts, outcome>>
  BY <1>11, Zenon DEF Acquire, CommitDone, Report, txnVars
<1>12. ASSUME NEW c \in Collector, CollectBegin(c) \/ CollectShard(c)
       PROVE  UNCHANGED <<kind, snap_ts, writes, seen, commit_ts, outcome>>
  BY <1>12, Zenon DEF CollectBegin, CollectShard, txnVars
<1>13. ASSUME NEW t \in Txn, NEW ok \in BOOLEAN, TryCommit(t, ok)
       PROVE  TryCommit(t, FALSE)
  <2>1. ok = FALSE
    BY <1>13
  <2>2. QED
    BY <1>13, <2>1, Zenon
<1>14. CASE UNCHANGED vars
  BY <1>10, <1>14 DEF vars
<1>15. QED
  BY <1>3, <1>4, <1>5, <1>6, <1>7, <1>8, <1>9, <1>10, <1>11, <1>12, <1>13,
     <1>14, Zenon DEF Next, CommitStep

\* With the history, the state as of every timestamp stays.
LEMMA ValueAtKept ==
    ASSUME HistoryKept, NEW k, NEW ts
    PROVE  ValueAt(k, ts)' = ValueAt(k, ts)
<1>1. Writers(k, ts)' = Writers(k, ts)
  BY DEF HistoryKept, Writers
<1>2. \A u \in Writers(k, ts) : u \in Applied
  BY DEF Writers
<1>3. LastWriter(k, ts)' = LastWriter(k, ts)
  BY <1>1, <1>2 DEF HistoryKept, LastWriter
<1>4. \A u \in LastWriter(k, ts) : writes'[u] = writes[u]
  BY <1>2 DEF LastWriter, HistoryKept
<1> DEFINE last == TheOne(LastWriter(k, ts))
<1>5. LastWriter(k, ts) # {} => last \in LastWriter(k, ts)
  BY DEF TheOne
<1>6. LastWriter(k, ts) # {} => writes'[last] = writes[last]
  BY <1>4, <1>5
<1>7. QED
  BY <1>3, <1>6 DEF ValueAt

\* A handle that is live after a step was live before, at the same timestamp,
\* or has just begun at the watermark.
LEMMA LiveStep ==
    ASSUME CoreInv, [Next]_vars
    PROVE  \A t \in Live' : \/ t \in Live /\ snap_ts'[t] = snap_ts[t]
                            \/ snap_ts'[t] = read_ts
<1>1. DataTypes
  BY TypeParts DEF CoreInv
<1>2. ASSUME NEW t \in Txn, NEW knd \in Kind, Begin(t, knd)
      PROVE  \A u \in Live' : \/ u \in Live /\ snap_ts'[u] = snap_ts[u]
                              \/ snap_ts'[u] = read_ts
  BY <1>1, <1>2 DEF Begin, Live, DataTypes
<1>3. CASE snap_ts' = snap_ts /\ Live' \subseteq Live
  BY <1>3
<1>4. ASSUME NEW t \in Txn,
             CommitReadOnly(t) \/ Rollback(t) \/ EndCommit(t)
      PROVE  snap_ts' = snap_ts /\ Live' \subseteq Live
  <2>1. snap_ts' = snap_ts /\ pc' = [pc EXCEPT ![t] = "ended"]
    BY <1>4, Zenon DEF CommitReadOnly, Rollback, EndCommit
  <2>2. QED
    BY <1>1, <2>1 DEF Live, DataTypes
<1>5. ASSUME NEW t \in Txn, AllocCommitTs(t) \/ CommitDone(t)
      PROVE  snap_ts' = snap_ts /\ Live' \subseteq Live
  <2>1. /\ snap_ts' = snap_ts /\ pc[t] \in {"active", "decided"}
        /\ \E p : pc' = [pc EXCEPT ![t] = p]
    BY <1>5 DEF AllocCommitTs, CommitDone, Report
  <2>2. QED
    BY <1>1, <2>1 DEF Live, DataTypes
<1>6. ASSUME NEW t \in Txn,
             \/ \E k \in Key : Get(t, k) \/ Put(t, k) \/ Delete(t, k)
             \/ Acquire(t)
             \/ \E ok \in BOOLEAN : TryCommit(t, ok)
             \/ StoreFails(t)
      PROVE  snap_ts' = snap_ts /\ Live' \subseteq Live
  BY <1>6, OtherStutters, Zenon DEF CoreInv
<1>7. CASE UNCHANGED <<snap_ts, pc>>
  BY <1>7 DEF Live
<1>8. ASSUME NEW c \in Collector, CollectBegin(c) \/ CollectShard(c)
      PROVE  UNCHANGED <<snap_ts, pc>>
  BY <1>8, Zenon DEF CollectBegin, CollectShard, txnVars
<1>9. QED
  BY <1>2, <1>3, <1>4, <1>5, <1>6, <1>7, <1>8, Zenon DEF Next, CommitStep, vars

\* Versions change when a commit is applied or a shard swept, and only then.
LEMMA ChainsFrame ==
    ASSUME [Next]_vars, \A t \in Txn : ~TryCommit(t, TRUE),
           \A c \in Collector : ~CollectShard(c)
    PROVE  chains' = chains
<1>1. ASSUME NEW t \in Txn, NEW ok \in BOOLEAN, TryCommit(t, ok)
      PROVE  chains' = chains
  BY <1>1 DEF TryCommit, try_commit
<1>2. QED
  BY <1>1, Zenon DEF Next, CommitStep, Begin, Get, get, Put, Delete,
     Buffer, CommitReadOnly, Rollback, AllocCommitTs, Acquire, acquire_next,
     StoreFails, CommitDone, Report, EndCommit, CollectBegin, storeVars, vars

-----------------------------------------------------------------------------
(* try_commit against the history *)

\* What a successful try_commit changes.
LEMMA CommitEffect ==
    ASSUME CoreInv, NEW t \in Txn, TryCommit(t, TRUE)
    PROVE  /\ t \notin Applied /\ Applied' = Applied \cup {t}
           /\ t \in Live /\ Live' = Live
           /\ pc[t] = "committing" /\ DOMAIN writes[t] # {}
           /\ ~HasConflict(writes[t], reads(t), snap_ts[t])
           /\ chains' = push(writes[t], commit_ts[t])
           /\ UNCHANGED <<oracleVars, kind, snap_ts, writes, seen, commit_ts,
                          gc>>
<1>1. DataTypes /\ Stage(t)
  BY TypeParts, LifecycleParts DEF CoreInv
<1>2. /\ pc[t] = "committing" /\ pc' = [pc EXCEPT ![t] = "decided"]
      /\ outcome' = [outcome EXCEPT ![t] = "ok"]
      /\ UNCHANGED <<oracleVars, kind, snap_ts, writes, seen, commit_ts, gc>>
      /\ ~HasConflict(writes[t], reads(t), snap_ts[t])
      /\ chains' = push(writes[t], commit_ts[t])
  BY DEF TryCommit, try_commit
<1>3. t \notin Applied /\ DOMAIN writes[t] # {}
  BY <1>1, <1>2 DEF Stage, Applied
<1>4. Applied' = Applied \cup {t}
  BY <1>1, <1>2, <1>3 DEF Applied, DataTypes
<1>5. t \in Live /\ Live' = Live
  BY <1>1, <1>2 DEF Live, DataTypes
<1>6. QED
  BY <1>2, <1>3, <1>4, <1>5

\* The newest version of a chain that has one.
LEMMA NewestType ==
    ASSUME DataTypes, NEW k \in Key, chains[k] # <<>>
    PROVE  chains[k][Len(chains[k])].commit_ts \in Nat
<1>1. chains[k] \in Seq(VersionOf(Value))
  BY DEF DataTypes
<1>2. Len(chains[k]) \in 1..Len(chains[k])
  BY <1>1, EmptySeq
<1>3. QED
  BY <1>1, <1>2, ChainElement

\* Validation is right although versions may have been collected: whoever was
\* applied before a commit that passes, and wrote a key it wrote or answers
\* for, is in its snapshot.
LEMMA EarlierWriter ==
    ASSUME CoreInv, VersionKept, NEW t \in Txn, pc[t] = "committing",
           ~HasConflict(writes[t], reads(t), snap_ts[t]),
           NEW u \in Applied, NEW k \in DOMAIN writes[u],
           k \in DOMAIN writes[t] \cup reads(t)
    PROVE  commit_ts[u] <= snap_ts[t]
<1>1. DataTypes /\ u \in Txn /\ t \in Live /\ commit_ts[u] # 0
  BY TypeParts DEF CoreInv, Applied, Live, Lifecycle
<1>2. commit_ts[u] \in Nat /\ snap_ts[t] \in Nat /\ k \in Key
  BY <1>1, BufferElement DEF DataTypes
<1>3. CASE newer_than(chains[k], commit_ts[u] - 1)
  <2>1. /\ chains[k] # <<>>
        /\ chains[k][Len(chains[k])].commit_ts > commit_ts[u] - 1
    BY <1>3 DEF newer_than
  <2>2. ~(chains[k][Len(chains[k])].commit_ts > snap_ts[t])
    BY <2>1, ValidatedIsNewest DEF CoreInv
  <2>3. chains[k][Len(chains[k])].commit_ts \in Nat
    BY <1>1, <1>2, <2>1, NewestType
  <2>4. QED
    BY <1>1, <1>2, <2>1, <2>2, <2>3
<1>4. CASE ~newer_than(chains[k], commit_ts[u] - 1)
  BY <1>1, <1>4 DEF VersionKept
<1>5. QED
  BY <1>3, <1>4

\* A commit does not change the state as of a timestamp below its own, nor
\* that of a key it did not write.
LEMMA ValueAtUnaffected ==
    ASSUME CoreInv, NEW t \in Txn, TryCommit(t, TRUE), NEW k, NEW ts \in Nat,
           k \notin DOMAIN writes[t] \/ ts < commit_ts[t]
    PROVE  ValueAt(k, ts)' = ValueAt(k, ts)
<1>1. /\ Applied' = Applied \cup {t} /\ t \notin Applied
      /\ UNCHANGED <<writes, commit_ts>>
  BY CommitEffect
<1>2. commit_ts[t] \in Nat
  BY DEF CoreInv, TypeOK
<1>3. ~(k \in DOMAIN writes[t] /\ commit_ts[t] <= ts)
  BY <1>2
<1>4. Writers(k, ts)' = Writers(k, ts)
  BY <1>1, <1>3 DEF Writers
<1>5. LastWriter(k, ts)' = LastWriter(k, ts)
  BY <1>1, <1>4 DEF LastWriter
<1>6. QED
  BY <1>1, <1>5 DEF ValueAt

\* From its own timestamp on, a commit is the last writer of its keys.
LEMMA ValueAtCommitted ==
    ASSUME CoreInv, VersionKept, NEW t \in Txn, TryCommit(t, TRUE),
           NEW k \in DOMAIN writes[t], NEW ts \in Nat, commit_ts[t] <= ts
    PROVE  ValueAt(k, ts)' = writes[t][k]
<1>1. /\ Applied' = Applied \cup {t} /\ t \notin Applied
      /\ pc[t] = "committing"
      /\ ~HasConflict(writes[t], reads(t), snap_ts[t])
      /\ UNCHANGED <<writes, commit_ts>>
  BY CommitEffect
<1>2. /\ commit_ts[t] \in Nat /\ snap_ts[t] \in Nat
      /\ \A u \in Applied : commit_ts[u] \in Nat
  BY DEF CoreInv, TypeOK, Applied
<1>3. snap_ts[t] < commit_ts[t]
  BY <1>1, ValidatedIsNewest DEF CoreInv
<1>4. \A u \in Applied : k \in DOMAIN writes[u] => commit_ts[u] < commit_ts[t]
  <2>1. SUFFICES ASSUME NEW u \in Applied, k \in DOMAIN writes[u]
                 PROVE  commit_ts[u] < commit_ts[t]
    OBVIOUS
  <2>2. commit_ts[u] <= snap_ts[t]
    BY <1>1, <2>1, EarlierWriter
  <2>3. QED
    BY <1>2, <1>3, <2>2
<1>5. Writers(k, ts)' = {u \in Applied \cup {t} :
                            k \in DOMAIN writes[u] /\ commit_ts[u] <= ts}
  BY <1>1 DEF Writers
<1>6. t \in Writers(k, ts)'
  BY <1>5
<1>7. \A u \in Writers(k, ts)' :
          u # t => u \in Applied /\ k \in DOMAIN writes[u]
  BY <1>5
<1>8. LastWriter(k, ts)' = {t}
  <2>1. LastWriter(k, ts)' = {u \in Writers(k, ts)' :
            \A v \in Writers(k, ts)' : commit_ts[v] <= commit_ts[u]}
    BY <1>1 DEF LastWriter
  <2>2. \A v \in Writers(k, ts)' : commit_ts[v] <= commit_ts[t]
    BY <1>2, <1>4, <1>7
  <2>3. \A u \in Writers(k, ts)' : u # t => ~(commit_ts[t] <= commit_ts[u])
    BY <1>2, <1>4, <1>7
  <2>4. QED
    BY <1>6, <2>1, <2>2, <2>3
<1>9. TheOne({t}) = t
  BY DEF TheOne
<1>10. QED
  BY <1>1, <1>8, <1>9 DEF ValueAt

-----------------------------------------------------------------------------
(* VersionKept: what validation relies on *)

\* A version above another is above the timestamp just below it.
LEMMA NewerThanNewest ==
    ASSUME NEW chain, NEW c \in Nat, c # 0, chain # <<>>,
           chain[Len(chain)].commit_ts \in Nat,
           c <= chain[Len(chain)].commit_ts
    PROVE  newer_than(chain, c - 1)
BY DEF newer_than

\* What newer_than says of a chain in the store.
LEMMA NewestOf ==
    ASSUME DataTypes, NEW k \in Key, NEW c \in Nat, c # 0,
           newer_than(chains[k], c - 1)
    PROVE  /\ chains[k] # <<>>
           /\ chains[k][Len(chains[k])].commit_ts \in Nat
           /\ c <= chains[k][Len(chains[k])].commit_ts
<1>1. chains[k] # <<>> /\ chains[k][Len(chains[k])].commit_ts > c - 1
  BY DEF newer_than
<1>2. chains[k][Len(chains[k])].commit_ts \in Nat
  BY <1>1, NewestType
<1>3. QED
  BY <1>1, <1>2

\* try_commit pushes the newest version of each key it writes.
LEMMA VersionKeptCommit ==
    ASSUME CoreInv, VersionKept, NEW t \in Txn, TryCommit(t, TRUE)
    PROVE  VersionKept'
<1>1. /\ Applied' = Applied \cup {t} /\ Live' = Live /\ pc[t] = "committing"
      /\ ~HasConflict(writes[t], reads(t), snap_ts[t])
      /\ chains' = push(writes[t], commit_ts[t])
      /\ UNCHANGED <<oracleVars, writes, commit_ts, snap_ts>>
  BY CommitEffect
<1>2. /\ DataTypes
      /\ \A u \in Txn : u \in Applied => commit_ts[u] # 0
      /\ commit_ts[t] # 0
  BY <1>1, TypeParts DEF CoreInv, Lifecycle
<1>3. \A u \in Txn : commit_ts[u] \in Nat /\ DOMAIN writes[u] \subseteq Key
  BY <1>2, BufferElement DEF DataTypes
<1>4. SUFFICES ASSUME NEW u \in Applied \cup {t}, NEW k \in DOMAIN writes[u]
               PROVE  \/ newer_than(chains'[k], commit_ts[u] - 1)
                      \/ /\ commit_ts[u] <= read_ts
                         /\ \A v \in Live : commit_ts[u] <= snap_ts[v]
  BY <1>1 DEF VersionKept, oracleVars
<1>5. /\ u \in Txn /\ k \in Key /\ commit_ts[u] \in Nat /\ commit_ts[u] # 0
      /\ chains[k] \in Seq(VersionOf(Value))
  BY <1>2, <1>3 DEF Applied, DataTypes
<1>6. CASE k \in DOMAIN writes[t]
  <2> DEFINE v == Version(commit_ts[t], writes[t][k])
  <2>1. chains'[k] = Append(chains[k], v)
    BY <1>1, <1>5, <1>6 DEF push
  <2>2. v \in VersionOf(Value) /\ v.commit_ts = commit_ts[t]
    <3>1. writes[t][k] \in Value
      BY <1>2, <1>6, BufferElement DEF DataTypes
    <3>2. QED
      BY <1>3, <3>1 DEF Version, VersionOf
  <2> HIDE DEF v
  <2>3. /\ chains'[k] # <<>>
        /\ chains'[k][Len(chains'[k])].commit_ts = commit_ts[t]
    BY <1>5, <2>1, <2>2, AppendProperties
  <2>4. commit_ts[u] <= commit_ts[t]
    <3>1. CASE u = t
      BY <1>3, <3>1
    <3>2. CASE u # t
      <4>1. commit_ts[u] <= snap_ts[t] /\ snap_ts[t] < commit_ts[t]
        BY <1>1, <1>6, <3>2, EarlierWriter, ValidatedIsNewest DEF CoreInv
      <4>2. snap_ts[t] \in Nat
        BY <1>2 DEF DataTypes
      <4>3. QED
        BY <1>3, <1>5, <4>1, <4>2
    <3>3. QED
      BY <3>1, <3>2
  <2>5. QED
    BY <1>3, <1>5, <2>3, <2>4, NewerThanNewest
<1>7. CASE k \notin DOMAIN writes[t]
  <2>1. chains'[k] = chains[k] /\ u \in Applied
    BY <1>1, <1>5, <1>7 DEF push
  <2>2. QED
    BY <2>1 DEF VersionKept
<1>8. QED
  BY <1>6, <1>7

\* What the sweep of one shard changes: some chains, below every timestamp in
\* use or to be used.
LEMMA CollectEffect ==
    ASSUME CoreInv, NEW c \in Collector, CollectShard(c)
    PROVE  /\ gc[c].low \in Nat /\ gc[c].low <= read_ts
           /\ \A t \in Live : gc[c].low <= snap_ts[t]
           /\ \A k \in Key : chains'[k] \in {chains[k],
                                             retain(chains[k], gc[c].low)}
           /\ UNCHANGED <<oracleVars, txnVars>>
<1>1. gc[c].low \in Nat
  BY DEF CoreInv, TypeOK
<1>2. /\ gc[c].low <= read_ts
      /\ \A t \in Live : gc[c].low <= snap_ts[t]
  BY OracleFacts DEF CoreInv
<1>3. \A k \in Key : chains'[k] \in {chains[k], retain(chains[k], gc[c].low)}
  BY DEF CollectShard, collect_shard
<1>4. UNCHANGED <<oracleVars, txnVars>>
  BY DEF CollectShard
<1>5. QED
  BY <1>1, <1>2, <1>3, <1>4

\* A sweep keeps the newest version, or it was too old to matter.
LEMMA VersionKeptCollect ==
    ASSUME CoreInv, VersionKept, NEW c \in Collector, CollectShard(c)
    PROVE  VersionKept'
<1> DEFINE low == gc[c].low
<1>1. /\ low \in Nat /\ low <= read_ts
      /\ \A t \in Live : low <= snap_ts[t]
      /\ \A k \in Key : chains'[k] \in {chains[k], retain(chains[k], low)}
      /\ UNCHANGED <<oracleVars, txnVars>>
  BY CollectEffect
<1> HIDE DEF low
<1>2. /\ Applied' = Applied /\ Live' = Live
      /\ UNCHANGED <<read_ts, writes, commit_ts, snap_ts>>
  BY <1>1 DEF txnVars, oracleVars, Applied, Live
<1>3. DataTypes /\ \A u \in Applied : u \in Txn /\ commit_ts[u] # 0
  BY TypeParts DEF CoreInv, Applied, Lifecycle
<1>4. SUFFICES ASSUME NEW u \in Applied, NEW k \in DOMAIN writes[u],
                      newer_than(chains[k], commit_ts[u] - 1)
               PROVE  \/ newer_than(chains'[k], commit_ts[u] - 1)
                      \/ /\ commit_ts[u] <= read_ts
                         /\ \A t \in Live : commit_ts[u] <= snap_ts[t]
  BY <1>2 DEF VersionKept
<1>5. /\ k \in Key /\ commit_ts[u] \in Nat /\ commit_ts[u] # 0
      /\ chains[k] \in Seq(VersionOf(Value)) /\ Ascending(chains[k])
      /\ read_ts \in Nat /\ \A t \in Live : snap_ts[t] \in Nat
  BY <1>3, BufferElement, ChainsAscendingParts
     DEF DataTypes, CoreInv, TypeOK, Live
<1> DEFINE left == retain(chains[k], low)
           newest == chains[k][Len(chains[k])].commit_ts
<1>6. chains[k] # <<>> /\ newest \in Nat /\ commit_ts[u] <= newest
  BY <1>3, <1>4, <1>5, NewestOf
<1>7. /\ left # <<>> => left[Len(left)] = chains[k][Len(chains[k])]
      /\ left = <<>> => newest <= low
  <2>1. /\ low \in Nat /\ chains[k] \in Seq(VersionOf(Value))
        /\ Ascending(chains[k]) /\ chains[k] # <<>>
    BY <1>1, <1>5, <1>6
  <2>2. QED
    BY <2>1, RetainShape, Zenon
<1>8. CASE chains'[k] = chains[k]
  BY <1>4, <1>8
<1>9. CASE chains'[k] = left /\ left # <<>>
  BY <1>5, <1>6, <1>7, <1>9, NewerThanNewest
<1>10. CASE left = <<>>
  BY <1>1, <1>5, <1>6, <1>7, <1>10
<1>11. chains'[k] = chains[k] \/ chains'[k] = left
  BY <1>1, <1>5
<1> HIDE DEF left
<1>12. QED
  BY <1>8, <1>9, <1>10, <1>11, Zenon

\* Every step keeps VersionKept: the watermark and the snapshots of new
\* handles only grow.
LEMMA VersionKeptStep ==
    ASSUME CoreInv, VersionKept, [Next]_vars
    PROVE  VersionKept'
<1>1. CASE \E t \in Txn : TryCommit(t, TRUE)
  BY <1>1, VersionKeptCommit
<1>2. CASE \E c \in Collector : CollectShard(c)
  BY <1>2, VersionKeptCollect
<1>3. CASE /\ \A t \in Txn : ~TryCommit(t, TRUE)
           /\ \A c \in Collector : ~CollectShard(c)
  <2>1. HistoryKept /\ chains' = chains
    BY <1>3, HistoryFrame, ChainsFrame
  <2>2. /\ read_ts' \in Nat /\ read_ts' >= read_ts /\ read_ts \in Nat
        /\ \A u \in Applied : commit_ts[u] \in Nat
    BY OracleMonotone DEF CoreInv, TypeOK, Applied
  <2>3. \A t \in Live' : \/ t \in Live /\ snap_ts'[t] = snap_ts[t]
                         \/ snap_ts'[t] = read_ts
    BY LiveStep
  <2>4. SUFFICES ASSUME NEW u \in Applied, NEW k \in DOMAIN writes[u]
                 PROVE  \/ newer_than(chains[k], commit_ts[u] - 1)
                        \/ /\ commit_ts[u] <= read_ts'
                           /\ \A t \in Live' : commit_ts[u] <= snap_ts'[t]
    BY <2>1 DEF VersionKept, HistoryKept
  <2>5. CASE newer_than(chains[k], commit_ts[u] - 1)
    BY <2>5
  <2>6. CASE ~newer_than(chains[k], commit_ts[u] - 1)
    <3>1. /\ commit_ts[u] <= read_ts
          /\ \A t \in Live : commit_ts[u] <= snap_ts[t]
      BY <2>6 DEF VersionKept
    <3>2. QED
      BY <2>2, <2>3, <3>1
  <2>7. QED
    BY <2>5, <2>6
<1>4. QED
  BY <1>1, <1>2, <1>3

-----------------------------------------------------------------------------
(* First committer wins *)

\* Only a commit that passed validation joins the applied transactions.
LEMMA FirstCommitterStep ==
    ASSUME CoreInv, VersionKept, FirstCommitterWins, [Next]_vars
    PROVE  FirstCommitterWins'
<1>1. ASSUME NEW t \in Txn, TryCommit(t, TRUE)
      PROVE  FirstCommitterWins'
  <2>1. /\ Applied' = Applied \cup {t} /\ pc[t] = "committing"
        /\ ~HasConflict(writes[t], reads(t), snap_ts[t])
        /\ UNCHANGED <<writes, commit_ts, snap_ts>>
    BY <1>1, CommitEffect
  <2>2. ASSUME NEW u \in Applied, DOMAIN writes[t] \cap DOMAIN writes[u] # {}
        PROVE  commit_ts[u] <= snap_ts[t]
    BY <2>1, <2>2, EarlierWriter
  <2>3. QED
    BY <2>1, <2>2 DEF FirstCommitterWins
<1>2. CASE \A t \in Txn : ~TryCommit(t, TRUE)
  <2>1. HistoryKept
    BY <1>2, HistoryFrame
  <2>2. QED
    BY <2>1 DEF HistoryKept, FirstCommitterWins
<1>3. QED
  BY <1>1, <1>2

-----------------------------------------------------------------------------
(* Snapshots stay intact *)

\* A timestamp that can be read at after a step could be read at before it.
LEMMA ReachableStep ==
    ASSUME CoreInv, [Next]_vars, NEW ts \in Nat, Reachable(ts)'
    PROVE  Reachable(ts)
<1>1. /\ read_ts' \in Nat /\ read_ts' >= read_ts /\ read_ts \in Nat
  BY OracleMonotone DEF CoreInv, TypeOK
<1>2. CASE ts >= read_ts'
  BY <1>1, <1>2 DEF Reachable
<1>3. CASE \E t \in Live' : ts >= snap_ts'[t]
  BY <1>3, LiveStep DEF Reachable
<1>4. QED
  BY <1>2, <1>3 DEF Reachable

\* try_commit: below the new timestamp nothing changes; from it on the new
\* version is both the newest of its chain and the last of the history.
LEMMA IntactCommit ==
    ASSUME CoreInv, VersionKept, Intact, NEW t \in Txn, TryCommit(t, TRUE)
    PROVE  Intact'
<1>1. /\ Live' = Live /\ chains' = push(writes[t], commit_ts[t])
      /\ UNCHANGED <<oracleVars, snap_ts>>
  BY CommitEffect
<1>2. /\ DataTypes /\ MaxTs \in Nat /\ commit_ts[t] \in Nat
      /\ ChainsAscending'
  BY TypeParts, MaxTsAssumption, ChainsPush DEF CoreInv, DataTypes
<1>3. SUFFICES ASSUME NEW ts \in 0..MaxTs, Reachable(ts), NEW k \in Key
               PROVE  visible_value(chains'[k], ts) = ValueAt(k, ts)'
  BY <1>1 DEF Intact, Reachable, oracleVars
<1>4. /\ visible_value(chains[k], ts) = ValueAt(k, ts)
      /\ ts \in Nat /\ chains[k] \in Seq(VersionOf(Value))
  BY <1>2, <1>3 DEF Intact, DataTypes
<1>5. CASE k \notin DOMAIN writes[t]
  BY <1>1, <1>4, <1>5, ValueAtUnaffected DEF push
<1>6. CASE k \in DOMAIN writes[t]
  <2> DEFINE v == Version(commit_ts[t], writes[t][k])
             now == Append(chains[k], v)
  <2>1. chains'[k] = now
    BY <1>1, <1>6 DEF push
  <2>2. /\ v \in VersionOf(Value) /\ v.commit_ts = commit_ts[t]
        /\ v.value = writes[t][k]
    <3>1. writes[t][k] \in Value
      BY <1>2, <1>6, BufferElement DEF DataTypes
    <3>2. QED
      BY <1>2, <3>1 DEF Version, VersionOf
  <2>3. Ascending(now)
    BY <1>2, <2>1, ChainsAscendingParts
  <2> HIDE DEF v
  <2>4. CASE ts < commit_ts[t]
    <3>1. v.commit_ts > ts
      BY <1>2, <1>4, <2>2, <2>4
    <3>2. visible_value(now, ts) = visible_value(chains[k], ts)
      BY <1>4, <2>2, <3>1, AppendInvisible
    <3>3. ValueAt(k, ts)' = ValueAt(k, ts)
      BY <1>4, <2>4, ValueAtUnaffected
    <3>4. QED
      BY <1>4, <2>1, <3>2, <3>3
  <2>5. CASE ~(ts < commit_ts[t])
    <3>1. commit_ts[t] <= ts
      BY <1>2, <1>4, <2>5
    <3>2. /\ now \in Seq(VersionOf(Value)) /\ now # <<>>
          /\ now[Len(now)] = v
      BY <1>4, <2>2, AppendProperties
    <3> HIDE DEF now
    <3>3. visible_value(now, ts) = v.value
      BY <1>4, <2>2, <2>3, <3>1, <3>2, NewestVisible
    <3>4. ValueAt(k, ts)' = writes[t][k]
      BY <1>4, <1>6, <3>1, ValueAtCommitted
    <3>5. QED
      BY <2>1, <2>2, <3>3, <3>4
  <2>6. QED
    BY <2>4, <2>5
<1>7. QED
  BY <1>5, <1>6

\* collect_garbage: the sweep's watermark is at or below every timestamp that
\* can be read at.
LEMMA IntactCollect ==
    ASSUME CoreInv, Intact, NEW c \in Collector, CollectShard(c)
    PROVE  Intact'
<1> DEFINE low == gc[c].low
<1>1. /\ low \in Nat /\ low <= read_ts
      /\ \A t \in Live : low <= snap_ts[t]
      /\ \A k \in Key : chains'[k] \in {chains[k], retain(chains[k], low)}
      /\ UNCHANGED <<oracleVars, txnVars>>
  BY CollectEffect
<1> HIDE DEF low
<1>2. /\ HistoryKept /\ Live' = Live /\ UNCHANGED <<read_ts, snap_ts>>
  BY <1>1 DEF HistoryKept, txnVars, oracleVars, Applied, Live
<1>3. SUFFICES ASSUME NEW ts \in 0..MaxTs, Reachable(ts), NEW k \in Key
               PROVE  visible_value(chains'[k], ts) = ValueAt(k, ts)'
  BY <1>2 DEF Intact, Reachable
<1>4. /\ visible_value(chains[k], ts) = ValueAt(k, ts)
      /\ ValueAt(k, ts)' = ValueAt(k, ts)
      /\ ts \in Nat /\ chains[k] \in Seq(VersionOf(Value))
      /\ Ascending(chains[k])
  BY <1>2, <1>3, ValueAtKept, TypeParts, ChainsAscendingParts, MaxTsAssumption
     DEF Intact, CoreInv, DataTypes
<1>5. low <= ts
  BY <1>1, <1>3, <1>4 DEF Reachable, CoreInv, TypeOK, Live
<1>6. visible_value(retain(chains[k], low), ts) = visible_value(chains[k], ts)
  BY <1>1, <1>4, <1>5, RetainVisible
<1>7. chains'[k] = chains[k] \/ chains'[k] = retain(chains[k], low)
  BY <1>1
<1>8. QED
  BY <1>4, <1>6, <1>7, Zenon

\* Every step keeps Intact.
LEMMA IntactStep ==
    ASSUME CoreInv, VersionKept, Intact, [Next]_vars
    PROVE  Intact'
<1>1. CASE \E t \in Txn : TryCommit(t, TRUE)
  BY <1>1, IntactCommit
<1>2. CASE \E c \in Collector : CollectShard(c)
  BY <1>2, IntactCollect
<1>3. CASE /\ \A t \in Txn : ~TryCommit(t, TRUE)
           /\ \A c \in Collector : ~CollectShard(c)
  <2>1. HistoryKept /\ chains' = chains
    BY <1>3, HistoryFrame, ChainsFrame
  <2>2. SUFFICES ASSUME NEW ts \in 0..MaxTs, Reachable(ts)', NEW k \in Key
                 PROVE  visible_value(chains[k], ts) = ValueAt(k, ts)'
    BY <2>1 DEF Intact
  <2>3. ts \in Nat
    BY MaxTsAssumption
  <2>4. Reachable(ts)
    BY <2>2, <2>3, ReachableStep
  <2>5. QED
    BY <2>1, <2>4, ValueAtKept DEF Intact
<1>4. QED
  BY <1>1, <1>2, <1>3

\* A live handle and a new one read what the history says.
LEMMA IntactSnapshots ==
    ASSUME CoreInv, Intact
    PROVE  SnapshotsIntact
<1>1. SUFFICES ASSUME NEW ts \in {snap_ts[t] : t \in Live} \cup {read_ts},
                      NEW k \in Key
               PROVE  visible_value(chains[k], ts) = ValueAt(k, ts)
  BY DEF SnapshotsIntact
<1>2. /\ read_ts \in Nat /\ read_ts <= MaxTs
      /\ \A t \in Live : snap_ts[t] \in Nat /\ snap_ts[t] <= MaxTs
  <2>1. /\ read_ts < next_ts /\ next_ts <= MaxTs + 1
        /\ \A t \in Live : snap_ts[t] <= read_ts
    BY OracleFacts DEF CoreInv, Lifecycle
  <2>2. /\ read_ts \in Nat /\ next_ts \in Nat /\ MaxTs \in Nat
        /\ \A t \in Live : snap_ts[t] \in Nat
    BY MaxTsAssumption DEF CoreInv, TypeOK, Live
  <2>3. QED
    BY <2>1, <2>2
<1>3. ts \in 0..MaxTs /\ Reachable(ts)
  BY <1>1, <1>2, MaxTsAssumption DEF Reachable
<1>4. QED
  BY <1>3 DEF Intact

-----------------------------------------------------------------------------
(* Reads *)

\* What a step can do to the reads of a handle: forget them all, add the answer
\* of one get, or nothing; and a handle takes its snapshot before it reads.
LEMMA SeenStep ==
    ASSUME CoreInv, [Next]_vars, NEW u \in Txn
    PROVE  \/ DOMAIN seen'[u] = {}
           \/ seen'[u] = seen[u] /\ snap_ts'[u] = snap_ts[u]
           \/ /\ u \in Live /\ snap_ts'[u] = snap_ts[u]
              /\ chains' = chains /\ HistoryKept
              /\ \E k \in Key : seen'[u] =
                    [j \in DOMAIN seen[u] \cup {k} |->
                        IF j = k THEN visible_value(chains[k], snap_ts[u])
                        ELSE seen[u][j]]
<1> DEFINE Goal == \/ DOMAIN seen'[u] = {}
                   \/ seen'[u] = seen[u] /\ snap_ts'[u] = snap_ts[u]
                   \/ /\ u \in Live /\ snap_ts'[u] = snap_ts[u]
                      /\ chains' = chains /\ HistoryKept
                      /\ \E k \in Key : seen'[u] =
                            [j \in DOMAIN seen[u] \cup {k} |->
                                IF j = k
                                THEN visible_value(chains[k], snap_ts[u])
                                ELSE seen[u][j]]
<1> SUFFICES Goal
  OBVIOUS
<1>1. DataTypes /\ \A t \in Txn : Stage(t)
  BY TypeParts, LifecycleParts DEF CoreInv
<1>2. ASSUME NEW t \in Txn, NEW knd \in Kind, Begin(t, knd)
      PROVE  Goal
  <2>1. /\ pc[t] = "idle" /\ seen' = seen
        /\ snap_ts' = [snap_ts EXCEPT ![t] = read_ts]
    BY <1>2 DEF Begin
  <2>2. QED
    BY <1>1, <2>1 DEF DataTypes, Stage
<1>3. ASSUME NEW t \in Txn, NEW k \in Key, Get(t, k)
      PROVE  Goal
  <2> DEFINE now == [j \in DOMAIN seen[t] \cup {k} |->
                        IF j = k THEN visible_value(chains[k], snap_ts[t])
                        ELSE seen[t][j]]
  <2>1. /\ pc[t] = "active" /\ seen' = [seen EXCEPT ![t] = now]
        /\ UNCHANGED <<chains, kind, snap_ts, writes, commit_ts, outcome>>
    BY <1>3 DEF Get, get, storeVars
  <2>2. HistoryKept
    <3>1. t \notin Applied
      BY <1>1, <2>1 DEF Stage, Applied
    <3>2. QED
      BY <1>1, <2>1, <3>1 DEF HistoryKept, Applied, DataTypes
  <2>3. CASE u = t
    <3>1. seen'[u] = now /\ u \in Live
      BY <1>1, <2>1, <2>3 DEF DataTypes, Live
    <3>2. QED
      BY <2>1, <2>2, <2>3, <3>1
  <2>4. CASE u # t
    <3>1. seen'[u] = seen[u]
      BY <1>1, <2>1, <2>4 DEF DataTypes
    <3>2. QED
      BY <2>1, <3>1
  <2>5. QED
    BY <2>3, <2>4
<1>4. ASSUME NEW t \in Txn, Rollback(t) \/ EndCommit(t)
      PROVE  Goal
  <2>1. /\ snap_ts' = snap_ts
        /\ seen' = seen \/ seen' = [seen EXCEPT ![t] = Nothing]
    BY <1>4 DEF Rollback, EndCommit
  <2>2. DOMAIN Nothing = {}
    BY NothingType
  <2>3. QED
    BY <1>1, <2>1, <2>2 DEF DataTypes
<1>5. CASE seen' = seen /\ snap_ts' = snap_ts
  BY <1>5
<1>6. ASSUME NEW t \in Txn,
             \/ \E k \in Key : Put(t, k) \/ Delete(t, k)
             \/ CommitReadOnly(t) \/ AllocCommitTs(t) \/ Acquire(t)
             \/ \E ok \in BOOLEAN : TryCommit(t, ok)
             \/ StoreFails(t) \/ CommitDone(t)
      PROVE  seen' = seen /\ snap_ts' = snap_ts
  BY <1>6, Zenon DEF Put, Delete, Buffer, CommitReadOnly, AllocCommitTs,
     Acquire, TryCommit, StoreFails, CommitDone, Report, txnVars
<1>7. ASSUME NEW c \in Collector, CollectBegin(c) \/ CollectShard(c)
      PROVE  seen' = seen /\ snap_ts' = snap_ts
  BY <1>7, Zenon DEF CollectBegin, CollectShard, txnVars
<1>8. CASE UNCHANGED vars
  BY <1>5, <1>8 DEF vars
<1> HIDE DEF Goal
<1>9. QED
  BY <1>2, <1>3, <1>4, <1>5, <1>6, <1>7, <1>8, Zenon DEF Next, CommitStep

\* No step changes the state as of the watermark or an earlier timestamp: the
\* timestamp of a commit under way is above it.
LEMMA SettledStep ==
    ASSUME CoreInv, [Next]_vars, NEW k, NEW ts \in Nat, ts <= read_ts
    PROVE  ValueAt(k, ts)' = ValueAt(k, ts)
<1>1. ASSUME NEW t \in Txn, TryCommit(t, TRUE)
      PROVE  ValueAt(k, ts)' = ValueAt(k, ts)
  <2>1. pc[t] = "committing"
    BY <1>1, CommitEffect
  <2>2. read_ts < commit_ts[t] /\ commit_ts[t] \in Nat /\ read_ts \in Nat
    BY <2>1, OracleFacts DEF CoreInv, Lifecycle, TypeOK
  <2>3. ts < commit_ts[t]
    BY <2>2
  <2>4. QED
    BY <1>1, <2>3, ValueAtUnaffected
<1>2. CASE \A t \in Txn : ~TryCommit(t, TRUE)
  BY <1>2, HistoryFrame, ValueAtKept
<1>3. QED
  BY <1>1, <1>2

\* Every step keeps ReadsFromSnapshot: get answers from an intact snapshot, and
\* what was read stays the state as of it.
LEMMA ReadsFromSnapshotStep ==
    ASSUME CoreInv, Intact, ReadsFromSnapshot, [Next]_vars
    PROVE  ReadsFromSnapshot'
<1>1. SUFFICES ASSUME NEW u \in Txn, NEW k \in DOMAIN seen'[u]
               PROVE  seen'[u][k] = ValueAt(k, snap_ts[u])'
  BY DEF ReadsFromSnapshot
<1> DEFINE ts == snap_ts[u]
<1>2. ts \in Nat /\ ts <= read_ts
  BY DEF CoreInv, TypeOK, Lifecycle
<1>3. \A s \in Nat : s <= read_ts => ValueAt(k, s)' = ValueAt(k, s)
  BY SettledStep
<1>4. snap_ts'[u] = ts => ValueAt(k, snap_ts[u])' = ValueAt(k, ts)
  BY <1>2, <1>3
<1>5. CASE seen'[u] = seen[u] /\ snap_ts'[u] = snap_ts[u]
  BY <1>1, <1>4, <1>5 DEF ReadsFromSnapshot
<1>6. ASSUME u \in Live, snap_ts'[u] = snap_ts[u], NEW j \in Key,
             seen'[u] = [i \in DOMAIN seen[u] \cup {j} |->
                            IF i = j THEN visible_value(chains[j], snap_ts[u])
                            ELSE seen[u][i]]
      PROVE  seen'[u][k] = ValueAt(k, snap_ts[u])'
  <2>1. SnapshotsIntact
    BY IntactSnapshots
  <2>2. visible_value(chains[j], ts) = ValueAt(j, ts)
    BY <1>6, <2>1 DEF SnapshotsIntact
  <2>3. CASE k = j
    BY <1>1, <1>4, <1>6, <2>2, <2>3
  <2>4. CASE k # j
    BY <1>1, <1>4, <1>6, <2>4 DEF ReadsFromSnapshot
  <2>5. QED
    BY <2>3, <2>4
<1>7. QED
  BY <1>1, <1>5, <1>6, SeenStep

-----------------------------------------------------------------------------
(* Serializability *)

\* Whoever commits with its reads validated comes after all the writers before
\* it: it is in nobody's snapshot, and they are all in its own as far as it
\* wrote or read what they wrote.
LEMMA CommitsLast ==
    ASSUME CoreInv, VersionKept, NEW t \in Txn, TryCommit(t, TRUE),
           kind[t] = "ser" \/ DOMAIN seen[t] = {}, NEW u \in Applied
    PROVE  ~Precedes(t, u)
<1>1. /\ pc[t] = "committing"
      /\ ~HasConflict(writes[t], reads(t), snap_ts[t])
  BY CommitEffect
<1>2. u \in Txn
  BY DEF Applied
<1>3. /\ commit_ts[t] \in Nat /\ commit_ts[u] \in Nat /\ read_ts \in Nat
      /\ snap_ts[t] \in Nat /\ snap_ts[u] \in Nat
      /\ snap_ts[t] <= read_ts /\ snap_ts[u] <= read_ts
  BY <1>2 DEF CoreInv, TypeOK, Lifecycle
<1>4. read_ts < commit_ts[t]
  BY <1>1, OracleFacts DEF CoreInv, Lifecycle
<1>5. \A k \in DOMAIN writes[u] :
          k \in DOMAIN writes[t] \cup reads(t) => commit_ts[u] <= snap_ts[t]
  BY <1>1, EarlierWriter
<1>6. DOMAIN seen[t] \subseteq DOMAIN writes[t] \cup reads(t)
  BY DEF reads
<1>7. QED
  BY <1>3, <1>4, <1>5, <1>6 DEF Precedes

\* A transaction that precedes none of S can be put at the end of S.
LEMMA SerialOrderExtends ==
    ASSUME NEW S, SerialOrderExists(S), NEW t, \A u \in S : ~Precedes(t, u)
    PROVE  SerialOrderExists(S \cup {t})
<1>1. SUFFICES ASSUME NEW C \in SUBSET (S \cup {t}), C # {}
               PROVE  \E first \in C : \A u \in C : ~Precedes(u, first)
  BY DEF SerialOrderExists
<1>2. CASE C \ {t} = {}
  <2>1. C = {t}
    BY <1>1, <1>2
  <2>2. ~Precedes(t, t)
    BY DEF Precedes
  <2>3. QED
    BY <2>1, <2>2
<1>3. CASE C \ {t} # {}
  <2>1. C \ {t} \in SUBSET S
    BY <1>1
  <2>2. PICK first \in C \ {t} : \A u \in C \ {t} : ~Precedes(u, first)
    BY <1>3, <2>1 DEF SerialOrderExists
  <2>3. ~Precedes(t, first)
    BY <2>1, <2>2
  <2>4. QED
    BY <2>2, <2>3
<1>4. QED
  BY <1>2, <1>3

\* The order depends on the history of its transactions alone.
LEMMA SerialOrderKept ==
    ASSUME NEW S, SerialOrderExists(S),
           \A u \in S :
              /\ writes'[u] = writes[u] /\ seen'[u] = seen[u]
              /\ commit_ts'[u] = commit_ts[u] /\ snap_ts'[u] = snap_ts[u]
    PROVE  SerialOrderExists(S)'
<1>1. \A t, u \in S : Precedes(t, u)' <=> Precedes(t, u)
  BY DEF Precedes
<1>2. SUFFICES ASSUME NEW C \in SUBSET S, C # {}
               PROVE  \E first \in C : \A u \in C : ~Precedes(u, first)'
  BY DEF SerialOrderExists
<1>3. PICK first \in C : \A u \in C : ~Precedes(u, first)
  BY <1>2 DEF SerialOrderExists
<1>4. QED
  BY <1>1, <1>2, <1>3

\* Every step keeps WritersSerializable.
LEMMA WritersSerializableStep ==
    ASSUME CoreInv, VersionKept, WritersSerializable, [Next]_vars
    PROVE  WritersSerializable'
<1> DEFINE V == ValidatedWriters
<1>1. ASSUME NEW t \in Txn, TryCommit(t, TRUE)
      PROVE  WritersSerializable'
  <2>1. /\ Applied' = Applied \cup {t}
        /\ UNCHANGED <<kind, snap_ts, writes, seen, commit_ts>>
    BY <1>1, CommitEffect
  <2>2. CASE kind[t] = "ser" \/ DOMAIN seen[t] = {}
    <3>1. ValidatedWriters' = V \cup {t}
      BY <2>1, <2>2 DEF ValidatedWriters
    <3>2. \A u \in V : ~Precedes(t, u)
      BY <1>1, <2>2, CommitsLast DEF ValidatedWriters
    <3>3. SerialOrderExists(V \cup {t})
      BY <3>2, SerialOrderExtends DEF WritersSerializable
    <3>4. QED
      BY <2>1, <3>1, <3>3
         DEF WritersSerializable, SerialOrderExists, Precedes
  <2>3. CASE ~(kind[t] = "ser" \/ DOMAIN seen[t] = {})
    <3>1. ValidatedWriters' = V
      BY <2>1, <2>3 DEF ValidatedWriters
    <3>2. QED
      BY <2>1, <3>1 DEF WritersSerializable, SerialOrderExists, Precedes
  <2>4. QED
    BY <2>2, <2>3
<1>2. CASE \A t \in Txn : ~TryCommit(t, TRUE)
  <2>1. HistoryKept
    BY <1>2, HistoryFrame
  <2>2. ValidatedWriters' = V
    BY <2>1 DEF HistoryKept, ValidatedWriters
  <2>3. \A u \in V :
            /\ writes'[u] = writes[u] /\ seen'[u] = seen[u]
            /\ commit_ts'[u] = commit_ts[u] /\ snap_ts'[u] = snap_ts[u]
    BY <2>1 DEF HistoryKept, ValidatedWriters
  <2>4. \A S : /\ SerialOrderExists(S)
               /\ \A u \in S :
                    /\ writes'[u] = writes[u] /\ seen'[u] = seen[u]
                    /\ commit_ts'[u] = commit_ts[u] /\ snap_ts'[u] = snap_ts[u]
               => SerialOrderExists(S)'
    BY SerialOrderKept
  <2>5. QED
    BY <2>2, <2>3, <2>4 DEF WritersSerializable
<1>3. QED
  BY <1>1, <1>2

-----------------------------------------------------------------------------
(* The inductive invariant *)

\* It holds of an empty database: nobody has written, and no chain answers.
LEMMA IInvInit == Init => DbInv
<1> SUFFICES ASSUME Init PROVE DbInv
  OBVIOUS
<1>1. CoreInv
  BY CoreInit
<1>2. Applied = {} /\ \A t \in Txn : DOMAIN seen[t] = {}
  <2>1. \A t \in Txn : outcome[t] = "none" /\ seen[t] = Nothing
    BY DEF Init
  <2>2. QED
    BY <2>1, NothingType DEF Applied
<1>3. VersionKept /\ FirstCommitterWins /\ ReadsFromSnapshot
  BY <1>2 DEF VersionKept, FirstCommitterWins, ReadsFromSnapshot
<1>4. ValidatedWriters = {}
  BY <1>2 DEF ValidatedWriters
<1>5. WritersSerializable
  BY <1>4 DEF WritersSerializable, SerialOrderExists
<1>6. \A k, ts : ValueAt(k, ts) = None
  BY <1>2 DEF ValueAt, LastWriter, Writers
<1>7. ASSUME NEW k \in Key, NEW ts \in 0..MaxTs
      PROVE  visible_value(chains[k], ts) = None
  <2>1. chains[k] = <<>>
    BY DEF Init, with_shards
  <2>2. QED
    BY <2>1, <1>7, EmptyVisible, MaxTsAssumption
<1>8. Intact
  BY <1>6, <1>7 DEF Intact
<1>9. QED
  BY <1>1, <1>3, <1>5, <1>8 DEF DbInv, CoreInv

\* Every step keeps it.
LEMMA IInvStep == DbInv /\ [Next]_vars => DbInv'
<1> SUFFICES ASSUME DbInv, [Next]_vars PROVE DbInv'
  OBVIOUS
<1>1. /\ CoreInv /\ VersionKept /\ FirstCommitterWins /\ Intact
      /\ ReadsFromSnapshot /\ WritersSerializable
  BY DEF DbInv, CoreInv
<1>2. CoreInv'
  BY <1>1, CoreStep
<1>3. VersionKept'
  BY <1>1, VersionKeptStep
<1>4. FirstCommitterWins'
  BY <1>1, FirstCommitterStep
<1>5. Intact'
  BY <1>1, IntactStep
<1>6. ReadsFromSnapshot'
  BY <1>1, ReadsFromSnapshotStep
<1>7. WritersSerializable'
  BY <1>1, WritersSerializableStep
<1>8. QED
  BY <1>2, <1>3, <1>4, <1>5, <1>6, <1>7 DEF DbInv, CoreInv

-----------------------------------------------------------------------------
(* The isolation guarantees *)

\* The inductive invariant holds in every behaviour of the database.
THEOREM Invariance == Spec => []DbInv
BY IInvInit, IInvStep, PTL DEF Spec

\* Transaction::get and Snapshot::get: every read observed the state as of the
\* handle's timestamp, and that state stays what it was.
THEOREM ReadsAreSnapshots == Spec => []ReadsFromSnapshot
<1>1. DbInv => ReadsFromSnapshot
  BY DEF DbInv
<1>2. QED
  BY <1>1, Invariance, PTL

\* collect_garbage: every live handle, and one that begins now, would read the
\* state as of its timestamp, whatever sweeps and commits are under way.
THEOREM SnapshotsStayIntact == Spec => []SnapshotsIntact
<1>1. DbInv => SnapshotsIntact
  BY IntactSnapshots DEF DbInv, CoreInv
<1>2. QED
  BY <1>1, Invariance, PTL

\* try_commit's write validation: of two applied transactions that wrote a
\* common key, one had committed when the other took its snapshot.
THEOREM FirstCommitterAlwaysWins == Spec => []FirstCommitterWins
<1>1. DbInv => FirstCommitterWins
  BY DEF DbInv
<1>2. QED
  BY <1>1, Invariance, PTL

\* try_commit's read validation, begin_serializable: the serializable
\* transactions that commit writes have a serial order.
THEOREM SerializableWriters == Spec => []WritersSerializable
<1>1. DbInv => WritersSerializable
  BY DEF DbInv
<1>2. QED
  BY <1>1, Invariance, PTL

=============================================================================
