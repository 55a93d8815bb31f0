------------------------- MODULE DbRefinementProofs -------------------------
(***************************************************************************)
(* The database implements SnapshotIsolation: try_commit's                 *)
(* validate-and-apply is the step at which a transaction commits, and      *)
(* everything else about locks, chains and sweeps does not show.           *)
(***************************************************************************)
EXTENDS DbHistoryProofs

-----------------------------------------------------------------------------
(* The history of a handle as its user sees it *)

\* What a handle shows at each stage.
Shows(t) ==
    /\ t \in Applied =>
         /\ Phase[t] = "committed" /\ Committed[t] = writes[t]
         /\ When[t] = commit_ts[t]
    /\ t \notin Applied =>
         /\ Committed[t] = Nothing /\ When[t] = 0
         /\ pc[t] = "idle" => Phase[t] = "idle"
         /\ pc[t] # "idle" /\ outcome[t] = "none" => Phase[t] = "active"
         /\ pc[t] # "idle" /\ outcome[t] # "none" => Phase[t] = "over"
    /\ outcome[t] \in Refused => Observed[t] = Nothing
    /\ outcome[t] \notin Refused => Observed[t] = seen[t]
    /\ Checked[t] = (kind[t] = "ser")

\* The mapped variables show what Shows says, before and after a step.
LEMMA ViewOf == \A t \in Txn : Shows(t) /\ Shows(t)'
BY DEF Shows, Phase, Committed, When, Observed, Checked

\* A step of one handle leaves what the others show.
LEMMA OthersView ==
    ASSUME NEW t \in Txn,
           \A u \in Txn \ {t} :
              /\ pc'[u] = pc[u] /\ kind'[u] = kind[u]
              /\ writes'[u] = writes[u] /\ seen'[u] = seen[u]
              /\ commit_ts'[u] = commit_ts[u] /\ outcome'[u] = outcome[u]
    PROVE  /\ Phase' = [Phase EXCEPT ![t] = Phase'[t]]
           /\ Checked' = [Checked EXCEPT ![t] = Checked'[t]]
           /\ Observed' = [Observed EXCEPT ![t] = Observed'[t]]
           /\ Committed' = [Committed EXCEPT ![t] = Committed'[t]]
           /\ When' = [When EXCEPT ![t] = When'[t]]
<1>1. \A u \in Txn \ {t} : u \in Applied' <=> u \in Applied
  BY DEF Applied
<1>2. Phase' = [Phase EXCEPT ![t] = Phase'[t]]
  BY <1>1 DEF Phase
<1>3. Checked' = [Checked EXCEPT ![t] = Checked'[t]]
  BY DEF Checked
<1>4. Observed' = [Observed EXCEPT ![t] = Observed'[t]]
  BY DEF Observed
<1>5. Committed' = [Committed EXCEPT ![t] = Committed'[t]]
  BY <1>1 DEF Committed
<1>6. When' = [When EXCEPT ![t] = When'[t]]
  BY <1>1 DEF When
<1>7. QED
  BY <1>2, <1>3, <1>4, <1>5, <1>6

\* What a handle goes on to show is not changed.
LEMMA SameView ==
    ASSUME NEW t \in Txn
    PROVE  /\ Phase = [Phase EXCEPT ![t] = Phase[t]]
           /\ Checked = [Checked EXCEPT ![t] = Checked[t]]
           /\ Observed = [Observed EXCEPT ![t] = Observed[t]]
           /\ Committed = [Committed EXCEPT ![t] = Committed[t]]
           /\ When = [When EXCEPT ![t] = When[t]]
BY DEF Phase, Checked, Observed, Committed, When

\* The state as of a timestamp is the same for the user: Promise!ValueAt leaves
\* out who has not committed by his timestamp 0, ValueAt by his outcome.
LEMMA SameState ==
    ASSUME CoreInv, NEW k, NEW ts \in Nat
    PROVE  Promise!ValueAt(k, ts) = ValueAt(k, ts)
<1>1. \A u \in Txn : Shows(u)
  BY ViewOf
<1>2. \A u \in Applied : u \in Txn /\ commit_ts[u] \in Nat /\ 0 < commit_ts[u]
  BY DEF CoreInv, TypeOK, Lifecycle, Applied
<1>3. Promise!Writers(Committed, When, k, ts) = Writers(k, ts)
  BY <1>1, <1>2 DEF Promise!Writers, Writers, Shows
<1>4. \A u \in Writers(k, ts) :
          /\ u \in Applied /\ When[u] = commit_ts[u]
          /\ Committed[u] = writes[u]
  BY <1>1, <1>2 DEF Writers, Shows
<1>5. Promise!LastWriter(Committed, When, k, ts) = LastWriter(k, ts)
  BY <1>3, <1>4 DEF Promise!LastWriter, LastWriter
<1>6. Promise!TheOne(LastWriter(k, ts)) = TheOne(LastWriter(k, ts))
  BY DEF Promise!TheOne, TheOne
<1>7. LastWriter(k, ts) # {} => TheOne(LastWriter(k, ts)) \in Writers(k, ts)
  BY DEF TheOne, LastWriter
<1>8. QED
  BY <1>4, <1>5, <1>6, <1>7 DEF Promise!ValueAt, Promise!ValueIn, ValueAt

\* Nothing has happened yet.
LEMMA PromiseInit == Init => Promise!Init
<1> SUFFICES ASSUME Init PROVE Promise!Init
  OBVIOUS
<1>1. \A t \in Txn : /\ pc[t] = "idle" /\ kind[t] = "none"
                     /\ outcome[t] = "none" /\ seen[t] = Nothing
  BY DEF Init
<1>2. Applied = {} /\ "none" \notin Refused
  BY <1>1, RefusedErrors DEF Applied
<1>3. /\ Phase = [t \in Txn |-> "idle"]
      /\ Observed = [t \in Txn |-> Nothing]
      /\ Committed = [t \in Txn |-> Nothing]
      /\ When = [t \in Txn |-> 0]
      /\ Checked = [t \in Txn |-> FALSE]
  <2>1. Phase = [t \in Txn |-> "idle"]
    BY <1>1, <1>2 DEF Phase
  <2>2. \A t \in Txn : (kind[t] = "ser") = FALSE
    BY <1>1
  <2>3. Checked = [t \in Txn |-> FALSE]
    BY <2>2 DEF Checked
  <2>4. Observed = [t \in Txn |-> Nothing]
    BY <1>1, <1>2 DEF Observed
  <2>5. Committed = [t \in Txn |-> Nothing]
    BY <1>2 DEF Committed
  <2>6. When = [t \in Txn |-> 0]
    BY <1>2 DEF When
  <2>7. QED
    BY <2>1, <2>3, <2>4, <2>5, <2>6
<1>4. Promise!Nothing = Nothing
  BY DEF Promise!Nothing, Nothing
<1>5. read_ts = 0 /\ snap_ts = [t \in Txn |-> 0]
  BY DEF Init, new, recovered
<1>6. QED
  BY <1>3, <1>4, <1>5 DEF Promise!Init

-----------------------------------------------------------------------------
(* Every operation is a step of SnapshotIsolation or does not show *)

\* Db::begin, begin_serializable, snapshot.
LEMMA BeginStarts ==
    ASSUME CoreInv, NEW t \in Txn, NEW knd \in Kind, Begin(t, knd)
    PROVE  Promise!Start(t, knd = "ser")
<1>1. DataTypes /\ Stage(t)
  BY TypeParts, LifecycleParts DEF CoreInv
<1>2. /\ pc[t] = "idle" /\ pc' = [pc EXCEPT ![t] = "active"]
      /\ kind' = [kind EXCEPT ![t] = knd]
      /\ snap_ts' = [snap_ts EXCEPT ![t] = read_ts]
      /\ UNCHANGED <<read_ts, writes, seen, commit_ts, outcome>>
  BY DEF Begin, begin_reader
<1>3. outcome[t] = "none" /\ t \notin Applied /\ t \notin Applied'
  BY <1>1, <1>2 DEF Stage, Applied
<1>4. /\ Phase[t] = "idle" /\ Phase'[t] = "active"
      /\ Checked'[t] = (knd = "ser") /\ Observed'[t] = Observed[t]
      /\ Committed'[t] = Committed[t] /\ When'[t] = When[t]
  <2>1. pc'[t] = "active" /\ kind'[t] = knd
    BY <1>1, <1>2 DEF DataTypes
  <2>2. Shows(t) /\ Shows(t)'
    BY ViewOf
  <2>3. Checked'[t] = (knd = "ser")
    BY <2>1, <2>2 DEF Shows
  <2>4. QED
    BY <1>2, <1>3, <2>1, <2>2, <2>3 DEF Shows
<1>5. /\ Phase' = [Phase EXCEPT ![t] = "active"]
      /\ Checked' = [Checked EXCEPT ![t] = (knd = "ser")]
      /\ Observed' = Observed /\ Committed' = Committed /\ When' = When
  <2>1. \A u \in Txn \ {t} : pc'[u] = pc[u] /\ kind'[u] = kind[u]
    BY <1>1, <1>2 DEF DataTypes
  <2>2. QED
    BY <1>2, <1>4, <2>1, OthersView, SameView
<1>6. QED
  BY <1>2, <1>4, <1>5 DEF Promise!Start

\* Transaction::get and Snapshot::get: the store answers with the state as of
\* the snapshot.
LEMMA GetReads ==
    ASSUME CoreInv, Intact, NEW t \in Txn, NEW k \in Key, Get(t, k)
    PROVE  Promise!Read(t, k)
<1>1. DataTypes /\ Stage(t)
  BY TypeParts, LifecycleParts DEF CoreInv
<1> DEFINE value == visible_value(chains[k], snap_ts[t])
           answer == [j \in DOMAIN seen[t] \cup {k} |->
                         IF j = k THEN value ELSE seen[t][j]]
<1>2. /\ pc[t] = "active" /\ seen' = [seen EXCEPT ![t] = answer]
      /\ UNCHANGED <<read_ts, pc, kind, snap_ts, writes, commit_ts, outcome>>
  BY DEF Get, oracleVars
<1>3. /\ outcome[t] = "none" /\ t \notin Applied /\ t \notin Applied'
      /\ outcome[t] \notin Refused /\ t \in Live
  BY <1>1, <1>2, RefusedErrors DEF Stage, Applied, Live
<1>4. value = Promise!ValueAt(k, snap_ts[t])
  <2>1. value = ValueAt(k, snap_ts[t])
    BY <1>3, IntactSnapshots DEF SnapshotsIntact
  <2>2. QED
    BY <1>1, <2>1, SameState DEF DataTypes
<1>5. /\ Phase[t] = "active" /\ Phase'[t] = Phase[t]
      /\ Checked'[t] = Checked[t] /\ Observed[t] = seen[t]
      /\ Committed'[t] = Committed[t] /\ When'[t] = When[t]
      /\ Observed'[t] = seen'[t]
  BY <1>2, <1>3, ViewOf DEF Shows
<1>6. seen'[t] = answer
  BY <1>1, <1>2 DEF DataTypes
<1>7. /\ Phase' = Phase /\ Checked' = Checked /\ Committed' = Committed
      /\ When' = When /\ Observed' = [Observed EXCEPT ![t] = answer]
  <2>1. \A u \in Txn \ {t} : seen'[u] = seen[u]
    BY <1>1, <1>2 DEF DataTypes
  <2>2. Observed'[t] = answer
    BY <1>5, <1>6
  <2> HIDE DEF answer
  <2>3. QED
    BY <1>2, <1>5, <2>1, <2>2, OthersView, SameView
<1> HIDE DEF value
<1>8. Observed' = [Observed EXCEPT ![t] = [j \in DOMAIN @ \cup {k} |->
            IF j = k THEN Promise!ValueAt(k, snap_ts[t]) ELSE @[j]]]
  BY <1>4, <1>5, <1>7
<1>9. QED
  BY <1>2, <1>5, <1>7, <1>8 DEF Promise!Read

\* A buffered write, a timestamp taken and a lock taken do not show.
LEMMA PreparingStutters ==
    ASSUME CoreInv, NEW t \in Txn,
           \/ \E k \in Key : Put(t, k) \/ Delete(t, k)
           \/ AllocCommitTs(t) \/ Acquire(t)
    PROVE  UNCHANGED Promise!vars
<1>1. DataTypes /\ Stage(t)
  BY TypeParts, LifecycleParts DEF CoreInv
<1>2. /\ pc[t] \in {"active", "committing"}
      /\ pc' = pc \/ pc' = [pc EXCEPT ![t] = "committing"]
      /\ \/ writes' = writes
         \/ \E f : writes' = [writes EXCEPT ![t] = f]
      /\ \/ commit_ts' = commit_ts
         \/ \E ts : commit_ts' = [commit_ts EXCEPT ![t] = ts]
      /\ UNCHANGED <<read_ts, kind, snap_ts, seen, outcome>>
  BY DEF Put, Delete, Buffer, AllocCommitTs, alloc_commit_ts, Acquire,
         txnVars, oracleVars
<1>3. /\ outcome[t] = "none" /\ t \notin Applied /\ t \notin Applied'
      /\ pc[t] # "idle" /\ pc'[t] # "idle"
  BY <1>1, <1>2 DEF Stage, Applied, DataTypes
<1>4. /\ Phase'[t] = Phase[t] /\ Checked'[t] = Checked[t]
      /\ Observed'[t] = Observed[t] /\ Committed'[t] = Committed[t]
      /\ When'[t] = When[t]
  BY <1>2, <1>3, ViewOf DEF Shows
<1>5. \A u \in Txn \ {t} : /\ pc'[u] = pc[u] /\ writes'[u] = writes[u]
                           /\ commit_ts'[u] = commit_ts[u]
  BY <1>1, <1>2 DEF DataTypes
<1>6. /\ Phase' = Phase /\ Checked' = Checked /\ Observed' = Observed
      /\ Committed' = Committed /\ When' = When
  BY <1>2, <1>4, <1>5, OthersView, SameView
<1>7. QED
  BY <1>2, <1>6 DEF Promise!vars

\* A handle that is decided without being applied: commit of an empty buffer,
\* rollback or drop, a lost validation, a failing store.
LEMMA EndingFinishes ==
    ASSUME CoreInv, NEW t \in Txn,
           \/ CommitReadOnly(t) \/ Rollback(t)
           \/ TryCommit(t, FALSE) \/ StoreFails(t)
    PROVE  Promise!Finish(t)
<1>1. DataTypes /\ Stage(t)
  BY TypeParts, LifecycleParts DEF CoreInv
<1>2. /\ pc[t] \in {"active", "committing"}
      /\ \E p \in {"decided", "ended"} : pc' = [pc EXCEPT ![t] = p]
      /\ UNCHANGED <<read_ts, kind, snap_ts, commit_ts>>
  BY DEF CommitReadOnly, Rollback, TryCommit, StoreFails, end_reader,
         oracleVars
<1>3. \/ /\ outcome' = [outcome EXCEPT ![t] = "ok"]
         /\ writes' = writes /\ seen' = seen /\ DOMAIN writes[t] = {}
      \/ /\ outcome' = [outcome EXCEPT ![t] = "rolled_back"]
         /\ writes' = [writes EXCEPT ![t] = Nothing]
         /\ seen' = [seen EXCEPT ![t] = Nothing]
      \/ /\ \E e \in Refused : outcome' = [outcome EXCEPT ![t] = e]
         /\ writes' = writes /\ seen' = seen
  BY RefusedErrors DEF CommitReadOnly, Rollback, TryCommit, StoreFails
<1>4. /\ outcome[t] = "none" /\ outcome'[t] # "none"
      /\ pc[t] # "idle" /\ pc'[t] # "idle"
      /\ t \notin Applied /\ t \notin Applied'
  BY <1>1, <1>2, <1>3, RefusedErrors DEF Stage, Applied, DataTypes
<1>5. /\ Phase[t] = "active" /\ Phase'[t] = "over"
      /\ Checked'[t] = Checked[t]
      /\ Committed'[t] = Committed[t] /\ When'[t] = When[t]
  BY <1>2, <1>4, ViewOf DEF Shows
<1>6. Observed'[t] = Observed[t] \/ Observed'[t] = Nothing
  <2>1. /\ Observed[t] = seen[t]
        /\ Observed'[t] = seen'[t] \/ Observed'[t] = Nothing
    BY <1>4, ViewOf, RefusedErrors DEF Shows
  <2>2. seen'[t] = seen[t] \/ seen'[t] = Nothing
    BY <1>1, <1>3 DEF DataTypes
  <2>3. QED
    BY <2>1, <2>2
<1>7. \A u \in Txn \ {t} : /\ pc'[u] = pc[u] /\ writes'[u] = writes[u]
                           /\ seen'[u] = seen[u] /\ outcome'[u] = outcome[u]
  BY <1>1, <1>2, <1>3 DEF DataTypes
<1>8. /\ Phase' = [Phase EXCEPT ![t] = "over"]
      /\ Checked' = Checked /\ Committed' = Committed /\ When' = When
      /\ Observed' = [Observed EXCEPT ![t] = Observed'[t]]
  BY <1>2, <1>5, <1>7, OthersView, SameView
<1>9. Observed' = Observed \/ Observed' = [Observed EXCEPT ![t] = Nothing]
  BY <1>6, <1>8, SameView
<1>10. Promise!Nothing = Nothing
  BY DEF Promise!Nothing, Nothing
<1>11. QED
  BY <1>2, <1>5, <1>8, <1>9, <1>10 DEF Promise!Finish

\* Validate-and-apply is the commit: nobody has written one of its keys after
\* its snapshot, also when the versions of those who did were collected since.
LEMMA ApplyCommits ==
    ASSUME CoreInv, VersionKept, NEW t \in Txn, TryCommit(t, TRUE)
    PROVE  \E b \in Promise!Batch(t), ts \in 1..MaxTs :
               Promise!Commit(t, b, ts)
<1>1. DataTypes /\ Stage(t)
  BY TypeParts, LifecycleParts DEF CoreInv
<1>2. /\ t \notin Applied /\ Applied' = Applied \cup {t}
      /\ pc[t] = "committing" /\ DOMAIN writes[t] # {}
      /\ ~HasConflict(writes[t], reads(t), snap_ts[t])
      /\ UNCHANGED <<read_ts, kind, snap_ts, writes, seen, commit_ts>>
  BY CommitEffect DEF oracleVars
<1>3. /\ pc' = [pc EXCEPT ![t] = "decided"]
      /\ outcome' = [outcome EXCEPT ![t] = "ok"]
  BY DEF TryCommit
<1>4. /\ outcome[t] = "none" /\ outcome'[t] = "ok"
      /\ "none" \notin Refused /\ "ok" \notin Refused
  BY <1>1, <1>2, <1>3, RefusedErrors DEF Stage, DataTypes
<1>5. /\ Phase[t] = "active" /\ Phase'[t] = "committed"
      /\ Checked'[t] = Checked[t]
      /\ Observed[t] = seen[t] /\ Observed'[t] = Observed[t]
      /\ Committed'[t] = writes[t] /\ When'[t] = commit_ts[t]
  BY <1>2, <1>4, ViewOf DEF Shows
<1>6. \A u \in Txn \ {t} : pc'[u] = pc[u] /\ outcome'[u] = outcome[u]
  BY <1>1, <1>3 DEF DataTypes
<1>7. /\ Phase' = [Phase EXCEPT ![t] = "committed"]
      /\ Checked' = Checked /\ Observed' = Observed
      /\ Committed' = [Committed EXCEPT ![t] = writes[t]]
      /\ When' = [When EXCEPT ![t] = commit_ts[t]]
  BY <1>2, <1>5, <1>6, OthersView, SameView
<1>8. /\ commit_ts[t] \in 1..MaxTs /\ commit_ts[t] > read_ts
  <2>1. /\ commit_ts[t] # 0 /\ commit_ts[t] < next_ts /\ next_ts <= MaxTs + 1
        /\ read_ts < commit_ts[t]
    BY <1>2, OracleFacts DEF CoreInv, Lifecycle
  <2>2. /\ commit_ts[t] \in Nat /\ next_ts \in Nat /\ MaxTs \in Nat
        /\ read_ts \in Nat
    BY MaxTsAssumption DEF CoreInv, TypeOK
  <2>3. QED
    BY <2>1, <2>2
<1>9. \A u \in Txn : When[u] # commit_ts[t]
  <2>1. \A u \in Applied : u \in Txn /\ u # t /\ commit_ts[t] # 0
    BY <1>2, <1>1 DEF Applied, Stage
  <2>2. \A u \in Applied : commit_ts[u] # commit_ts[t]
    BY <2>1 DEF CoreInv, Lifecycle
  <2>3. QED
    BY <1>1, <1>2, <2>2, ViewOf DEF Shows, Stage
<1>10. Promise!Unchallenged(t, writes[t])
  <2>1. Promise!Footprint(t, writes[t])
            \subseteq DOMAIN writes[t] \cup reads(t)
    <3>1. Checked[t] => kind[t] = "ser"
      BY ViewOf DEF Shows
    <3>2. QED
      BY <1>5, <3>1 DEF Promise!Footprint, reads
  <2>2. SUFFICES ASSUME NEW u \in Txn, When[u] > snap_ts[t],
                        NEW k \in DOMAIN Committed[u],
                        k \in DOMAIN writes[t] \cup reads(t)
                 PROVE  FALSE
    BY <2>1 DEF Promise!Unchallenged
  <2>3. u \in Applied
    <3>1. snap_ts[t] \in Nat
      BY <1>1 DEF DataTypes
    <3>2. When[u] # 0
      BY <2>2, <3>1
    <3>3. QED
      BY <3>2, ViewOf DEF Shows
  <2>4. When[u] = commit_ts[u] /\ k \in DOMAIN writes[u]
    BY <2>2, <2>3, ViewOf DEF Shows
  <2>5. commit_ts[u] <= snap_ts[t]
    BY <1>2, <2>2, <2>3, <2>4, EarlierWriter
  <2>6. QED
    BY <1>1, <2>2, <2>4, <2>5 DEF DataTypes
<1>11. writes[t] \in Promise!Batch(t)
  <2>1. writes[t] \in [DOMAIN writes[t] -> {t, None}]
    <3>1. writes[t] = [k \in DOMAIN writes[t] |-> writes[t][k]]
      BY <1>1 DEF DataTypes, PartialFcn
    <3>2. QED
      BY <1>1, <3>1 DEF Stage
  <2>2. DOMAIN writes[t] \in (SUBSET Key) \ {{}}
    BY <1>1, <1>2, BufferElement DEF DataTypes
  <2>3. QED
    BY <2>1, <2>2, Zenon DEF Promise!Batch
<1>12. Promise!Commit(t, writes[t], commit_ts[t])
  BY <1>2, <1>5, <1>7, <1>8, <1>9, <1>10 DEF Promise!Commit
<1>13. QED
  BY <1>8, <1>11, <1>12

\* A commit that reports moves the watermark or does not show.
LEMMA DoneAdvances ==
    ASSUME CoreInv, CoreInv', [Next]_vars, NEW t \in Txn, CommitDone(t)
    PROVE  \/ \E ts \in 1..MaxTs : Promise!Advance(ts)
           \/ UNCHANGED Promise!vars
<1>1. DataTypes /\ Stage(t)
  BY TypeParts, LifecycleParts DEF CoreInv
<1>2. /\ pc[t] = "decided" /\ pc' = [pc EXCEPT ![t] = "returning"]
      /\ UNCHANGED <<kind, snap_ts, writes, seen, commit_ts, outcome>>
  BY DEF CommitDone, Report
<1>3. pc[t] # "idle" /\ pc'[t] # "idle" /\ (t \in Applied' <=> t \in Applied)
  BY <1>1, <1>2 DEF DataTypes, Applied
<1>4. /\ Phase'[t] = Phase[t] /\ Checked'[t] = Checked[t]
      /\ Observed'[t] = Observed[t] /\ Committed'[t] = Committed[t]
      /\ When'[t] = When[t]
  BY <1>2, <1>3, ViewOf DEF Shows
<1>5. \A u \in Txn \ {t} : pc'[u] = pc[u]
  BY <1>1, <1>2 DEF DataTypes
<1>6. /\ Phase' = Phase /\ Checked' = Checked /\ Observed' = Observed
      /\ Committed' = Committed /\ When' = When
  BY <1>2, <1>4, <1>5, OthersView, SameView
<1>7. read_ts \in Nat /\ read_ts' \in Nat /\ read_ts' >= read_ts
  BY OracleMonotone DEF CoreInv, TypeOK
<1>8. read_ts' <= MaxTs
  <2>1. read_ts' < next_ts' /\ next_ts' <= MaxTs + 1 /\ next_ts' \in Nat
    BY DEF CoreInv, TypeOK, Lifecycle, Contract!IInv, Contract!WatermarkInv
  <2>2. QED
    BY <1>7, <2>1, MaxTsAssumption
<1>9. CASE read_ts' = read_ts
  BY <1>2, <1>6, <1>9 DEF Promise!vars
<1>10. CASE read_ts' # read_ts
  <2>1. read_ts' > read_ts /\ read_ts' \in 1..MaxTs
    BY <1>7, <1>8, <1>10, MaxTsAssumption
  <2>2. Promise!Advance(read_ts')
    BY <1>2, <1>6, <2>1 DEF Promise!Advance
  <2>3. QED
    BY <2>1, <2>2
<1>11. QED
  BY <1>9, <1>10

\* Returning from commit does not show, nor does garbage collection.
LEMMA EndCommitStutters ==
    ASSUME CoreInv, NEW t \in Txn, EndCommit(t)
    PROVE  UNCHANGED Promise!vars
<1>1. DataTypes /\ Stage(t)
  BY TypeParts, LifecycleParts DEF CoreInv
<1>2. /\ pc[t] = "returning" /\ pc' = [pc EXCEPT ![t] = "ended"]
      /\ UNCHANGED <<read_ts, kind, snap_ts, commit_ts, outcome>>
      /\ \/ writes' = writes /\ seen' = seen
         \/ /\ writes' = [writes EXCEPT ![t] = Nothing]
            /\ seen' = [seen EXCEPT ![t] = Nothing]
            /\ outcome[t] \in Refused
  BY DEF EndCommit, end_reader
<1>3. /\ pc[t] # "idle" /\ pc'[t] # "idle"
      /\ (t \in Applied' <=> t \in Applied)
      /\ t \in Applied => writes'[t] = writes[t]
      /\ outcome[t] \in Refused \/ seen'[t] = seen[t]
  BY <1>1, <1>2, RefusedErrors DEF DataTypes, Applied
<1>4. /\ Phase'[t] = Phase[t] /\ Checked'[t] = Checked[t]
      /\ Observed'[t] = Observed[t] /\ Committed'[t] = Committed[t]
      /\ When'[t] = When[t]
  BY <1>2, <1>3, ViewOf DEF Shows
<1>5. \A u \in Txn \ {t} : /\ pc'[u] = pc[u] /\ writes'[u] = writes[u]
                           /\ seen'[u] = seen[u]
  BY <1>1, <1>2 DEF DataTypes
<1>6. /\ Phase' = Phase /\ Checked' = Checked /\ Observed' = Observed
      /\ Committed' = Committed /\ When' = When
  BY <1>2, <1>4, <1>5, OthersView, SameView
<1>7. QED
  BY <1>2, <1>6 DEF Promise!vars

\* A sweep changes nothing that the promise is about.
LEMMA CollectStutters ==
    ASSUME UNCHANGED <<read_ts, txnVars>>
    PROVE  UNCHANGED Promise!vars
<1>1. Applied' = Applied
  BY DEF txnVars, Applied
<1>2. /\ Phase' = Phase /\ Checked' = Checked /\ Observed' = Observed
      /\ Committed' = Committed /\ When' = When
  BY <1>1 DEF txnVars, Phase, Checked, Observed, Committed, When
<1>3. QED
  BY <1>2 DEF Promise!vars, txnVars

\* Every step of the database.
LEMMA PromiseStep ==
    ASSUME DbInv, DbInv', [Next]_vars
    PROVE  [Promise!Next]_(Promise!vars)
<1> DEFINE Goal == [Promise!Next]_(Promise!vars)
<1> SUFFICES Goal
  OBVIOUS
<1>1. CoreInv /\ VersionKept /\ Intact /\ CoreInv'
  BY DEF DbInv, CoreInv
<1>2. ASSUME NEW t \in Txn, NEW knd \in Kind, Begin(t, knd)
      PROVE  Goal
  <2>1. Promise!Start(t, knd = "ser") /\ (knd = "ser") \in BOOLEAN
    BY <1>1, <1>2, BeginStarts
  <2>2. QED
    BY <2>1, Zenon DEF Promise!Next
<1>3. ASSUME NEW t \in Txn, NEW k \in Key, Get(t, k)
      PROVE  Goal
  BY <1>1, <1>3, GetReads DEF Promise!Next
<1>4. ASSUME NEW t \in Txn,
             \/ \E k \in Key : Put(t, k) \/ Delete(t, k)
             \/ AllocCommitTs(t) \/ Acquire(t)
      PROVE  Goal
  BY <1>1, <1>4, PreparingStutters
<1>5. ASSUME NEW t \in Txn,
             \/ CommitReadOnly(t) \/ Rollback(t)
             \/ TryCommit(t, FALSE) \/ StoreFails(t)
      PROVE  Goal
  BY <1>1, <1>5, EndingFinishes DEF Promise!Next
<1>6. ASSUME NEW t \in Txn, TryCommit(t, TRUE)
      PROVE  Goal
  BY <1>1, <1>6, ApplyCommits DEF Promise!Next
<1>7. ASSUME NEW t \in Txn, CommitDone(t)
      PROVE  Goal
  BY <1>1, <1>7, DoneAdvances DEF Promise!Next
<1>8. ASSUME NEW t \in Txn, EndCommit(t)
      PROVE  Goal
  BY <1>1, <1>8, EndCommitStutters
<1>9. ASSUME NEW c \in Collector, CollectBegin(c) \/ CollectShard(c)
      PROVE  Goal
  <2>1. UNCHANGED <<read_ts, txnVars>>
    BY <1>9 DEF CollectBegin, CollectShard, oracleVars
  <2>2. QED
    BY <2>1, CollectStutters
<1>10. CASE UNCHANGED vars
  <2>1. UNCHANGED <<read_ts, txnVars>>
    BY <1>10 DEF vars, txnVars
  <2>2. QED
    BY <2>1, CollectStutters
<1> HIDE DEF Goal
<1>11. ASSUME NEW t \in Txn, NEW ok \in BOOLEAN, TryCommit(t, ok)
       PROVE  Goal
  <2>1. CASE ok = TRUE
    BY <1>6, <1>11, <2>1, Zenon
  <2>2. CASE ok = FALSE
    BY <1>5, <1>11, <2>2, Zenon
  <2>3. QED
    BY <2>1, <2>2
<1>12. QED
  <2>1. ASSUME NEW t \in Txn, CommitStep(t)
        PROVE  Goal
    BY <1>4, <1>5, <1>7, <1>8, <1>11, <2>1, Zenon DEF CommitStep
  <2>2. ASSUME NEW t \in Txn,
               \E k \in Key : Get(t, k) \/ Put(t, k) \/ Delete(t, k)
        PROVE  Goal
    BY <1>3, <1>4, <2>2, Zenon
  <2>3. CASE Next
    BY <1>2, <1>4, <1>5, <1>9, <2>1, <2>2, <2>3, Zenon DEF Next
  <2>4. QED
    BY <1>10, <2>3

-----------------------------------------------------------------------------

\* db.rs and txn.rs: the database keeps the promise of SnapshotIsolation: every
\* transaction reads one snapshot and commits in one step, or not at all, above
\* everything visible and only if nobody overwrote what it answers for.
THEOREM KeepsPromise == Spec => ImplementsSnapshotIsolation
<1>1. DbInv /\ DbInv' /\ [Next]_vars => [Promise!Next]_(Promise!vars)
  BY PromiseStep
<1>2. QED
  BY <1>1, PromiseInit, Invariance, PTL
     DEF Spec, ImplementsSnapshotIsolation, Promise!Spec

-----------------------------------------------------------------------------
(* MemoryStore keeps the contract of the VersionStore trait *)

\* What is stored.
LEMMA StoredRows ==
    ASSUME NEW V, NEW chs \in [Key -> Seq(VersionOf(V))], NEW v
    PROVE  v \in Rows(chs) <=> \E k \in Key : \E i \in 1..Len(chs[k]) :
                                   v = Row(k, chs[k][i])
<1>1. \A k \in Key : DOMAIN chs[k] = 1..Len(chs[k])
  OBVIOUS
<1>2. v \in Rows(chs) <=> \E k \in Key : \E i \in DOMAIN chs[k] :
                              v = Row(k, chs[k][i])
  BY DEF Rows
<1>3. QED
  BY <1>1, <1>2

\* get of the contract is visible_value on the chain.
LEMMA GetIsVisible ==
    ASSUME NEW V, NEW chs \in [Key -> Seq(VersionOf(V))],
           NEW k \in Key, Ascending(chs[k]), NEW ts \in Nat
    PROVE  StoreContract!get(Rows(chs), k, ts) = visible_value(chs[k], ts)
<1> DEFINE chain == chs[k]
           n == partition_point(chain, ts)
           Vis == StoreContract!Visible(Rows(chs), k, ts)
<1>1. chain \in Seq(VersionOf(V)) /\ Ascending(chain)
  OBVIOUS
<1>2. /\ Len(chain) \in Nat
      /\ \A i \in 1..Len(chain) : chain[i].commit_ts \in Nat
  BY <1>1, ChainElement
<1>3. IsPartition(chain, ts, n)
  BY <1>1, PartitionExists
<1>4. \A v : v \in Vis <=> \E i \in 1..Len(chain) :
                              v = Row(k, chain[i]) /\ chain[i].commit_ts <= ts
  <2>1. \A v : v \in Vis <=> v \in Rows(chs) /\ v.key = k /\ v.commit_ts <= ts
    BY DEF StoreContract!Visible
  <2>2. \A v : v \in Rows(chs) <=> \E j \in Key : \E i \in 1..Len(chs[j]) :
                                       v = Row(j, chs[j][i])
    BY StoredRows
  <2>3. \A j, u : Row(j, u).key = j /\ Row(j, u).commit_ts = u.commit_ts
    BY DEF Row
  <2> HIDE DEF Vis
  <2>4. QED
    BY <2>1, <2>2, <2>3
<1> HIDE DEF n, Vis, chain
<1>5. n \in 0..Len(chain)
  BY <1>3 DEF IsPartition
<1>6. \A i \in 1..Len(chain) : chain[i].commit_ts <= ts => i <= n
  <2>1. SUFFICES ASSUME NEW i \in 1..Len(chain), ~(i <= n)
                 PROVE  ~(chain[i].commit_ts <= ts)
    OBVIOUS
  <2>2. n + 1 \in 1..Len(chain) /\ chain[n + 1].commit_ts > ts
    BY <1>2, <1>3, <1>5, <2>1 DEF IsPartition
  <2>3. CASE i = n + 1
    BY <1>2, <2>2, <2>3
  <2>4. CASE i # n + 1
    <3>1. n + 1 < i
      BY <1>2, <1>5, <2>1, <2>4
    <3>2. chain[n + 1].commit_ts < chain[i].commit_ts
      BY <1>1, <2>2, <3>1, AscendingPairs
    <3>3. QED
      BY <1>2, <2>2, <3>2
  <2>5. QED
    BY <2>3, <2>4
<1>7. CASE n = 0
  <2>1. Vis = {}
    BY <1>4, <1>6, <1>7
  <2>2. QED
    BY <1>7, <2>1 DEF StoreContract!get, visible_value, Vis, n, chain
<1>8. CASE n # 0
  <2>1. n \in 1..Len(chain) /\ chain[n].commit_ts <= ts
    BY <1>2, <1>3, <1>5, <1>8 DEF IsPartition
  <2> DEFINE newest == Row(k, chain[n])
             IsNewest(v) == \A u \in Vis : u.commit_ts <= v.commit_ts
  <2>2. \A j, u : /\ Row(j, u).commit_ts = u.commit_ts
                  /\ Row(j, u).value = u.value
    BY DEF Row
  <2>3. newest \in Vis
    BY <1>4, <2>1
  <2>4. ASSUME NEW i \in 1..Len(chain), chain[i].commit_ts <= ts, i # n
        PROVE  chain[i].commit_ts < chain[n].commit_ts
    <3>1. i < n
      BY <1>2, <1>5, <1>6, <2>4
    <3>2. QED
      BY <1>1, <2>1, <3>1, AscendingPairs
  <2>5. IsNewest(newest)
    <3>1. SUFFICES ASSUME NEW u \in Vis
                   PROVE  u.commit_ts <= newest.commit_ts
      OBVIOUS
    <3>2. PICK i \in 1..Len(chain) :
              u = Row(k, chain[i]) /\ chain[i].commit_ts <= ts
      BY <1>4
    <3>3. u.commit_ts = chain[i].commit_ts
      BY <2>2, <3>2
    <3>4. newest.commit_ts = chain[n].commit_ts
      BY <2>2
    <3>5. chain[i].commit_ts \in Nat /\ chain[n].commit_ts \in Nat
      BY <1>2, <2>1
    <3>6. chain[i].commit_ts <= chain[n].commit_ts
      <4>1. CASE i = n
        BY <3>5, <4>1
      <4>2. CASE i # n
        BY <2>4, <3>2, <3>5, <4>2
      <4>3. QED
        BY <4>1, <4>2
    <3>7. QED
      BY <3>3, <3>4, <3>6
  <2>6. ASSUME NEW v \in Vis, IsNewest(v)
        PROVE  v = newest
    <3>1. PICK i \in 1..Len(chain) :
              v = Row(k, chain[i]) /\ chain[i].commit_ts <= ts
      BY <1>4
    <3>2. chain[n].commit_ts <= chain[i].commit_ts
      BY <2>2, <2>3, <2>6, <3>1
    <3>3. i = n
      BY <1>2, <2>1, <2>4, <3>1, <3>2
    <3>4. QED
      BY <3>1, <3>3
  <2> HIDE DEF newest
  <2>7. (CHOOSE v \in Vis : IsNewest(v)) = newest
    BY <2>3, <2>5, <2>6
  <2>8. Vis # {} /\ newest.value = chain[n].value
    BY <2>2, <2>3 DEF newest
  <2>9. StoreContract!get(Rows(chs), k, ts) = newest.value
    BY <2>7, <2>8 DEF StoreContract!get, Vis
  <2>10. QED
    BY <1>8, <2>8, <2>9 DEF visible_value, n, chain
<1>9. QED
  BY <1>7, <1>8

\* A new store.
LEMMA StoreIsEmpty == Init => StoreContract!StoreInit
<1> SUFFICES ASSUME Init PROVE StoreContract!StoreInit
  OBVIOUS
<1>1. \A k \in Key : chains[k] = <<>>
  BY DEF Init, with_shards
<1>2. Stored = {}
  BY <1>1 DEF Stored, Rows
<1>3. \A t \in Txn : pc[t] # "committing"
  BY DEF Init
<1>4. Calls = {}
  BY <1>3 DEF Calls
<1>5. \A c \in Collector : gc[c].left = {}
  BY DEF Init, Resting
<1>6. Sweeping = {}
  BY <1>5 DEF Sweeping
<1>7. QED
  BY <1>2, <1>4, <1>6 DEF StoreContract!StoreInit

\* The contract's validity is what validation finds: looking at the newest
\* version of a chain is enough.
LEMMA ValidIsNoConflict ==
    ASSUME CoreInv, NEW t \in Txn
    PROVE  StoreContract!Valid(CallOf(t)) <=>
               ~HasConflict(writes[t], reads(t), snap_ts[t])
<1> DEFINE keys == DOMAIN writes[t] \cup reads(t)
<1>1. DataTypes
  BY TypeParts DEF CoreInv
<1>2. /\ chains \in [Key -> Seq(VersionOf(Value))] /\ snap_ts[t] \in Nat
      /\ \A k \in Key : Ascending(chains[k])
  BY <1>1, ChainsAscendingParts DEF DataTypes, CoreInv
<1>3. keys \subseteq Key
  BY <1>1, BufferElement DEF DataTypes, reads
<1>4. StoreContract!Valid(CallOf(t)) <=>
          ~\E v \in Stored : v.key \in keys /\ v.commit_ts > snap_ts[t]
  BY DEF StoreContract!Valid, CallOf
<1>5. \A v : v \in Stored <=> \E k \in Key : \E i \in 1..Len(chains[k]) :
                                 v = Row(k, chains[k][i])
  BY <1>2, StoredRows DEF Stored
<1>6. \A j, u : Row(j, u).key = j /\ Row(j, u).commit_ts = u.commit_ts
  BY DEF Row
<1> HIDE DEF keys
<1>7. ASSUME NEW k \in keys, newer_than(chains[k], snap_ts[t])
      PROVE  \E v \in Stored : v.key \in keys /\ v.commit_ts > snap_ts[t]
  <2>1. Len(chains[k]) \in 1..Len(chains[k]) /\ k \in Key
    BY <1>2, <1>3, <1>7, EmptySeq DEF newer_than
  <2>2. Row(k, chains[k][Len(chains[k])]) \in Stored
    BY <1>5, <2>1
  <2>3. QED
    BY <1>6, <1>7, <2>2 DEF newer_than
<1>8. ASSUME NEW v \in Stored, v.key \in keys, v.commit_ts > snap_ts[t]
      PROVE  \E k \in keys : newer_than(chains[k], snap_ts[t])
  <2>1. PICK k \in Key : \E i \in 1..Len(chains[k]) : v = Row(k, chains[k][i])
    BY <1>5
  <2>2. PICK i \in 1..Len(chains[k]) : v = Row(k, chains[k][i])
    BY <2>1
  <2> DEFINE n == Len(chains[k])
  <2>3. /\ n \in Nat /\ \A j \in 1..n : chains[k][j].commit_ts \in Nat
        /\ chains[k] \in Seq(VersionOf(Value)) /\ Ascending(chains[k])
    BY <1>2, ChainElement
  <2>4. n \in 1..n /\ chains[k] # <<>>
    BY <2>3
  <2>5. i = n \/ chains[k][i].commit_ts < chains[k][n].commit_ts
    <3>1. i # n => i < n
      BY <2>3
    <3>2. QED
      BY <2>3, <2>4, <3>1, AscendingPairs
  <2>6. chains[k][n].commit_ts > snap_ts[t]
    BY <1>2, <1>6, <1>8, <2>2, <2>3, <2>4, <2>5
  <2>7. k \in keys
    BY <1>6, <1>8, <2>2
  <2>8. QED
    BY <2>4, <2>6, <2>7 DEF newer_than
<1>9. QED
  BY <1>4, <1>7, <1>8 DEF HasConflict, keys

\* push installs the versions of the call.
LEMMA PushInstalls ==
    ASSUME CoreInv, NEW t \in Txn, push(writes[t], commit_ts[t]) \in
               [Key -> Seq(VersionOf(Value))]
    PROVE  Rows(push(writes[t], commit_ts[t])) =
               Stored \cup StoreContract!Installed(CallOf(t))
<1> DEFINE chs == push(writes[t], commit_ts[t])
           now(k) == Version(commit_ts[t], writes[t][k])
<1>1. /\ DataTypes /\ chains \in [Key -> Seq(VersionOf(Value))]
      /\ DOMAIN writes[t] \subseteq Key
  BY TypeParts, BufferElement DEF CoreInv, DataTypes
<1>2. /\ \A v : v \in Stored <=> \E k \in Key : \E i \in 1..Len(chains[k]) :
                                     v = Row(k, chains[k][i])
      /\ \A v : v \in Rows(chs) <=> \E k \in Key : \E i \in 1..Len(chs[k]) :
                                        v = Row(k, chs[k][i])
  BY <1>1, StoredRows DEF Stored
<1>3. \A v : v \in StoreContract!Installed(CallOf(t)) <=>
                \E k \in DOMAIN writes[t] : v = Row(k, now(k))
  BY DEF StoreContract!Installed, CallOf, Row, Version
<1>4. \A k \in Key :
          /\ k \in DOMAIN writes[t] => chs[k] = Append(chains[k], now(k))
          /\ k \notin DOMAIN writes[t] => chs[k] = chains[k]
  BY DEF push
<1> HIDE DEF chs, now
<1>5. ASSUME NEW k \in DOMAIN writes[t]
      PROVE  /\ Len(chs[k]) = Len(chains[k]) + 1 /\ Len(chains[k]) \in Nat
             /\ \A i \in 1..Len(chains[k]) : chs[k][i] = chains[k][i]
             /\ chs[k][Len(chains[k]) + 1] = now(k)
  <2>1. chs[k] = Append(chains[k], now(k)) /\ k \in Key
    BY <1>1, <1>4
  <2>2. \A i \in 1..Len(chains[k]) : i # Len(chains[k]) + 1
    BY <1>1, <2>1
  <2>3. QED
    BY <1>1, <2>1, <2>2
<1>6. ASSUME NEW v \in Rows(chs)
      PROVE  v \in Stored \/ v \in StoreContract!Installed(CallOf(t))
  <2>1. PICK k \in Key : \E i \in 1..Len(chs[k]) : v = Row(k, chs[k][i])
    BY <1>2
  <2>2. PICK i \in 1..Len(chs[k]) : v = Row(k, chs[k][i])
    BY <2>1
  <2>3. CASE k \in DOMAIN writes[t]
    <3>1. i \in 1..Len(chains[k]) \/ i = Len(chains[k]) + 1
      BY <1>5, <2>2, <2>3
    <3>2. CASE i \in 1..Len(chains[k])
      <4>1. v = Row(k, chains[k][i])
        BY <1>5, <2>2, <2>3, <3>2
      <4>2. QED
        BY <1>2, <3>2, <4>1
    <3>3. CASE i = Len(chains[k]) + 1
      <4>1. v = Row(k, now(k))
        BY <1>5, <2>2, <2>3, <3>3
      <4>2. QED
        BY <1>3, <2>3, <4>1
    <3>4. QED
      BY <3>1, <3>2, <3>3
  <2>4. CASE k \notin DOMAIN writes[t]
    BY <1>2, <1>4, <2>2, <2>4
  <2>5. QED
    BY <2>3, <2>4
<1>7. ASSUME NEW v \in Stored
      PROVE  v \in Rows(chs)
  <2>1. PICK k \in Key : \E i \in 1..Len(chains[k]) : v = Row(k, chains[k][i])
    BY <1>2
  <2>2. PICK i \in 1..Len(chains[k]) : v = Row(k, chains[k][i])
    BY <2>1
  <2>3. i \in 1..Len(chs[k]) /\ chs[k][i] = chains[k][i]
    BY <1>4, <1>5, <2>2
  <2>4. QED
    BY <1>2, <2>2, <2>3
<1>8. ASSUME NEW v \in StoreContract!Installed(CallOf(t))
      PROVE  v \in Rows(chs)
  <2>1. PICK k \in DOMAIN writes[t] : v = Row(k, now(k))
    BY <1>3
  <2>2. Len(chs[k]) \in 1..Len(chs[k]) /\ chs[k][Len(chs[k])] = now(k)
    BY <1>5
  <2>3. QED
    BY <1>1, <1>2, <2>1, <2>2
<1>9. QED
  BY <1>6, <1>7, <1>8 DEF chs

\* try_commit takes effect in one step, whole or not at all.
LEMMA TryCommitTakesEffect ==
    ASSUME CoreInv, CoreInv', NEW t \in Txn, NEW ok \in BOOLEAN,
           TryCommit(t, ok)
    PROVE  \E call \in Calls : StoreContract!try_commit(call)
<1>1. DataTypes /\ chains' \in [Key -> Seq(VersionOf(Value))]
  BY TypeParts DEF CoreInv, DataTypes
<1>2. /\ pc[t] = "committing" /\ pc' = [pc EXCEPT ![t] = "decided"]
      /\ UNCHANGED <<kind, snap_ts, writes, seen, commit_ts, gc>>
      /\ ok = ~HasConflict(writes[t], reads(t), snap_ts[t])
      /\ chains' = IF ok THEN push(writes[t], commit_ts[t]) ELSE chains
  BY DEF TryCommit, try_commit
<1>3. CallOf(t) \in Calls
  BY <1>2 DEF Calls
<1>4. Stored' = IF StoreContract!Valid(CallOf(t))
                THEN Stored \cup StoreContract!Installed(CallOf(t)) ELSE Stored
  <2>1. CASE ok
    <3>1. StoreContract!Valid(CallOf(t))
      BY <1>2, <2>1, ValidIsNoConflict
    <3>2. chains' = push(writes[t], commit_ts[t])
      BY <1>2, <2>1
    <3>3. Rows(chains') = Stored \cup StoreContract!Installed(CallOf(t))
      BY <1>1, <3>2, PushInstalls
    <3>4. QED
      BY <3>1, <3>3 DEF Stored
  <2>2. CASE ~ok
    <3>1. ~StoreContract!Valid(CallOf(t))
      BY <1>2, <2>2, ValidIsNoConflict
    <3>2. QED
      BY <1>2, <2>2, <3>1 DEF Stored
  <2>3. QED
    BY <2>1, <2>2
<1>5. Calls' = Calls \ {CallOf(t)}
  <2>1. \A u \in Txn : CallOf(u)' = CallOf(u)
    BY <1>2 DEF CallOf, reads
  <2>2. \A u \in Txn : pc'[u] = "committing" <=> pc[u] = "committing" /\ u # t
    BY <1>1, <1>2 DEF DataTypes
  <2>3. \A u \in Txn : u # t => CallOf(u) # CallOf(t)
    <3>1. \A u \in Txn : u # t => commit_ts[u] # commit_ts[t]
      BY <1>2 DEF CoreInv, Lifecycle
    <3>2. \A u \in Txn : CallOf(u).commit_ts = commit_ts[u]
      BY DEF CallOf
    <3>3. QED
      BY <3>1, <3>2
  <2>4. Calls' = {CallOf(u) : u \in {u \in Txn : pc'[u] = "committing"}}
    BY <2>1 DEF Calls
  <2>5. QED
    BY <2>2, <2>3, <2>4 DEF Calls
<1>6. Sweeping' = Sweeping
  BY <1>2 DEF Sweeping
<1>7. StoreContract!try_commit(CallOf(t))
  BY <1>4, <1>5, <1>6 DEF StoreContract!try_commit
<1>8. QED
  BY <1>3, <1>7

\* collect_garbage drops what no reader at or above its low watermark can
\* observe, and nothing above it.
LEMMA SweepKeepsContract ==
    ASSUME CoreInv, CoreInv', NEW c \in Collector, CollectShard(c)
    PROVE  \E low \in Sweeping : StoreContract!collect_garbage(low)
<1> DEFINE low == gc[c].low
<1>1. /\ chains \in [Key -> Seq(VersionOf(Value))]
      /\ chains' \in [Key -> Seq(VersionOf(Value))]
      /\ \A k \in Key : Ascending(chains[k]) /\ Ascending(chains'[k])
  BY TypeParts, ChainsAscendingParts DEF CoreInv, DataTypes
<1>2. /\ low \in Nat /\ UNCHANGED txnVars
      /\ \A k \in Key : chains'[k] = chains[k]
                        \/ chains'[k] = retain(chains[k], low)
  BY CollectEffect
<1>3. low \in Sweeping
  BY DEF Sweeping, CollectShard
<1> HIDE DEF low
<1>4. /\ \A v : v \in Stored <=> \E k \in Key : \E i \in 1..Len(chains[k]) :
                                     v = Row(k, chains[k][i])
      /\ \A v : v \in Stored' <=> \E k \in Key : \E i \in 1..Len(chains'[k]) :
                                      v = Row(k, chains'[k][i])
  BY <1>1, StoredRows DEF Stored
<1>5. ASSUME NEW k \in Key
      PROVE  /\ \A j \in 1..Len(chains'[k]) : \E i \in 1..Len(chains[k]) :
                    chains[k][i] = chains'[k][j]
             /\ \A i \in 1..Len(chains[k]) : chains[k][i].commit_ts > low =>
                    \E j \in 1..Len(chains'[k]) : chains'[k][j] = chains[k][i]
             /\ \A ts \in Nat : low <= ts => visible_value(chains'[k], ts) =
                                             visible_value(chains[k], ts)
  <2>1. CASE chains'[k] = chains[k]
    BY <2>1
  <2>2. CASE chains'[k] = retain(chains[k], low)
    <3>1. chains[k] \in Seq(VersionOf(Value)) /\ Ascending(chains[k])
      BY <1>1
    <3>2. LET left == retain(chains[k], low)
          IN  /\ \A j \in 1..Len(left) : \E i \in 1..Len(chains[k]) :
                     chains[k][i] = left[j]
              /\ \A i \in 1..Len(chains[k]) : chains[k][i].commit_ts > low =>
                     \E j \in 1..Len(left) : left[j] = chains[k][i]
      BY <1>2, <3>1, RetainShape, Zenon
    <3>3. \A ts \in Nat : low <= ts => visible_value(retain(chains[k], low), ts)
                                     = visible_value(chains[k], ts)
      BY <1>2, <3>1, RetainVisible
    <3>4. QED
      BY <2>2, <3>2, <3>3
  <2>3. QED
    BY <1>2, <2>1, <2>2
<1>6. Stored' \subseteq Stored
  BY <1>4, <1>5
<1>7. \A v \in Stored \ Stored' : v.commit_ts <= low
  <2>1. SUFFICES ASSUME NEW v \in Stored, ~(v.commit_ts <= low)
                 PROVE  v \in Stored'
    OBVIOUS
  <2>2. PICK k \in Key : \E i \in 1..Len(chains[k]) : v = Row(k, chains[k][i])
    BY <1>4
  <2>3. PICK i \in 1..Len(chains[k]) : v = Row(k, chains[k][i])
    BY <2>2
  <2>4. chains[k][i].commit_ts \in Nat /\ v.commit_ts = chains[k][i].commit_ts
    BY <1>1, <2>3, ChainElement DEF Row
  <2>5. PICK j \in 1..Len(chains'[k]) : chains'[k][j] = chains[k][i]
    BY <1>2, <1>5, <2>1, <2>4
  <2>6. QED
    BY <1>4, <2>3, <2>5
<1>8. ASSUME NEW k \in Key, NEW ts \in 0..MaxTs, ts >= low
      PROVE  StoreContract!get(Stored', k, ts)
                 = StoreContract!get(Stored, k, ts)
  <2>1. ts \in Nat /\ low <= ts
    BY <1>2, <1>8, MaxTsAssumption
  <2>2. /\ StoreContract!get(Stored, k, ts) = visible_value(chains[k], ts)
        /\ StoreContract!get(Stored', k, ts) = visible_value(chains'[k], ts)
    BY <1>1, <2>1, GetIsVisible DEF Stored
  <2>3. QED
    BY <1>5, <2>1, <2>2
<1>9. Calls' = Calls
  BY <1>2 DEF txnVars, Calls, CallOf, reads
<1>10. StoreContract!collect_garbage(low)
  BY <1>6, <1>7, <1>8, <1>9 DEF StoreContract!collect_garbage
<1>11. QED
  BY <1>3, <1>10

\* Every other step at most begins a call or a sweep.
LEMMA CallsBegin ==
    ASSUME chains' = chains,
           \A u \in Txn : pc[u] = "committing" =>
              /\ pc'[u] = "committing" /\ kind'[u] = kind[u]
              /\ snap_ts'[u] = snap_ts[u] /\ commit_ts'[u] = commit_ts[u]
              /\ writes'[u] = writes[u] /\ seen'[u] = seen[u]
    PROVE  StoreContract!CallBegins
<1>1. Stored' = Stored
  BY DEF Stored
<1>2. \A u \in Txn : pc[u] = "committing" => CallOf(u)' = CallOf(u)
  BY DEF CallOf, reads
<1>3. Calls \subseteq Calls'
  BY <1>2 DEF Calls
<1>4. QED
  BY <1>1, <1>3 DEF StoreContract!CallBegins

\* Every step of a database over the in-memory store.
LEMMA StoreStep ==
    ASSUME CoreInv, CoreInv', [Next]_vars, ~Fallible
    PROVE  [StoreContract!StoreNext]_(StoreContract!storeState)
<1> DEFINE Goal == StoreContract!StoreNext
           Same(u) == /\ pc'[u] = pc[u] /\ kind'[u] = kind[u]
                      /\ snap_ts'[u] = snap_ts[u]
                      /\ commit_ts'[u] = commit_ts[u]
                      /\ writes'[u] = writes[u] /\ seen'[u] = seen[u]
<1> SUFFICES Goal
  OBVIOUS
<1>1. DataTypes
  BY TypeParts DEF CoreInv
<1>2. ASSUME NEW t \in Txn, pc[t] # "committing", chains' = chains,
             \A u \in Txn \ {t} : Same(u)
      PROVE  Goal
  BY <1>2, CallsBegin DEF StoreContract!StoreNext
<1>3. ASSUME NEW t \in Txn, NEW knd \in Kind, Begin(t, knd)
      PROVE  Goal
  BY <1>1, <1>2, <1>3 DEF Begin, DataTypes
<1>4. ASSUME NEW t \in Txn, NEW k \in Key,
             Get(t, k) \/ Put(t, k) \/ Delete(t, k)
      PROVE  Goal
  <2>1. /\ pc[t] = "active" /\ chains' = chains
        /\ \E f : writes' = [writes EXCEPT ![t] = f] \/ writes' = writes
        /\ \E f : seen' = [seen EXCEPT ![t] = f] \/ seen' = seen
        /\ UNCHANGED <<pc, kind, snap_ts, commit_ts>>
    BY <1>4 DEF Get, get, Put, Delete, Buffer, storeVars
  <2>2. QED
    BY <1>1, <1>2, <2>1 DEF DataTypes
<1>5. ASSUME NEW t \in Txn, CommitReadOnly(t) \/ Rollback(t) \/ EndCommit(t)
      PROVE  Goal
  <2>1. /\ pc[t] \in {"active", "returning"} /\ chains' = chains
        /\ pc' = [pc EXCEPT ![t] = "ended"]
        /\ writes' = [writes EXCEPT ![t] = Nothing] \/ writes' = writes
        /\ seen' = [seen EXCEPT ![t] = Nothing] \/ seen' = seen
        /\ UNCHANGED <<kind, snap_ts, commit_ts>>
    BY <1>5 DEF CommitReadOnly, Rollback, EndCommit
  <2>2. QED
    BY <1>1, <1>2, <2>1 DEF DataTypes
<1>6. ASSUME NEW t \in Txn, AllocCommitTs(t) \/ CommitDone(t)
      PROVE  Goal
  <2>1. /\ pc[t] \in {"active", "decided"} /\ chains' = chains
        /\ \E p : pc' = [pc EXCEPT ![t] = p]
        /\ \E n : commit_ts' = [commit_ts EXCEPT ![t] = n]
                  \/ commit_ts' = commit_ts
        /\ UNCHANGED <<kind, snap_ts, writes, seen>>
    BY <1>6 DEF AllocCommitTs, CommitDone, Report
  <2>2. QED
    BY <1>1, <1>2, <2>1 DEF DataTypes
<1>7. CASE chains' = chains /\ UNCHANGED txnVars
  BY <1>7, CallsBegin DEF txnVars, StoreContract!StoreNext
<1>8. ASSUME NEW t \in Txn, Acquire(t)
      PROVE  chains' = chains /\ UNCHANGED txnVars
  BY <1>8 DEF Acquire, acquire_next
<1>9. ASSUME NEW t \in Txn, NEW ok \in BOOLEAN, TryCommit(t, ok)
      PROVE  Goal
  BY <1>9, TryCommitTakesEffect DEF StoreContract!StoreNext
<1>10. ASSUME NEW t \in Txn, StoreFails(t)
       PROVE  Goal
  BY <1>10 DEF StoreFails
<1>11. ASSUME NEW c \in Collector, CollectBegin(c)
       PROVE  chains' = chains /\ UNCHANGED txnVars
  BY <1>11 DEF CollectBegin, storeVars
<1>12. ASSUME NEW c \in Collector, CollectShard(c)
       PROVE  Goal
  BY <1>12, SweepKeepsContract DEF StoreContract!StoreNext
<1>13. CASE UNCHANGED vars
  BY <1>7, <1>13 DEF vars, txnVars
<1> HIDE DEF Goal
<1>14. ASSUME NEW t \in Txn, CommitStep(t)
       PROVE  Goal
  BY <1>5, <1>6, <1>7, <1>8, <1>9, <1>10, <1>14, Zenon DEF CommitStep
<1>15. CASE Next
  BY <1>3, <1>4, <1>5, <1>6, <1>7, <1>11, <1>12, <1>14, <1>15, Zenon DEF Next
<1>16. QED
  BY <1>13, <1>15

\* The in-memory store, which by itself does not fail, keeps the contract of
\* the VersionStore trait (store.rs): under its shard locks every commit takes
\* effect at one point, and a sweep that goes shard by shard with an ageing low
\* watermark drops nothing that may still be observed.
THEOREM KeepsStoreContract == ~Fallible => (Spec => ImplementsVersionStore)
<1> SUFFICES ASSUME ~Fallible
             PROVE  Spec => ImplementsVersionStore
  OBVIOUS
<1>1. CoreInv /\ CoreInv' /\ [Next]_vars =>
          [StoreContract!StoreNext]_(StoreContract!storeState)
  BY StoreStep
<1>2. QED
  BY <1>1, StoreIsEmpty, CoreInvariance, PTL
     DEF Spec, ImplementsVersionStore, StoreContract!StoreSpec

=============================================================================
