---------------------------- MODULE DurableProofs ----------------------------
(***************************************************************************)
(* Proofs about DurableDb: what the log holds, through any number of       *)
(* crashes and restarts.                                                   *)
(***************************************************************************)
EXTENDS DurableDb, NatLemmas, SequenceTheorems, FiniteSetTheorems, TLAPS

\* The records of the log.
LEMMA LogElement ==
    ASSUME LogType
    PROVE  /\ Len(log) \in Nat /\ synced \in Nat /\ synced <= Len(log)
           /\ DOMAIN log = 1..Len(log)
           /\ \A i \in 1..Len(log) : /\ log[i].txn \in Txn
                                     /\ log[i].commit_ts \in Nat
<1>1. ASSUME NEW i \in 1..Len(log)
      PROVE  log[i] \in [txn : Txn, commit_ts : Nat]
  BY ElementOfSeq DEF LogType
<1>2. QED
  BY <1>1 DEF LogType

\* An empty log.
LEMMA LogInit == DurableInit => LogInv
<1> SUFFICES ASSUME DurableInit PROVE LogInv
  OBVIOUS
<1>1. /\ log = <<>> /\ synced = 0 /\ up = TRUE /\ next_ts = 1
      /\ pc = [t \in Txn |-> "idle"] /\ outcome = [t \in Txn |-> "none"]
      /\ writes = [t \in Txn |-> Nothing] /\ commit_ts = [t \in Txn |-> 0]
  BY DEF DurableInit, Init, new, recovered
<1>2. LogType
  BY <1>1 DEF LogType
<1>3. LogOrder
  BY <1>1 DEF LogOrder, Unlogged
<1>4. LogComplete
  BY <1>1 DEF LogComplete
<1>5. LogTimestampsUnique
  BY <1>1 DEF LogTimestampsUnique
<1>6. QED
  BY <1>2, <1>3, <1>4, <1>5 DEF LogInv

-----------------------------------------------------------------------------
(* Steps of one handle *)

\* A step of one handle that takes no timestamp and leaves the log alone.
LEMMA HandleStep ==
    ASSUME LogInv, NEW t \in Txn, up,
           UNCHANGED <<log, synced, up, next_ts, commit_ts>>,
           DOMAIN pc' = Txn /\ DOMAIN outcome' = Txn /\ DOMAIN writes' = Txn,
           \A u \in Txn \ {t} : /\ pc'[u] = pc[u] /\ outcome'[u] = outcome[u]
                                /\ writes'[u] = writes[u],
           Unlogged(t)' => Unlogged(t),
           pc'[t] \in {"idle", "active", "committing"} => outcome'[t] # "ok",
           /\ pc'[t] \in {"logged", "returning", "ended"}
           /\ outcome'[t] = "ok" /\ DOMAIN writes'[t] # {}
           => \E i \in 1..synced : log[i].txn = t
    PROVE  LogInv'
<1>1. LogType'
  BY DEF LogInv, LogType
<1>2. \A u \in Txn : Unlogged(u)' => Unlogged(u)
  BY DEF Unlogged
<1>3. LogOrder'
  BY <1>2 DEF LogInv, LogOrder
<1>4. LogComplete'
  BY DEF LogInv, LogComplete
<1>5. LogTimestampsUnique'
  BY DEF LogInv, LogTimestampsUnique
<1>6. QED
  BY <1>1, <1>3, <1>4, <1>5 DEF LogInv

\* What a handle does before it has a timestamp, under its locks, and when it
\* returns.
LEMMA SharedStep ==
    ASSUME LogInv, NEW t \in Txn, up, Shared(t), ~AllocCommitTs(t),
           UNCHANGED logVars
    PROVE  LogInv'
<1>1. LogType /\ LogComplete
  BY DEF LogInv
<1>2. ASSUME NEW knd \in Kind, Begin(t, knd)
      PROVE  LogInv'
  BY <1>1, <1>2, HandleStep
     DEF Begin, begin_reader, LogType, LogComplete, Unlogged, logVars
<1>3. ASSUME NEW k \in Key, Get(t, k) \/ Put(t, k) \/ Delete(t, k)
      PROVE  LogInv'
  <2>1. /\ pc[t] = "active" /\ UNCHANGED <<next_ts, commit_ts, pc, outcome>>
        /\ \E f : writes' = [writes EXCEPT ![t] = f] \/ writes' = writes
    BY <1>3 DEF Get, Put, Delete, Buffer, oracleVars
  <2>2. QED
    BY <1>1, <2>1, HandleStep DEF LogType, LogComplete, Unlogged, logVars
<1>4. CASE CommitReadOnly(t)
  BY <1>1, <1>4, HandleStep
     DEF CommitReadOnly, end_reader, LogType, LogComplete, Unlogged, logVars
<1>5. CASE Rollback(t)
  BY <1>1, <1>5, HandleStep
     DEF Rollback, end_reader, LogType, LogComplete, Unlogged, logVars
<1>6. CASE Acquire(t)
  BY <1>1, <1>6, HandleStep
     DEF Acquire, oracleVars, txnVars, LogType, LogComplete, Unlogged, logVars
<1>7. ASSUME NEW ok \in BOOLEAN, TryCommit(t, ok)
      PROVE  LogInv'
  <2>1. /\ pc[t] = "committing" /\ pc' = [pc EXCEPT ![t] = "decided"]
        /\ \E e : outcome' = [outcome EXCEPT ![t] = e]
        /\ UNCHANGED <<next_ts, commit_ts, writes>>
    BY <1>7 DEF TryCommit, oracleVars
  <2>2. QED
    BY <1>1, <2>1, HandleStep DEF LogType, LogComplete, Unlogged, logVars
<1>8. CASE EndCommit(t)
  <2>1. /\ pc[t] = "returning" /\ pc' = [pc EXCEPT ![t] = "ended"]
        /\ UNCHANGED <<next_ts, commit_ts, outcome>>
        /\ writes' = writes \/ writes' = [writes EXCEPT ![t] = Nothing]
    BY <1>8 DEF EndCommit, end_reader
  <2>2. DOMAIN Nothing = {}
    BY DEF Nothing
  <2>3. QED
    BY <1>1, <2>1, <2>2, HandleStep
       DEF LogType, LogComplete, Unlogged, logVars
<1>9. QED
  BY <1>2, <1>3, <1>4, <1>5, <1>6, <1>7, <1>8, Zenon DEF Shared

\* AppendFails and DurableCommitDone.
LEMMA ReportStep ==
    ASSUME LogInv, NEW t \in Txn, up, AppendFails(t) \/ DurableCommitDone(t)
    PROVE  LogInv'
<1>1. LogType /\ LogComplete
  BY DEF LogInv
<1>2. CASE AppendFails(t)
  BY <1>1, <1>2, HandleStep
     DEF AppendFails, oracleVars, LogType, LogComplete, Unlogged, logVars
<1>3. CASE DurableCommitDone(t)
  <2>1. /\ \/ pc[t] = "decided" /\ outcome[t] = "conflict"
           \/ pc[t] = "logged"
        /\ pc' = [pc EXCEPT ![t] = "returning"]
        /\ UNCHANGED <<next_ts, commit_ts, outcome, writes, logVars>>
    BY <1>3 DEF DurableCommitDone, Report, commit_done
  <2>2. QED
    BY <1>1, <2>1, HandleStep DEF LogType, LogComplete, Unlogged, logVars
<1>4. QED
  BY <1>2, <1>3

\* alloc_commit_ts: the timestamp is above all that is logged or may be.
LEMMA AllocStep ==
    ASSUME LogInv, NEW t \in Txn, up, AllocCommitTs(t), UNCHANGED logVars
    PROVE  LogInv'
<1>1. LogType /\ LogOrder /\ LogComplete
  BY DEF LogInv
<1>2. /\ pc[t] = "active" /\ pc' = [pc EXCEPT ![t] = "committing"]
      /\ next_ts' = next_ts + 1
      /\ commit_ts' = [commit_ts EXCEPT ![t] = next_ts]
      /\ UNCHANGED <<outcome, writes, log, synced, up>>
  BY DEF AllocCommitTs, alloc_commit_ts, logVars
<1>3. LogType'
  BY <1>1, <1>2 DEF LogType
<1>4. /\ next_ts \in Nat /\ \A u \in Txn : commit_ts[u] \in Nat
      /\ \A u \in Txn : commit_ts'[u] = IF u = t THEN next_ts ELSE commit_ts[u]
      /\ \A u \in Txn \ {t} : Unlogged(u)' <=> Unlogged(u)
  BY <1>1, <1>2 DEF LogType, Unlogged
<1>5. \A i \in 1..Len(log) :
          log[i].commit_ts \in Nat /\ log[i].commit_ts < next_ts
  BY <1>1, LogElement DEF LogOrder
<1>6. LogOrder'
  <2>1. \A i \in 1..Len(log) : log[i].commit_ts < next_ts'
    BY <1>2, <1>4, <1>5
  <2>2. ASSUME NEW v \in Txn, Unlogged(v)'
        PROVE  /\ commit_ts'[v] < next_ts'
               /\ \A i \in 1..Len(log) : log[i].commit_ts # commit_ts'[v]
               /\ \A u \in Txn \ {v} :
                      Unlogged(u)' => commit_ts'[u] # commit_ts'[v]
    <3>1. \A u \in Txn \ {t} : Unlogged(u)' => commit_ts[u] < next_ts
      BY <1>1, <1>4 DEF LogOrder
    <3>2. CASE v = t
      BY <1>2, <1>4, <1>5, <3>1, <3>2
    <3>3. CASE v # t
      BY <1>1, <1>2, <1>4, <2>2, <3>1, <3>3 DEF LogOrder
    <3>4. QED
      BY <3>2, <3>3
  <2>3. QED
    BY <1>2, <2>1, <2>2 DEF LogOrder
<1>7. LogComplete'
  BY <1>1, <1>2 DEF LogComplete, LogType
<1>8. LogTimestampsUnique'
  BY <1>2 DEF LogInv, LogTimestampsUnique
<1>9. QED
  BY <1>3, <1>6, <1>7, <1>8 DEF LogInv

-----------------------------------------------------------------------------
(* The log file *)

\* append_committed, the append: a record with a timestamp of its own.
LEMMA AppendStep ==
    ASSUME LogInv, NEW t \in Txn, up, AppendRecord(t)
    PROVE  LogInv'
<1>1. LogType /\ LogOrder /\ LogComplete /\ LogTimestampsUnique
  BY DEF LogInv
<1>2. /\ pc[t] = "decided" /\ pc' = [pc EXCEPT ![t] = "appended"]
      /\ log' = Append(log, Record(t))
      /\ UNCHANGED <<next_ts, commit_ts, outcome, writes, synced, up>>
  BY DEF AppendRecord, WalAppend, oracleVars
<1>3. /\ Len(log) \in Nat /\ synced \in Nat /\ synced <= Len(log)
      /\ \A i \in 1..Len(log) : log[i].commit_ts \in Nat
      /\ DOMAIN log = 1..Len(log)
  BY <1>1, LogElement
<1>4. /\ Record(t) \in [txn : Txn, commit_ts : Nat]
      /\ Record(t).commit_ts = commit_ts[t]
  BY <1>1 DEF Record, LogType
<1>5. /\ log' \in Seq([txn : Txn, commit_ts : Nat])
      /\ Len(log') = Len(log) + 1
      /\ \A i \in 1..Len(log) : log'[i] = log[i]
      /\ log'[Len(log) + 1] = Record(t)
      /\ DOMAIN log' = 1..Len(log')
  <2>1. log \in Seq([txn : Txn, commit_ts : Nat])
    BY <1>1 DEF LogType
  <2>2. QED
    BY <1>2, <1>4, <2>1, AppendProperties
<1>6. \A i \in 1..Len(log') : i \in 1..Len(log) \/ i = Len(log) + 1
  BY <1>3, <1>5
<1>7. LogType'
  <2>1. synced' \in 0..Len(log')
    BY <1>2, <1>3, <1>5
  <2>2. QED
    BY <1>1, <1>2, <1>5, <2>1 DEF LogType
<1>8. \A u \in Txn : Unlogged(u)' <=> Unlogged(u) /\ u # t
  BY <1>1, <1>2 DEF LogType, Unlogged
<1>9. Unlogged(t)
  BY <1>2 DEF Unlogged
<1>10. LogOrder'
  <2>1. \A i \in 1..Len(log') : log'[i].commit_ts < next_ts'
    BY <1>1, <1>2, <1>4, <1>5, <1>6, <1>9 DEF LogOrder
  <2>2. ASSUME NEW u \in Txn, Unlogged(u)', NEW i \in 1..Len(log')
        PROVE  log'[i].commit_ts # commit_ts[u]
    <3>1. CASE i \in 1..Len(log)
      BY <1>1, <1>5, <1>8, <2>2, <3>1 DEF LogOrder
    <3>2. CASE i = Len(log) + 1
      BY <1>1, <1>4, <1>5, <1>8, <1>9, <2>2, <3>2 DEF LogOrder
    <3>3. QED
      BY <1>6, <3>1, <3>2
  <2>3. QED
    BY <1>1, <1>2, <1>8, <2>1, <2>2 DEF LogOrder
<1>11. LogComplete'
  <2>1. \A u \in Txn : pc'[u] = IF u = t THEN "appended" ELSE pc[u]
    BY <1>1, <1>2 DEF LogType
  <2>2. ASSUME NEW u \in Txn, \E i \in 1..synced : log[i].txn = u
        PROVE  \E i \in 1..synced' : log'[i].txn = u
    <3>1. PICK i \in 1..synced : log[i].txn = u
      BY <2>2
    <3>2. i \in 1..Len(log) /\ log'[i] = log[i] /\ i \in 1..synced'
      BY <1>2, <1>3, <1>5, <3>1
    <3>3. QED
      BY <3>1, <3>2
  <2>3. SUFFICES ASSUME NEW u \in Txn
                 PROVE  LET ok == outcome[u] = "ok" IN
          /\ pc'[u] \in {"idle", "active", "committing"} => ~ok
          /\ /\ pc'[u] \in {"logged", "returning", "ended"}
             /\ ok /\ DOMAIN writes[u] # {}
             => \E i \in 1..synced' : log'[i].txn = u
    BY <1>2 DEF LogComplete
  <2>4. QED
    BY <1>1, <2>1, <2>2 DEF LogComplete
<1>12. LogTimestampsUnique'
  <2>1. SUFFICES ASSUME NEW i \in 1..Len(log'), NEW j \in 1..Len(log'),
                        log'[i].commit_ts = log'[j].commit_ts
                 PROVE  i = j
    BY <1>5 DEF LogTimestampsUnique
  <2>2. \A n \in 1..Len(log) : log[n].commit_ts # commit_ts[t]
    BY <1>1, <1>9 DEF LogOrder
  <2>3. QED
    BY <1>1, <1>3, <1>4, <1>5, <1>6, <2>1, <2>2 DEF LogTimestampsUnique
<1>13. QED
  BY <1>7, <1>10, <1>11, <1>12 DEF LogInv

\* append_committed, the sync: the record of t is on disk with all before it.
LEMMA SyncStep ==
    ASSUME LogInv, NEW t \in Txn, up, SyncRecord(t)
    PROVE  LogInv'
<1>1. LogType /\ LogOrder /\ LogComplete /\ LogTimestampsUnique
  BY DEF LogInv
<1>2. PICK n \in synced..Len(log) :
          (\E i \in 1..n : log[i].txn = t) /\ synced' = n
  BY DEF SyncRecord, WalSync
<1>3. /\ pc[t] = "appended" /\ pc' = [pc EXCEPT ![t] = "logged"]
      /\ UNCHANGED <<next_ts, commit_ts, outcome, writes, log, up>>
  BY DEF SyncRecord, WalSync, oracleVars
<1>4. Len(log) \in Nat /\ synced \in Nat
  BY <1>1, LogElement
<1>5. LogType'
  BY <1>1, <1>2, <1>3, <1>4 DEF LogType
<1>6. \A u \in Txn : Unlogged(u)' <=> Unlogged(u)
  BY <1>1, <1>3 DEF LogType, Unlogged
<1>7. LogOrder'
  BY <1>1, <1>3, <1>6 DEF LogOrder
<1>8. LogComplete'
  <2>1. \A i \in 1..synced : i \in 1..synced'
    BY <1>2, <1>4
  <2>2. \A u \in Txn : pc'[u] = IF u = t THEN "logged" ELSE pc[u]
    BY <1>1, <1>3 DEF LogType
  <2>3. QED
    BY <1>1, <1>2, <1>3, <2>1, <2>2 DEF LogComplete
<1>9. LogTimestampsUnique'
  BY <1>1, <1>3 DEF LogTimestampsUnique
<1>10. QED
  BY <1>5, <1>7, <1>8, <1>9 DEF LogInv

-----------------------------------------------------------------------------
(* Crash and recovery *)

\* The state after a crash that has left n records.
CrashLeaves(n) ==
    /\ log' \in Seq([txn : Txn, commit_ts : Nat])
    /\ Len(log') = n /\ DOMAIN log' = 1..n /\ synced' = n
    /\ \A i \in 1..n : log'[i] = log[i]
    /\ \A t \in Txn :
        /\ pc'[t] = IF pc[t] = "idle" THEN "idle" ELSE "ended"
        /\ outcome'[t] = Fate(t, n)
        /\ writes'[t] = IF Kept(t, n) THEN writes[t] ELSE Nothing
        /\ seen'[t] = IF Kept(t, n) THEN seen[t] ELSE Nothing
        /\ snap_ts'[t] = IF Kept(t, n) THEN snap_ts[t] ELSE 0
        /\ commit_ts'[t] = IF Kept(t, n) THEN commit_ts[t] ELSE 0
    /\ DOMAIN pc' = Txn /\ DOMAIN outcome' = Txn /\ DOMAIN writes' = Txn
    /\ DOMAIN seen' = Txn /\ DOMAIN snap_ts' = Txn /\ DOMAIN commit_ts' = Txn
    /\ lock' = [s \in Shard |-> None] /\ gc' = [c \in Collector |-> Resting]
    /\ ~up' /\ UNCHANGED <<oracleVars, chains, kind>>

\* A crash leaves a prefix of the log that includes what was synced.
LEMMA CrashEffect ==
    ASSUME LogType, Crash
    PROVE  \E n \in Nat : /\ synced <= n /\ n <= Len(log)
                          /\ \A i \in 1..n : i \in 1..Len(log)
                          /\ CrashLeaves(n)
<1>1. PICK n \in synced..Len(log) :
          /\ log' = SubSeq(log, 1, n)
          /\ synced' = n
          /\ outcome' = [t \in Txn |-> Fate(t, n)]
          /\ writes' = [t \in Txn |->
                           IF Kept(t, n) THEN writes[t] ELSE Nothing]
          /\ seen' = [t \in Txn |-> IF Kept(t, n) THEN seen[t] ELSE Nothing]
          /\ snap_ts' = [t \in Txn |-> IF Kept(t, n) THEN snap_ts[t] ELSE 0]
          /\ commit_ts' = [t \in Txn |->
                              IF Kept(t, n) THEN commit_ts[t] ELSE 0]
  BY Zenon DEF Crash
<1>2. /\ ~up' /\ UNCHANGED <<oracleVars, chains, kind>>
      /\ pc' = [t \in Txn |-> IF pc[t] = "idle" THEN "idle" ELSE "ended"]
      /\ lock' = [s \in Shard |-> None] /\ gc' = [c \in Collector |-> Resting]
  BY DEF Crash
<1>3. /\ Len(log) \in Nat /\ synced \in Nat /\ n \in Nat
      /\ synced <= n /\ n <= Len(log)
  BY LogElement
<1>4. \A i \in 1..n : i \in 1..Len(log)
  BY <1>3
<1>5. /\ log' \in Seq([txn : Txn, commit_ts : Nat]) /\ Len(log') = n
      /\ \A i \in 1..n : log'[i] = log[i]
  <2>1. \A i \in 1..n : log[i] \in [txn : Txn, commit_ts : Nat]
    BY <1>4, ElementOfSeq DEF LogType
  <2>2. /\ SubSeq(log, 1, n) \in Seq([txn : Txn, commit_ts : Nat])
        /\ Len(SubSeq(log, 1, n)) = IF 1 <= n THEN n - 1 + 1 ELSE 0
        /\ \A i \in 1..(n - 1 + 1) : SubSeq(log, 1, n)[i] = log[1 + i - 1]
    BY <1>3, <2>1, SubSeqProperties
  <2>3. n - 1 + 1 = n /\ (1 <= n \/ n = 0) /\ \A i \in 1..n : 1 + i - 1 = i
    BY <1>3
  <2>4. QED
    BY <1>1, <2>2, <2>3
<1>6. DOMAIN log' = 1..n
  BY <1>5
<1>7. CrashLeaves(n)
  BY <1>1, <1>2, <1>5, <1>6 DEF CrashLeaves
<1>8. QED
  BY <1>3, <1>4, <1>7

\* What the log says is not changed by a crash.
LEMMA CrashStep ==
    ASSUME LogInv, Crash
    PROVE  LogInv'
<1>1. LogType /\ LogOrder /\ LogComplete /\ LogTimestampsUnique
  BY DEF LogInv
<1>2. PICK n \in Nat : /\ synced <= n /\ n <= Len(log)
                       /\ \A i \in 1..n : i \in 1..Len(log)
                       /\ CrashLeaves(n)
  BY <1>1, CrashEffect
<1>3. /\ log' \in Seq([txn : Txn, commit_ts : Nat])
      /\ Len(log') = n /\ DOMAIN log' = 1..n /\ synced' = n
      /\ \A i \in 1..n : log'[i] = log[i]
      /\ ~up' /\ next_ts' = next_ts
  BY <1>2 DEF CrashLeaves, oracleVars
<1>4. \A t \in Txn :
          /\ pc'[t] = IF pc[t] = "idle" THEN "idle" ELSE "ended"
          /\ outcome'[t] = Fate(t, n)
          /\ writes'[t] = IF Kept(t, n) THEN writes[t] ELSE Nothing
  BY <1>2 DEF CrashLeaves
<1>5. Len(log) \in Nat /\ synced \in Nat /\ DOMAIN log = 1..Len(log)
  BY <1>1, LogElement
<1>6. commit_ts' \in [Txn -> Nat]
  <2>1. /\ commit_ts' = [t \in Txn |-> commit_ts'[t]]
        /\ \A t \in Txn :
              commit_ts'[t] = IF Kept(t, n) THEN commit_ts[t] ELSE 0
    BY <1>2 DEF CrashLeaves, Crash
  <2>2. commit_ts \in [Txn -> Nat]
    BY <1>1 DEF LogType
  <2>3. \A t \in Txn : commit_ts'[t] \in Nat
    BY <2>1, <2>2
  <2>4. QED
    BY <2>1, <2>3
<1>7. LogType'
  BY <1>1, <1>2, <1>3, <1>5, <1>6 DEF LogType, CrashLeaves
<1>8. \A t \in Txn : pc'[t] \in {"idle", "ended"} /\ ~Unlogged(t)'
  BY <1>4 DEF Unlogged
<1>9. LogOrder'
  BY <1>1, <1>2, <1>3, <1>8 DEF LogOrder
<1>10. LogComplete'
  <2>1. ASSUME NEW t \in Txn, outcome'[t] = "ok"
        PROVE  /\ pc'[t] = "ended" /\ pc[t] = "ended" /\ outcome[t] = "ok"
               /\ DOMAIN writes'[t] # {} => DOMAIN writes[t] # {}
    <3>1. pc[t] = "ended" /\ outcome[t] = "ok"
      BY <1>4, <2>1 DEF Fate
    <3>2. DOMAIN Nothing = {}
      BY DEF Nothing
    <3>3. QED
      BY <1>4, <3>1, <3>2
  <2>2. ASSUME NEW t \in Txn, \E i \in 1..synced : log[i].txn = t
        PROVE  \E i \in 1..n : log'[i].txn = t
    <3>1. PICK i \in 1..synced : log[i].txn = t
      BY <2>2
    <3>2. i \in 1..n /\ log'[i] = log[i]
      BY <1>2, <1>3, <1>5, <3>1
    <3>3. QED
      BY <3>1, <3>2
  <2>3. SUFFICES ASSUME NEW t \in Txn
                 PROVE
          /\ pc'[t] \in {"idle", "active", "committing"}
                 => outcome'[t] # "ok"
          /\ /\ pc'[t] \in {"logged", "returning", "ended"}
             /\ outcome'[t] = "ok" /\ DOMAIN writes'[t] # {}
             => \E i \in 1..n : log'[i].txn = t
    BY <1>3 DEF LogComplete
  <2>4. QED
    BY <1>1, <2>1, <2>2 DEF LogComplete
<1>11. LogTimestampsUnique'
  BY <1>1, <1>2, <1>3, <1>5 DEF LogTimestampsUnique
<1>12. QED
  BY <1>7, <1>9, <1>10, <1>11 DEF LogInv

\* What the oracle resumes after is at or above every timestamp in the log.
LEMMA HighestBound ==
    ASSUME LogType, \A i \in 1..Len(log) : log[i].commit_ts < next_ts
    PROVE  /\ Highest \in Nat
           /\ Highest = 0 \/ Highest < next_ts
           /\ \A i \in 1..Len(log) : log[i].commit_ts <= Highest
<1> DEFINE S == {0} \cup {log[i].commit_ts : i \in DOMAIN log}
<1>1. /\ next_ts \in Nat /\ DOMAIN log = 1..Len(log)
      /\ \A i \in 1..Len(log) : log[i].commit_ts \in Nat
  BY LogElement DEF LogType
<1>2. S \in SUBSET Nat /\ S # {} /\ \A x \in S : x <= next_ts
  BY <1>1
<1>3. \E m \in S : \A x \in S : x <= m
  <2> HIDE DEF S
  <2> QED
    BY <1>1, <1>2, GreatestNat
<1>4. \E m \in S : \A x \in S : m >= x
  <2> HIDE DEF S
  <2> QED
    BY <1>2, <1>3
<1>5. Max(S) \in S /\ \A x \in S : Max(S) >= x
  <2> HIDE DEF S
  <2> QED
    BY <1>4, Zenon DEF Max
<1>6. Highest = Max(S)
  BY DEF Highest
<1>7. \A i \in 1..Len(log) : log[i].commit_ts \in S
  BY <1>1
<1>8. \A x \in S : x = 0 \/ x < next_ts
  BY <1>1
<1>9. QED
  <2> HIDE DEF S
  <2> QED
    BY <1>1, <1>2, <1>5, <1>6, <1>7, <1>8

\* Db::open: no commit is under way, and the counter starts above the log.
LEMMA OpenStep ==
    ASSUME LogInv, Open
    PROVE  LogInv'
<1>1. LogType /\ LogOrder /\ LogComplete /\ LogTimestampsUnique
  BY DEF LogInv
<1>2. /\ ~up /\ up' = TRUE /\ next_ts' = Highest + 1
      /\ UNCHANGED <<pc, outcome, writes, commit_ts, log, synced>>
  BY DEF Open, txnVars
<1>3. /\ Highest \in Nat
      /\ \A i \in 1..Len(log) : log[i].commit_ts <= Highest
  BY <1>1, HighestBound DEF LogOrder
<1>4. LogType'
  BY <1>1, <1>2, <1>3 DEF LogType
<1>5. \A t \in Txn : ~Unlogged(t)'
  BY <1>1, <1>2 DEF LogOrder, Unlogged
<1>6. \A i \in 1..Len(log) : log[i].commit_ts < next_ts'
  <2>1. \A i \in 1..Len(log) : log[i].commit_ts \in Nat
    BY <1>1, LogElement
  <2>2. QED
    BY <1>2, <1>3, <2>1
<1>7. LogOrder'
  BY <1>2, <1>5, <1>6 DEF LogOrder
<1>8. LogComplete' /\ LogTimestampsUnique'
  BY <1>1, <1>2 DEF LogComplete, LogTimestampsUnique
<1>9. QED
  BY <1>4, <1>7, <1>8 DEF LogInv

-----------------------------------------------------------------------------
(* The invariant of the log *)

\* Collection and stuttering touch neither the log nor a handle.
LEMMA LogIdle ==
    ASSUME LogInv,
           UNCHANGED <<log, synced, up, next_ts, commit_ts, pc, outcome,
                       writes>>
    PROVE  LogInv'
BY DEF LogInv, LogType, LogOrder, Unlogged, LogComplete, LogTimestampsUnique

\* Every step, of a handle, a collector, a crash or a restart.
LEMMA LogStep ==
    ASSUME LogInv, [DurableNext]_durableVars
    PROVE  LogInv'
<1>1. ASSUME up, NEW t \in Txn, Shared(t), UNCHANGED logVars
      PROVE  LogInv'
  BY <1>1, AllocStep, SharedStep
<1>2. ASSUME up, NEW t \in Txn,
             \/ AppendRecord(t) \/ SyncRecord(t)
             \/ AppendFails(t) \/ DurableCommitDone(t)
      PROVE  LogInv'
  BY <1>2, AppendStep, SyncStep, ReportStep
<1>3. ASSUME NEW c \in Collector, CollectBegin(c) \/ CollectShard(c),
             UNCHANGED logVars
      PROVE  LogInv'
  <2>1. UNCHANGED <<log, synced, up, next_ts, commit_ts, pc, outcome, writes>>
    BY <1>3 DEF CollectBegin, CollectShard, oracleVars, txnVars,
                logVars
  <2>2. QED
    BY <2>1, LogIdle
<1>4. CASE UNCHANGED durableVars
  <2>1. UNCHANGED <<log, synced, up, next_ts, commit_ts, pc, outcome, writes>>
    BY <1>4 DEF durableVars, vars, oracleVars, txnVars, logVars
  <2>2. QED
    BY <2>1, LogIdle
<1>5. QED
  BY <1>1, <1>2, <1>3, <1>4, CrashStep, OpenStep DEF DurableNext

\* The invariant of the log holds in every reachable state of a durable
\* database, whatever crashes, whatever append_and_sync returns.
THEOREM LogInvariance == DurableSpec => []LogInv
<1>1. LogInv /\ [DurableNext]_durableVars => LogInv'
  BY LogStep
<1>2. QED
  BY LogInit, <1>1, PTL DEF DurableSpec

\* CommitLog::append_committed, commit_writes: a commit that has returned
\* success to its caller has its record among those known to be on disk.
THEOREM AckedAreSynced == DurableSpec => []AckedIsSynced
<1>1. LogInv => AckedIsSynced
  BY DEF LogInv, LogComplete, AckedIsSynced, Acknowledged
<1>2. QED
  BY <1>1, LogInvariance, PTL

\* Db::open, Oracle::recovered: timestamps in the log are never reused,
\* although a crash forgets the counter and the records that were not synced.
THEOREM LogTimestampsAreUnique == DurableSpec => []LogTimestampsUnique
<1>1. LogInv => LogTimestampsUnique
  BY DEF LogInv
<1>2. QED
  BY <1>1, LogInvariance, PTL

-----------------------------------------------------------------------------
(* The database in memory is the one of Db *)

\* The theorems about Db, for what the database in memory sees.
Mem == INSTANCE DbHistoryProofs WITH pc <- MemPc, outcome <- MemOutcome

\* The constants that Mem computes are the same.
LEMMA MemConstants ==
    /\ Mem!AllKinds = AllKinds
    /\ Mem!shard_count = shard_count
    /\ Mem!Shard = Shard
    /\ Mem!Refused = Refused
    /\ Mem!Nothing = Nothing
    /\ Mem!Resting = Resting
BY Zenon DEF Mem!AllKinds, AllKinds, Mem!shard_count, shard_count, Mem!Min,
   Min, Mem!Shard, Shard, Mem!Refused, Refused, Mem!TxnError, TxnError,
   Mem!is_fatal, is_fatal, Mem!Nothing, Nothing, Mem!Resting, Resting

\* What the theorems about Db assume of them.
LEMMA MemAssumptions ==
    /\ MaxTs \in Nat
    /\ Shards \in Nat /\ Hash \in [Key -> Nat]
    /\ Mem!shard_count \in Nat \ {0}
    /\ Kind \subseteq Mem!AllKinds
    /\ Op \subseteq {"put", "delete"} /\ MaxOps \in Nat
    /\ Fallible \in BOOLEAN
    /\ None \notin Txn
BY MemConstants, MaxTsAssumption, ShardAssumption, ShardCountAssumption,
   KindAssumption, BoundAssumption, FallibleAssumption, NoneAssumption

\* The operators of the store on a chain are the same.
LEMMA MemChains ==
    /\ \A c, v : Mem!Version(c, v) = Version(c, v)
    /\ \A c, ts : Mem!visible_value(c, ts) = visible_value(c, ts)
    /\ \A c, ts : Mem!newer_than(c, ts) = newer_than(c, ts)
    /\ \A c, low : Mem!retain(c, low) = retain(c, low)
    /\ \A k : Mem!shard_of(k) = shard_of(k)
BY MemConstants, Zenon
   DEF Mem!Version, Version, Mem!visible_value, visible_value,
       Mem!partition_point, partition_point, Mem!newer_than, newer_than,
       Mem!retain, retain, Mem!shard_of, shard_of, Mem!hash_key, hash_key

\* And what a commit and a sweep do to the store.
LEMMA MemStore ==
    /\ \A b, r : Mem!to_lock(b, r) = to_lock(b, r)
    /\ \A b, r : Mem!IsFastPath(b, r) <=> IsFastPath(b, r)
    /\ \A t, b, r : Mem!acquire_next(t, b, r) <=> acquire_next(t, b, r)
    /\ \A t, s, c, b, r : \A ok \in BOOLEAN :
          Mem!try_commit(t, s, c, b, r, ok) <=> try_commit(t, s, c, b, r, ok)
    /\ \A s, low : Mem!collect_shard(s, low) <=> collect_shard(s, low)
    /\ \A k, ts, v : Mem!get(k, ts, v) <=> get(k, ts, v)
    /\ \A t : Mem!reads(t) = reads(t)
<1>1. /\ \A b, r : Mem!to_lock(b, r) = to_lock(b, r)
      /\ \A b, r : Mem!IsFastPath(b, r) <=> IsFastPath(b, r)
      /\ \A s : Mem!Grantable(s) <=> Grantable(s)
      /\ \A t : Mem!reads(t) = reads(t)
  <2>1. \A S : Mem!Cardinality(S) = Cardinality(S)
    BY Zenon DEF Mem!Cardinality, Cardinality
  <2>2. QED
    BY <2>1, MemChains, Zenon DEF Mem!to_lock, to_lock, Mem!IsFastPath,
       IsFastPath, Mem!Grantable, Grantable, Mem!reads, reads
<1>2. \A t, b, r : Mem!acquire_next(t, b, r) <=> acquire_next(t, b, r)
  <2> TAKE t, b, r
  <2>1. {s \in Mem!to_lock(b, r) : lock[s] # t}
            = {s \in to_lock(b, r) : lock[s] # t}
    BY <1>1
  <2>2. QED
    BY <1>1, <2>1 DEF Mem!acquire_next, acquire_next, Mem!Min, Min
<1>3. \A b, c : Mem!push(b, c) = push(b, c)
  BY MemChains DEF Mem!push, push
<1>4. \A t : Mem!release(t) = release(t)
  BY MemConstants DEF Mem!release, release
<1>5. \A b, r, s : Mem!HasConflict(b, r, s) <=> HasConflict(b, r, s)
  BY MemChains DEF Mem!HasConflict, HasConflict
<1>6. \A t, b, r : Mem!CanValidate(t, b, r) <=> CanValidate(t, b, r)
  BY <1>1 DEF Mem!CanValidate, CanValidate
<1>7. ASSUME NEW t, NEW s, NEW c, NEW b, NEW r, NEW ok \in BOOLEAN
      PROVE  Mem!try_commit(t, s, c, b, r, ok) <=>
                 try_commit(t, s, c, b, r, ok)
  BY <1>3, <1>4, <1>5, <1>6 DEF Mem!try_commit, try_commit
<1>8. /\ \A s, low : Mem!collect_shard(s, low) <=> collect_shard(s, low)
      /\ \A k, ts, v : Mem!get(k, ts, v) <=> get(k, ts, v)
  BY <1>1, MemChains DEF Mem!collect_shard, collect_shard, Mem!get, get,
     Mem!storeVars, storeVars
<1>9. QED
  BY <1>1, <1>2, <1>7, <1>8

\* And the oracle.
LEMMA MemOracle ==
    /\ \A ts : Mem!begin_reader(ts) = begin_reader(ts)
    /\ \A ts : Mem!end_reader(ts) = end_reader(ts)
    /\ \A ts : Mem!alloc_commit_ts(ts) = alloc_commit_ts(ts)
    /\ \A ts : Mem!commit_done(ts) = commit_done(ts)
    /\ Mem!low_watermark = low_watermark
    /\ Mem!oracleVars = oracleVars /\ Mem!oracleVars' = oracleVars'
    /\ Mem!storeVars = storeVars /\ Mem!storeVars' = storeVars'
BY Zenon DEF Mem!begin_reader, begin_reader, Mem!end_reader, end_reader,
   Mem!ReaderCount, ReaderCount, Mem!alloc_commit_ts, alloc_commit_ts,
   Mem!commit_done, commit_done, Mem!FirstGap, FirstGap, Mem!low_watermark,
   low_watermark, Mem!Min, Min, Mem!oracleVars, oracleVars, Mem!storeVars,
   storeVars

\* A step of one handle, as the database in memory sees it.
LEMMA MemHandle ==
    ASSUME DOMAIN pc = Txn, DOMAIN outcome = Txn, NEW t \in Txn
    PROVE  /\ pc' = pc => MemPc' = MemPc
           /\ outcome' = outcome => MemOutcome' = MemOutcome
           /\ \A v : pc' = [pc EXCEPT ![t] = v] =>
                MemPc' = [MemPc EXCEPT ![t] =
                    IF v \in {"appended", "logged"} THEN "decided" ELSE v]
           /\ \A v : outcome' = [outcome EXCEPT ![t] = v] =>
                MemOutcome' = [MemOutcome EXCEPT ![t] =
                    IF v \in {"durability", "recovered"} THEN "ok"
                    ELSE IF v \in Gone THEN "rolled_back" ELSE v]
BY DEF MemPc, MemOutcome

\* What has become of a handle, as the database in memory sees it.
LEMMA MemState ==
    ASSUME NEW t \in Txn
    PROVE  /\ MemPc[t] = IF pc[t] \in {"appended", "logged"} THEN "decided"
                                                          ELSE pc[t]
           /\ MemOutcome[t] \in Refused <=> outcome[t] \in Refused
           /\ MemOutcome[t] = "ok" <=>
                  outcome[t] \in {"ok", "durability", "recovered"}
BY DEF MemPc, MemOutcome, Gone, Refused, TxnError, is_fatal

\* The operations of a transaction and of a snapshot are those of Db.
LEMMA MemTransaction ==
    ASSUME LogType, NEW t \in Txn
    PROVE  /\ \A knd \in Kind : Begin(t, knd) => Mem!Begin(t, knd)
           /\ \A k \in Key : /\ Get(t, k) => Mem!Get(t, k)
                             /\ Put(t, k) => Mem!Put(t, k)
                             /\ Delete(t, k) => Mem!Delete(t, k)
           /\ CommitReadOnly(t) => Mem!CommitReadOnly(t)
           /\ Rollback(t) => Mem!Rollback(t)
<1>1. DOMAIN pc = Txn /\ DOMAIN outcome = Txn
  BY DEF LogType
<1>2. /\ pc[t] = "active" => MemPc[t] = "active"
      /\ pc[t] = "idle" => MemPc[t] = "idle"
  BY MemState
<1>3. Mem!Nothing = Nothing
  BY MemConstants
<1>4. \A k, S : Mem!MayUse(t, k, S) <=> MayUse(t, k, S)
  <2>1. \A S : Mem!Cardinality(S) = Cardinality(S)
    BY Zenon DEF Mem!Cardinality, Cardinality
  <2>2. QED
    BY <2>1, Zenon DEF Mem!MayUse, MayUse
<1>5. ASSUME NEW knd \in Kind, Begin(t, knd)
      PROVE  Mem!Begin(t, knd)
  <2>1. MemPc' = [MemPc EXCEPT ![t] = "active"] /\ MemOutcome' = MemOutcome
    BY <1>1, <1>5, MemHandle DEF Begin
  <2>2. QED
    BY <1>2, <1>5, <2>1, MemOracle DEF Begin, Mem!Begin
<1>6. ASSUME NEW k \in Key, Get(t, k)
      PROVE  Mem!Get(t, k)
  <2>1. MemPc' = MemPc /\ MemOutcome' = MemOutcome
    BY <1>1, <1>6, MemHandle DEF Get
  <2>2. QED
    BY <1>2, <1>4, <1>6, <2>1, MemOracle, MemStore, MemChains
       DEF Get, Mem!Get
<1>7. ASSUME NEW k \in Key, NEW v, Buffer(t, k, v)
      PROVE  Mem!Buffer(t, k, v)
  <2>1. MemPc' = MemPc /\ MemOutcome' = MemOutcome
    BY <1>1, <1>7, MemHandle DEF Buffer
  <2>2. QED
    BY <1>2, <1>4, <1>7, <2>1, MemOracle DEF Buffer, Mem!Buffer
<1>8. ASSUME CommitReadOnly(t)
      PROVE  Mem!CommitReadOnly(t)
  <2>1. /\ MemPc' = [MemPc EXCEPT ![t] = "ended"]
        /\ MemOutcome' = [MemOutcome EXCEPT ![t] = "ok"]
    BY <1>1, <1>8, MemHandle DEF CommitReadOnly, Gone
  <2>2. QED
    BY <1>2, <1>8, <2>1, MemOracle DEF CommitReadOnly, Mem!CommitReadOnly
<1>9. ASSUME Rollback(t)
      PROVE  Mem!Rollback(t)
  <2>1. /\ MemPc' = [MemPc EXCEPT ![t] = "ended"]
        /\ MemOutcome' = [MemOutcome EXCEPT ![t] = "rolled_back"]
    BY <1>1, <1>9, MemHandle DEF Rollback, Gone
  <2>2. QED
    BY <1>2, <1>3, <1>9, <2>1, MemOracle DEF Rollback, Mem!Rollback
<1>10. QED
  BY <1>5, <1>6, <1>7, <1>8, <1>9 DEF Put, Delete, Mem!Put, Mem!Delete

\* So are the steps of a commit, up to try_commit and from the report on.
LEMMA MemCommit ==
    ASSUME LogType, NEW t \in Txn
    PROVE  /\ AllocCommitTs(t) => Mem!AllocCommitTs(t)
           /\ Acquire(t) => Mem!Acquire(t)
           /\ \A ok \in BOOLEAN : TryCommit(t, ok) => Mem!TryCommit(t, ok)
           /\ DurableCommitDone(t) => Mem!CommitDone(t)
           /\ EndCommit(t) => Mem!EndCommit(t)
<1>1. DOMAIN pc = Txn /\ DOMAIN outcome = Txn
  BY DEF LogType
<1>2. /\ MemPc[t] = IF pc[t] \in {"appended", "logged"} THEN "decided"
                                                       ELSE pc[t]
      /\ MemOutcome[t] \in Refused <=> outcome[t] \in Refused
  BY MemState
<1>3. Mem!Nothing = Nothing /\ Mem!Refused = Refused
  BY MemConstants
<1>4. ASSUME AllocCommitTs(t)
      PROVE  Mem!AllocCommitTs(t)
  <2>1. /\ MemPc' = [MemPc EXCEPT ![t] = "committing"]
        /\ MemOutcome' = MemOutcome
    BY <1>1, <1>4, MemHandle DEF AllocCommitTs
  <2>2. QED
    BY <1>2, <1>4, <2>1, MemOracle DEF AllocCommitTs, Mem!AllocCommitTs
<1>5. ASSUME Acquire(t)
      PROVE  Mem!Acquire(t)
  <2>1. MemPc' = MemPc /\ MemOutcome' = MemOutcome
    BY <1>1, <1>5, MemHandle DEF Acquire, txnVars
  <2>2. QED
    BY <1>2, <1>5, <2>1, MemOracle, MemStore
       DEF Acquire, Mem!Acquire, txnVars, Mem!txnVars
<1>6. ASSUME NEW ok \in BOOLEAN, TryCommit(t, ok)
      PROVE  Mem!TryCommit(t, ok)
  <2>1. /\ MemPc' = [MemPc EXCEPT ![t] = "decided"]
        /\ MemOutcome' = [MemOutcome EXCEPT ![t] =
                             IF ok THEN "ok" ELSE "conflict"]
    BY <1>1, <1>6, MemHandle DEF TryCommit, Gone
  <2>2. QED
    BY <1>2, <1>6, <2>1, MemOracle, MemStore DEF TryCommit, Mem!TryCommit
<1>7. ASSUME DurableCommitDone(t)
      PROVE  Mem!CommitDone(t)
  <2>1. /\ MemPc' = [MemPc EXCEPT ![t] = "returning"]
        /\ MemOutcome' = MemOutcome
    BY <1>1, <1>7, MemHandle DEF DurableCommitDone, Report
  <2>2. QED
    BY <1>2, <1>7, <2>1, MemOracle
       DEF DurableCommitDone, Report, Mem!CommitDone, Mem!Report
<1>8. ASSUME EndCommit(t)
      PROVE  Mem!EndCommit(t)
  <2>1. /\ MemPc' = [MemPc EXCEPT ![t] = "ended"]
        /\ MemOutcome' = MemOutcome
    BY <1>1, <1>8, MemHandle DEF EndCommit
  <2>2. QED
    BY <1>2, <1>3, <1>8, <2>1, MemOracle DEF EndCommit, Mem!EndCommit
<1>9. QED
  BY <1>4, <1>5, <1>6, <1>7, <1>8

\* So is a sweep.
LEMMA MemCollect ==
    ASSUME LogType, NEW c \in Collector
    PROVE  /\ CollectBegin(c) => Mem!CollectBegin(c)
           /\ CollectShard(c) => Mem!CollectShard(c)
<1>1. UNCHANGED <<pc, outcome>> => MemPc' = MemPc /\ MemOutcome' = MemOutcome
  BY DEF MemPc, MemOutcome
<1>2. UNCHANGED txnVars => UNCHANGED Mem!txnVars
  BY <1>1 DEF txnVars, Mem!txnVars
<1>3. Mem!Shard = Shard /\ Mem!Resting = Resting
  BY MemConstants
<1>4. CollectBegin(c) => Mem!CollectBegin(c)
  BY <1>2, <1>3, MemOracle DEF CollectBegin, Mem!CollectBegin
<1>5. \A S : Mem!Min(S) = Min(S)
  BY Zenon DEF Mem!Min, Min
<1>6. CollectShard(c) => Mem!CollectShard(c)
  BY <1>2, <1>3, <1>5, MemOracle, MemStore
     DEF CollectShard, Mem!CollectShard
<1>7. QED
  BY <1>4, <1>6

\* The append, the sync and an error of the log do not show in memory.
LEMMA MemStutter ==
    ASSUME LogType, NEW t \in Txn,
           AppendRecord(t) \/ SyncRecord(t) \/ AppendFails(t)
    PROVE  UNCHANGED Mem!vars
<1>1. /\ pc[t] \in {"decided", "appended"}
      /\ \E v \in {"appended", "logged"} : pc' = [pc EXCEPT ![t] = v]
      /\ \/ outcome' = outcome
         \/ /\ outcome[t] = "ok"
            /\ outcome' = [outcome EXCEPT ![t] = "durability"]
      /\ UNCHANGED <<next_ts, read_ts, done_upto, ahead, readers, chains, lock,
                     kind, snap_ts, writes, seen, commit_ts, gc>>
  BY DEF AppendRecord, SyncRecord, AppendFails, oracleVars, storeVars
<1>2. MemPc' = MemPc
  BY <1>1 DEF MemPc, LogType
<1>3. MemOutcome' = MemOutcome
  BY <1>1 DEF MemOutcome, Gone, LogType
<1>4. QED
  BY <1>1, <1>2, <1>3 DEF Mem!vars

\* Between a start and a crash, what happens in memory is a step of Db.
LEMMA MemStep ==
    ASSUME LogType, [DurableNext]_durableVars, ~Crash, ~Open
    PROVE  [Mem!Next]_(Mem!vars)
<1>1. ASSUME NEW t \in Txn, Shared(t)
      PROVE  Mem!Next
  <2>1. ASSUME NEW knd \in Kind, Begin(t, knd)
        PROVE  Mem!Next
    BY <2>1, MemTransaction, Zenon DEF Mem!Next
  <2>2. ASSUME NEW k \in Key, Get(t, k) \/ Put(t, k) \/ Delete(t, k)
        PROVE  Mem!Next
    BY <2>2, MemTransaction, Zenon DEF Mem!Next
  <2>3. CASE CommitReadOnly(t) \/ Rollback(t)
    BY <2>3, MemTransaction, Zenon DEF Mem!Next
  <2>4. CASE AllocCommitTs(t) \/ Acquire(t) \/ EndCommit(t)
    BY <2>4, MemCommit, Zenon DEF Mem!Next, Mem!CommitStep
  <2>5. ASSUME NEW ok \in BOOLEAN, TryCommit(t, ok)
        PROVE  Mem!Next
    BY <2>5, MemCommit, Zenon DEF Mem!Next, Mem!CommitStep
  <2>6. QED
    BY <1>1, <2>1, <2>2, <2>3, <2>4, <2>5, Zenon DEF Shared
<1>2. ASSUME NEW t \in Txn,
             AppendRecord(t) \/ SyncRecord(t) \/ AppendFails(t)
      PROVE  UNCHANGED Mem!vars
  BY <1>2, MemStutter
<1>3. ASSUME NEW t \in Txn, DurableCommitDone(t)
      PROVE  Mem!Next
  BY <1>3, MemCommit, Zenon DEF Mem!Next, Mem!CommitStep
<1>4. ASSUME NEW c \in Collector, CollectBegin(c) \/ CollectShard(c)
      PROVE  Mem!Next
  BY <1>4, MemCollect, Zenon DEF Mem!Next
<1>5. CASE UNCHANGED durableVars
  BY <1>5 DEF durableVars, vars, Mem!vars, MemPc, MemOutcome
<1>6. QED
  BY <1>1, <1>2, <1>3, <1>4, <1>5 DEF DurableNext

-----------------------------------------------------------------------------
(* The invariant of the database in memory *)

\* What holds of it also while the process is down: the history of what is
\* left, and what Open starts from.
MemAlways ==
    /\ Mem!TypeOK /\ Mem!Lifecycle /\ Mem!LocksAscending /\ Mem!ChainsAscending
    /\ Mem!FirstCommitterWins /\ Mem!WritersSerializable

MemInv ==
    /\ MemAlways
    /\ up => Mem!Contract!IInv /\ Mem!VersionKept /\ Mem!Intact

\* Isolation holds of whatever part of the history is left.
LEMMA HistoryShrinks ==
    ASSUME Mem!FirstCommitterWins, Mem!WritersSerializable,
           Mem!Applied' \subseteq Mem!Applied,
           \A u \in Mem!Applied' :
              /\ writes'[u] = writes[u] /\ seen'[u] = seen[u]
              /\ commit_ts'[u] = commit_ts[u] /\ snap_ts'[u] = snap_ts[u]
              /\ kind'[u] = kind[u]
    PROVE  Mem!FirstCommitterWins' /\ Mem!WritersSerializable'
<1>1. Mem!FirstCommitterWins'
  BY DEF Mem!FirstCommitterWins
<1>2. Mem!ValidatedWriters' \subseteq Mem!ValidatedWriters
  BY DEF Mem!ValidatedWriters
<1>3. \A t, u \in Mem!ValidatedWriters' :
          Mem!Precedes(t, u)' <=> Mem!Precedes(t, u)
  BY DEF Mem!ValidatedWriters, Mem!Precedes
<1>4. ASSUME NEW C \in SUBSET Mem!ValidatedWriters', C # {}
      PROVE  \E first \in C : \A u \in C : ~Mem!Precedes(u, first)'
  <2>1. PICK first \in C : \A u \in C : ~Mem!Precedes(u, first)
    BY <1>2, <1>4 DEF Mem!WritersSerializable, Mem!SerialOrderExists
  <2>2. QED
    BY <1>3, <1>4, <2>1
<1>5. QED
  BY <1>1, <1>4 DEF Mem!WritersSerializable, Mem!SerialOrderExists

\* Nothing changes while the process is down.
LEMMA MemIdle ==
    ASSUME MemAlways, UNCHANGED durableVars
    PROVE  MemAlways'
<1>1. /\ UNCHANGED <<next_ts, read_ts, done_upto, ahead, readers, chains, lock,
                     kind, snap_ts, writes, seen, commit_ts, gc>>
      /\ MemPc' = MemPc /\ MemOutcome' = MemOutcome
  BY DEF durableVars, vars, MemPc, MemOutcome
<1>2. Mem!TypeOK'
  BY <1>1, Zenon DEF MemAlways, Mem!TypeOK
<1>3. Mem!Applied' = Mem!Applied
  BY <1>1 DEF Mem!Applied
<1>4. Mem!Lifecycle'
  BY <1>1, <1>3, Zenon DEF MemAlways, Mem!Lifecycle
<1>5. Mem!LocksAscending'
  BY <1>1, Zenon DEF MemAlways, Mem!LocksAscending, Mem!reads
<1>6. Mem!ChainsAscending'
  BY <1>1, Zenon DEF MemAlways, Mem!ChainsAscending
<1>7. Mem!FirstCommitterWins' /\ Mem!WritersSerializable'
  BY <1>1, <1>3, HistoryShrinks DEF MemAlways
<1>8. QED
  BY <1>2, <1>4, <1>5, <1>6, <1>7 DEF MemAlways

\* The theorems about Db carry over to the steps between a start and a crash.
LEMMA MemRun ==
    ASSUME LogType, MemInv, [DurableNext]_durableVars, ~Crash, ~Open
    PROVE  MemInv'
<1>1. CASE up
  <2>1. [Mem!Next]_(Mem!vars)
    BY MemStep
  <2>2. Mem!CoreInv
    BY <1>1 DEF MemInv, MemAlways, Mem!CoreInv
  <2>3. /\ Mem!VersionKept /\ Mem!FirstCommitterWins /\ Mem!Intact
        /\ Mem!WritersSerializable
    BY <1>1 DEF MemInv, MemAlways
  <2>4. Mem!CoreInv'
    BY <2>1, <2>2, Mem!CoreStep, MemAssumptions
  <2>5. Mem!VersionKept'
    BY <2>1, <2>2, <2>3, Mem!VersionKeptStep, MemAssumptions
  <2>6. Mem!FirstCommitterWins'
    BY <2>1, <2>2, <2>3, Mem!FirstCommitterStep, MemAssumptions
  <2>7. Mem!Intact'
    BY <2>1, <2>2, <2>3, Mem!IntactStep, MemAssumptions
  <2>8. Mem!WritersSerializable'
    BY <2>1, <2>2, <2>3, Mem!WritersSerializableStep, MemAssumptions
  <2>9. QED
    BY <2>4, <2>5, <2>6, <2>7, <2>8 DEF MemInv, MemAlways, Mem!CoreInv
<1>2. CASE ~up
  <2>1. UNCHANGED durableVars
    BY <1>2 DEF DurableNext
  <2>2. up' = up
    BY <2>1 DEF durableVars, logVars
  <2>3. QED
    BY <1>2, <2>1, <2>2, MemIdle DEF MemInv
<1>3. QED
  BY <1>1, <1>2

-----------------------------------------------------------------------------
(* Records, outcomes and reads, between a start and a crash *)

\* The part of Fates that is about one handle, and of RecordsApplied.
FateKnown(t) ==
    /\ outcome[t] \in Gone => pc[t] = "ended"
    /\ outcome[t] = "recovered" =>
          pc[t] = "ended" /\ \E i \in 1..synced : log[i].txn = t
    /\ is_fatal(outcome[t]) => pc[t] \in {"logged", "returning", "ended"}
    /\ pc[t] = "appended" => outcome[t] = "ok"
    /\ commit_ts[t] # 0 =>
          pc[t] \notin {"idle", "active"} /\ snap_ts[t] < commit_ts[t]

Recordable(t) ==
    /\ t \in InMemory
    /\ pc[t] \in {"appended", "logged", "returning", "ended"}

\* Fates, one handle at a time.
LEMMA FatesParts ==
    /\ Fates <=> \A t \in Txn : FateKnown(t)
    /\ Fates' <=> \A t \in Txn : FateKnown(t)'
BY Zenon DEF Fates, FateKnown

\* What is on disk stays there while the process runs.
DiskKept ==
    /\ synced' \in Nat /\ synced <= synced'
    /\ \A i \in 1..synced : log'[i] = log[i]

\* All handles but t are left alone.
OthersKept(t) ==
    \A u \in Txn \ {t} :
        /\ pc'[u] = pc[u] /\ outcome'[u] = outcome[u]
        /\ writes'[u] = writes[u] /\ commit_ts'[u] = commit_ts[u]
        /\ snap_ts'[u] = snap_ts[u]

\* A record that is on disk is there after any step that keeps the disk.
LEMMA DiskKeeps ==
    ASSUME LogType, DiskKept, NEW t, \E i \in 1..synced : log[i].txn = t
    PROVE  \E i \in 1..synced' : log'[i].txn = t
<1>1. PICK i \in 1..synced : log[i].txn = t
  OBVIOUS
<1>2. synced \in Nat
  BY LogElement
<1>3. i \in 1..synced' /\ log'[i] = log[i]
  BY <1>1, <1>2 DEF DiskKept
<1>4. QED
  BY <1>1, <1>3

\* A step of t that keeps what is known of it.
LEMMA FatesFrame ==
    ASSUME LogType, Fates, DiskKept, NEW t \in Txn, OthersKept(t),
           FateKnown(t)'
    PROVE  Fates'
<1>1. ASSUME NEW u \in Txn \ {t}
      PROVE  FateKnown(u)'
  <2>1. FateKnown(u)
    BY FatesParts
  <2>2. /\ pc'[u] = pc[u] /\ outcome'[u] = outcome[u]
        /\ commit_ts'[u] = commit_ts[u] /\ snap_ts'[u] = snap_ts[u]
    BY DEF OthersKept
  <2>3. QED
    BY <2>1, <2>2, DiskKeeps DEF FateKnown
<1>2. QED
  BY <1>1, FatesParts

\* A step of t that leaves the file alone and keeps the record it may have.
LEMMA RecordsFrame ==
    ASSUME LogType, RecordsApplied, log' = log, NEW t \in Txn, OthersKept(t),
           Recordable(t) => /\ Recordable(t)'
                            /\ commit_ts'[t] = commit_ts[t]
    PROVE  RecordsApplied'
<1>1. ASSUME NEW i \in 1..Len(log)
      PROVE  /\ log[i].txn \in InMemory'
             /\ commit_ts'[log[i].txn] = log[i].commit_ts
             /\ pc'[log[i].txn] \in {"appended", "logged", "returning",
                                     "ended"}
  <2>1. /\ log[i].txn \in Txn /\ Recordable(log[i].txn)
        /\ commit_ts[log[i].txn] = log[i].commit_ts
    BY LogElement DEF RecordsApplied, Recordable
  <2>2. CASE log[i].txn = t
    BY <2>1, <2>2 DEF Recordable
  <2>3. CASE log[i].txn # t
    BY <2>1, <2>3 DEF OthersKept, Recordable, InMemory
  <2>4. QED
    BY <2>2, <2>3
<1>2. QED
  BY <1>1 DEF RecordsApplied

\* What a step of t that leaves the log alone has to keep.
Keeps(t) ==
    /\ OthersKept(t) /\ FateKnown(t)'
    /\ Recordable(t) => Recordable(t)' /\ commit_ts'[t] = commit_ts[t]
    /\ Failed(t) => Failed(t)'

\* The steps that leave the log alone.
LEMMA SharedKeeps ==
    ASSUME LogType, MemInv, up, NEW t \in Txn, FateKnown(t), Shared(t),
           UNCHANGED logVars
    PROVE  Keeps(t)
<1>1. /\ snap_ts \in [Txn -> Nat] /\ commit_ts \in [Txn -> Nat]
      /\ DOMAIN pc = Txn /\ DOMAIN outcome = Txn /\ DOMAIN writes = Txn
      /\ Mem!TypeOK
  BY DEF LogType, MemInv, MemAlways, Mem!TypeOK
<1>2. log' = log /\ synced' = synced
  BY DEF logVars
<1> USE DEF Keeps, OthersKept, FateKnown, Recordable, InMemory, Failed,
            is_fatal, Gone
<1>3. ASSUME NEW knd \in Kind, Begin(t, knd)
      PROVE  Keeps(t)
  BY <1>1, <1>2, <1>3 DEF Begin
<1>4. ASSUME NEW k \in Key, Get(t, k) \/ Put(t, k) \/ Delete(t, k)
      PROVE  Keeps(t)
  BY <1>1, <1>2, <1>4 DEF Get, Put, Delete, Buffer
<1>5. CASE CommitReadOnly(t) \/ Rollback(t)
  BY <1>1, <1>2, <1>5 DEF CommitReadOnly, Rollback
<1>6. CASE AllocCommitTs(t)
  <2>1. snap_ts[t] < next_ts
    <3>1. snap_ts[t] <= read_ts /\ read_ts < next_ts
      BY <1>1, Mem!OracleFacts, MemAssumptions
         DEF MemInv, MemAlways, Mem!Lifecycle
    <3>2. QED
      BY <1>1, <3>1 DEF Mem!TypeOK
  <2>2. QED
    BY <1>1, <1>2, <1>6, <2>1 DEF AllocCommitTs, alloc_commit_ts
<1>7. CASE Acquire(t)
  BY <1>1, <1>2, <1>7 DEF Acquire, txnVars
<1>8. ASSUME NEW ok \in BOOLEAN, TryCommit(t, ok)
      PROVE  Keeps(t)
  BY <1>1, <1>2, <1>8 DEF TryCommit
<1>9. CASE EndCommit(t)
  BY <1>1, <1>2, <1>9 DEF EndCommit, Refused, TxnError
<1>10. QED
  BY <1>3, <1>4, <1>5, <1>6, <1>7, <1>8, <1>9, Zenon DEF Shared

\* An error of the log is not forgotten.
FailedKept == \A t \in Txn : Failed(t) => Failed(t)'

\* The record that is appended is that of a commit that was applied.
LEMMA AppendKeeps ==
    ASSUME LogType, RecordsApplied, Fates, MemInv, NEW t \in Txn,
           AppendRecord(t)
    PROVE  DiskKept /\ RecordsApplied' /\ Fates' /\ FailedKept
<1>1. /\ pc[t] = "decided" /\ pc' = [pc EXCEPT ![t] = "appended"]
      /\ outcome[t] = "ok" /\ log' = Append(log, Record(t))
      /\ UNCHANGED <<synced, commit_ts, snap_ts, outcome, writes>>
  BY DEF AppendRecord, WalAppend
<1>2. /\ Len(log) \in Nat /\ synced \in Nat /\ synced <= Len(log)
      /\ Record(t) \in [txn : Txn, commit_ts : Nat]
      /\ log \in Seq([txn : Txn, commit_ts : Nat])
      /\ DOMAIN pc = Txn /\ DOMAIN outcome = Txn /\ DOMAIN writes = Txn
  BY LogElement DEF LogType, Record
<1>3. /\ Len(log') = Len(log) + 1
      /\ \A i \in 1..Len(log) : log'[i] = log[i]
      /\ log'[Len(log) + 1] = Record(t)
  BY <1>1, <1>2, AppendProperties
<1>4. DiskKept
  <2>1. \A i \in 1..synced : i \in 1..Len(log)
    BY <1>2
  <2>2. QED
    BY <1>1, <1>2, <1>3, <2>1 DEF DiskKept
<1>5. OthersKept(t)
  BY <1>1, <1>2 DEF OthersKept
<1>6. FateKnown(t) /\ FateKnown(t)'
  <2>1. FateKnown(t)
    BY FatesParts
  <2>2. QED
    BY <1>1, <1>2, <2>1 DEF FateKnown, Gone, is_fatal
<1>7. Fates'
  BY <1>4, <1>5, <1>6, FatesFrame
<1>8. DOMAIN writes[t] # {}
  BY <1>1, MemState DEF MemInv, MemAlways, Mem!Lifecycle
<1>9. ASSUME NEW i \in 1..Len(log')
      PROVE  /\ log'[i].txn \in InMemory'
             /\ commit_ts'[log'[i].txn] = log'[i].commit_ts
             /\ pc'[log'[i].txn] \in {"appended", "logged", "returning",
                                      "ended"}
  <2>1. CASE i \in 1..Len(log)
    <3>1. /\ log'[i] = log[i] /\ log[i].txn \in Txn
          /\ log[i].txn \in InMemory
          /\ commit_ts[log[i].txn] = log[i].commit_ts
          /\ pc[log[i].txn] \in {"appended", "logged", "returning", "ended"}
      BY <1>3, <2>1, LogElement DEF RecordsApplied
    <3>2. QED
      BY <1>1, <1>2, <3>1 DEF InMemory
  <2>2. CASE i = Len(log) + 1
    BY <1>1, <1>2, <1>3, <1>8, <2>2 DEF InMemory, Record
  <2>3. QED
    BY <1>2, <1>3, <1>9, <2>1, <2>2
<1>10. RecordsApplied'
  BY <1>9 DEF RecordsApplied
<1>11. FailedKept
  BY <1>1 DEF FailedKept, Failed
<1>12. QED
  BY <1>4, <1>7, <1>10, <1>11

\* The sync, an error of the log, and the report.
LEMMA LoggedKeeps ==
    ASSUME LogType, NEW t \in Txn, FateKnown(t),
           SyncRecord(t) \/ AppendFails(t) \/ DurableCommitDone(t)
    PROVE  DiskKept /\ log' = log /\ Keeps(t)
<1>1. /\ Len(log) \in Nat /\ synced \in Nat
      /\ DOMAIN pc = Txn /\ DOMAIN outcome = Txn /\ DOMAIN writes = Txn
  BY LogElement DEF LogType
<1>2. UNCHANGED <<commit_ts, snap_ts, writes, log>>
  BY DEF SyncRecord, WalSync, AppendFails, DurableCommitDone, Report, logVars
<1>3. DiskKept
  BY <1>1 DEF SyncRecord, WalSync, AppendFails, DurableCommitDone, logVars,
              DiskKept
<1>4. \/ /\ pc[t] = "appended" /\ pc' = [pc EXCEPT ![t] = "logged"]
         /\ outcome' = outcome
      \/ /\ pc[t] \in {"decided", "appended"} /\ outcome[t] = "ok"
         /\ pc' = [pc EXCEPT ![t] = "logged"]
         /\ outcome' = [outcome EXCEPT ![t] = "durability"]
      \/ /\ pc[t] \in {"decided", "logged"} /\ outcome' = outcome
         /\ pc[t] = "decided" => outcome[t] = "conflict"
         /\ pc' = [pc EXCEPT ![t] = "returning"]
  BY DEF SyncRecord, AppendFails, DurableCommitDone, Report
<1>5. OthersKept(t)
  BY <1>1, <1>2, <1>4 DEF OthersKept
<1>6. FateKnown(t)'
  BY <1>1, <1>2, <1>4 DEF FateKnown, Gone, is_fatal
<1>7. Recordable(t) => Recordable(t)'
  BY <1>1, <1>2, <1>4 DEF Recordable, InMemory
<1>8. Failed(t) => Failed(t)'
  BY <1>1, <1>4 DEF Failed, is_fatal
<1>9. QED
  BY <1>2, <1>3, <1>5, <1>6, <1>7, <1>8 DEF Keeps

\* Every step between a start and a crash.
LEMMA RunKeeps ==
    ASSUME LogType, RecordsApplied, Fates, MemInv,
           [DurableNext]_durableVars, ~Crash, ~Open
    PROVE  DiskKept /\ RecordsApplied' /\ Fates' /\ FailedKept
<1>1. \A t \in Txn : FateKnown(t)
  BY FatesParts
<1>2. synced \in Nat
  BY LogElement
<1>3. ASSUME NEW t \in Txn, Keeps(t), DiskKept, log' = log
      PROVE  RecordsApplied' /\ Fates' /\ FailedKept
  <2>1. RecordsApplied' /\ Fates'
    BY <1>3, FatesFrame, RecordsFrame DEF Keeps
  <2>2. FailedKept
    BY <1>3 DEF Keeps, OthersKept, FailedKept, Failed
  <2>3. QED
    BY <2>1, <2>2
<1>4. ASSUME up, NEW t \in Txn, Shared(t), UNCHANGED logVars
      PROVE  DiskKept /\ RecordsApplied' /\ Fates' /\ FailedKept
  <2>1. log' = log /\ DiskKept
    BY <1>2, <1>4 DEF DiskKept, logVars
  <2>2. QED
    BY <1>1, <1>3, <1>4, <2>1, SharedKeeps
<1>5. ASSUME NEW t \in Txn,
             SyncRecord(t) \/ AppendFails(t) \/ DurableCommitDone(t)
      PROVE  DiskKept /\ RecordsApplied' /\ Fates' /\ FailedKept
  BY <1>1, <1>3, <1>5, LoggedKeeps
<1>6. ASSUME UNCHANGED <<pc, outcome, writes, commit_ts, snap_ts, log, synced>>
      PROVE  DiskKept /\ RecordsApplied' /\ Fates' /\ FailedKept
  <2>1. DiskKept
    BY <1>2, <1>6 DEF DiskKept
  <2>2. QED
    BY <1>6, <2>1 DEF RecordsApplied, InMemory, Fates, FailedKept, Failed
<1>7. ASSUME NEW c \in Collector, CollectBegin(c) \/ CollectShard(c),
             UNCHANGED logVars
      PROVE  DiskKept /\ RecordsApplied' /\ Fates' /\ FailedKept
  <2>1. UNCHANGED <<pc, outcome, writes, commit_ts, snap_ts, log, synced>>
    BY <1>7 DEF CollectBegin, CollectShard, txnVars, logVars
  <2>2. QED
    BY <1>6, <2>1
<1>8. CASE UNCHANGED durableVars
  <2>1. UNCHANGED <<pc, outcome, writes, commit_ts, snap_ts, log, synced>>
    BY <1>8 DEF durableVars, vars, logVars
  <2>2. QED
    BY <1>6, <2>1
<1>9. QED
  BY <1>4, <1>5, <1>7, <1>8, AppendKeeps DEF DurableNext

\* What a running handle can read is on disk, or its commit returned an error.
LEMMA VisibleOnDisk ==
    ASSUME LogInv, Fates, MemInv, up, NEW t \in Mem!Live, NEW k \in Key
    PROVE  LET u == visible_value(chains[k], snap_ts[t])
           IN  \/ u = None
               \/ u \in Txn /\ Failed(u)
               \/ \E i \in 1..synced : log[i].txn = u
<1>1. /\ Mem!TypeOK /\ Mem!Lifecycle /\ Mem!Contract!IInv /\ Mem!Intact
      /\ LogComplete
  BY DEF MemInv, MemAlways, LogInv
<1>2. /\ read_ts < next_ts /\ snap_ts[t] <= read_ts
      /\ \A u \in Txn : MemPc[u] \in {"committing", "decided"} /\
                        commit_ts[u] # 0 => read_ts < commit_ts[u]
  BY <1>1, Mem!OracleFacts, MemAssumptions
<1>3. /\ t \in Txn /\ snap_ts[t] \in Nat /\ read_ts \in Nat /\ next_ts \in Nat
      /\ \A u \in Txn : commit_ts[u] \in Nat
      /\ \A u \in Txn : MemPc[u] \in {"idle", "active", "committing",
                                      "decided", "returning", "ended"}
  BY <1>1 DEF Mem!TypeOK, Mem!Live
<1>4. snap_ts[t] \in 0..MaxTs /\ Mem!Reachable(snap_ts[t])
  BY <1>1, <1>2, <1>3, MaxTsAssumption DEF Mem!Lifecycle, Mem!Reachable
<1>5. visible_value(chains[k], snap_ts[t]) = Mem!ValueAt(k, snap_ts[t])
  BY <1>1, <1>4, MemChains DEF Mem!Intact
<1>6. CASE Mem!LastWriter(k, snap_ts[t]) = {}
  BY <1>5, <1>6 DEF Mem!ValueAt
<1>7. CASE Mem!LastWriter(k, snap_ts[t]) # {}
  <2>1. PICK w : /\ w \in Mem!LastWriter(k, snap_ts[t])
                 /\ Mem!ValueAt(k, snap_ts[t]) = writes[w][k]
    BY <1>7, Zenon DEF Mem!ValueAt, Mem!TheOne
  <2>2. /\ w \in Txn /\ MemOutcome[w] = "ok" /\ k \in DOMAIN writes[w]
        /\ DOMAIN writes[w] # {} /\ commit_ts[w] <= snap_ts[t]
        /\ w \in Mem!Applied
    BY <2>1 DEF Mem!LastWriter, Mem!Writers, Mem!Applied
  <2>3. writes[w][k] \in {w, None} /\ commit_ts[w] # 0
    BY <1>1, <2>2 DEF Mem!Lifecycle
  <2>4. outcome[w] \in {"ok", "durability", "recovered"}
    BY <2>2, MemState
  <2>5. MemPc[w] \notin {"committing", "decided"}
    BY <1>2, <1>3, <2>2, <2>3
  <2>6. outcome[w] = "ok" => \E i \in 1..synced : log[i].txn = w
    <3>1. outcome[w] = "ok" => pc[w] \notin {"idle", "active", "committing"}
      BY <1>1, <2>2 DEF LogComplete
    <3>2. pc[w] = MemPc[w]
      BY <2>2, <2>5, MemState
    <3>3. outcome[w] = "ok" => pc[w] \in {"returning", "ended"}
      BY <1>3, <2>2, <2>5, <3>1, <3>2
    <3>4. QED
      BY <1>1, <2>2, <3>3 DEF LogComplete
  <2>7. outcome[w] = "recovered" => \E i \in 1..synced : log[i].txn = w
    BY <2>2 DEF Fates
  <2>8. outcome[w] = "durability" => Failed(w)
    BY DEF Failed, is_fatal
  <2>9. QED
    BY <1>5, <2>1, <2>2, <2>3, <2>4, <2>6, <2>7, <2>8
<1>8. QED
  BY <1>6, <1>7

\* So is whatever a handle has read.
LEMMA RunReads ==
    ASSUME LogInv, RecordsApplied, Fates, ReadsOnDisk, MemInv,
           [DurableNext]_durableVars, ~Crash, ~Open
    PROVE  ReadsOnDisk'
<1>1. DiskKept /\ FailedKept /\ LogType
  BY RunKeeps DEF LogInv
<1>2. ASSUME NEW u, \/ u = None
                    \/ u \in Txn /\ Failed(u)
                    \/ \E i \in 1..synced : log[i].txn = u
      PROVE  \/ u = None \/ outcome'[u] \in {"durability", "failed"}
             \/ \E i \in 1..synced' : log'[i].txn = u
  BY <1>1, <1>2, DiskKeeps DEF FailedKept, Failed, is_fatal
<1>3. ASSUME NEW t \in Txn, NEW k \in DOMAIN seen[t]
      PROVE  \/ seen[t][k] = None
             \/ seen[t][k] \in Txn /\ Failed(seen[t][k])
             \/ \E i \in 1..synced : log[i].txn = seen[t][k]
  <2>1. seen[t][k] \in Txn \cup {None}
    BY DEF MemInv, MemAlways, Mem!TypeOK, Mem!PartialFcn
  <2>2. QED
    BY <2>1 DEF ReadsOnDisk
<1>4. CASE up
  <2>1. [Mem!Next]_(Mem!vars) /\ Mem!CoreInv
    BY <1>1, <1>4, MemStep DEF MemInv, MemAlways, Mem!CoreInv
  <2>2. ASSUME NEW t \in Txn, NEW k \in DOMAIN seen'[t]
        PROVE  \/ seen'[t][k] = None
               \/ outcome'[seen'[t][k]] \in {"durability", "failed"}
               \/ \E i \in 1..synced' : log'[i].txn = seen'[t][k]
    <3>1. \/ DOMAIN seen'[t] = {}
          \/ seen'[t] = seen[t]
          \/ /\ t \in Mem!Live
             /\ \E j \in Key : seen'[t] =
                   [l \in DOMAIN seen[t] \cup {j} |->
                       IF l = j THEN Mem!visible_value(chains[j], snap_ts[t])
                       ELSE seen[t][l]]
      BY <2>1, Mem!SeenStep, MemAssumptions
    <3>2. \/ k \in DOMAIN seen[t] /\ seen'[t][k] = seen[t][k]
          \/ /\ t \in Mem!Live /\ k \in Key
             /\ seen'[t][k] = visible_value(chains[k], snap_ts[t])
      BY <2>2, <3>1, MemChains
    <3>3. \/ seen'[t][k] = None
          \/ seen'[t][k] \in Txn /\ Failed(seen'[t][k])
          \/ \E i \in 1..synced : log[i].txn = seen'[t][k]
      BY <1>3, <1>4, <3>2, VisibleOnDisk
    <3>4. QED
      BY <1>2, <3>3
  <2>3. QED
    BY <2>2 DEF ReadsOnDisk, Failed, is_fatal
<1>5. CASE ~up
  <2>1. UNCHANGED durableVars
    BY <1>5 DEF DurableNext
  <2>2. seen' = seen
    BY <2>1 DEF durableVars, vars
  <2>3. QED
    BY <1>2, <1>3, <2>2 DEF ReadsOnDisk, Failed, is_fatal
<1>6. QED
  BY <1>4, <1>5

-----------------------------------------------------------------------------
(* What a crash leaves *)

\* The fate of a handle, case by case.
LEMMA FateCases ==
    ASSUME NEW t, NEW n
    PROVE  /\ Fate(t, n) \in {"none", "ok", "recovered", "failed", "lost"}
           /\ Fate(t, n) = "none" <=> pc[t] = "idle"
           /\ pc[t] = "ended" /\ outcome[t] = "ok" => Fate(t, n) = "ok"
           /\ Fate(t, n) = "ok" => pc[t] = "ended" /\ outcome[t] = "ok"
           /\ pc[t] # "idle" /\ (\E i \in 1..n : log[i].txn = t) =>
                  Fate(t, n) \in {"ok", "recovered"}
           /\ Fate(t, n) = "recovered" => \E i \in 1..n : log[i].txn = t
           /\ /\ pc[t] # "idle" /\ outcome[t] \in {"durability", "failed"}
              /\ ~\E i \in 1..n : log[i].txn = t
              => Fate(t, n) = "failed"
BY DEF Fate

\* What is kept of the history is what is left in the file.
LEMMA KeptIsLogged ==
    ASSUME LogInv, RecordsApplied, MemInv, NEW n \in Nat, synced <= n,
           n <= Len(log), NEW t \in Txn
    PROVE  /\ Kept(t, n) <=> \E i \in 1..n : log[i].txn = t
           /\ Kept(t, n) => /\ t \in InMemory /\ t \in Mem!Applied
                            /\ pc[t] # "idle"
                            /\ Fate(t, n) \in {"ok", "recovered"}
<1>1. /\ Len(log) \in Nat /\ synced \in Nat
      /\ \A i \in 1..n : i \in 1..Len(log)
      /\ \A i \in 1..synced : i \in 1..n
  BY LogElement DEF LogInv
<1>2. ASSUME \E i \in 1..n : log[i].txn = t
      PROVE  Kept(t, n) /\ t \in InMemory /\ pc[t] # "idle"
             /\ Fate(t, n) \in {"ok", "recovered"}
  <2>1. t \in InMemory /\ pc[t] # "idle"
    BY <1>1, <1>2 DEF RecordsApplied
  <2>2. Fate(t, n) \in {"ok", "recovered"}
    BY <1>2, <2>1, FateCases
  <2>3. QED
    BY <2>1, <2>2 DEF Kept, InMemory, Gone
<1>3. ASSUME Kept(t, n)
      PROVE  \E i \in 1..n : log[i].txn = t
  <2>1. /\ Fate(t, n) \in {"none", "ok", "recovered"}
        /\ DOMAIN writes[t] # {}
    BY <1>3, FateCases DEF Kept, Gone
  <2>2. Fate(t, n) # "none"
    <3>1. MemPc[t] = "idle" => DOMAIN writes[t] = {}
      BY DEF MemInv, MemAlways, Mem!Lifecycle
    <3>2. QED
      BY <2>1, <3>1, FateCases, MemState
  <2>3. CASE Fate(t, n) = "ok"
    <3>1. pc[t] = "ended" /\ outcome[t] = "ok"
      BY <2>3, FateCases
    <3>2. \E i \in 1..synced : log[i].txn = t
      BY <2>1, <3>1 DEF LogInv, LogComplete
    <3>3. QED
      BY <1>1, <3>2
  <2>4. CASE Fate(t, n) = "recovered"
    BY <2>4, FateCases
  <2>5. QED
    BY <2>1, <2>2, <2>3, <2>4
<1>4. t \in InMemory => t \in Mem!Applied
  BY MemState DEF InMemory, Mem!Applied
<1>5. QED
  BY <1>2, <1>3, <1>4

\* Records, outcomes and reads after a crash.
LEMMA CrashKeeps ==
    ASSUME LogInv, RecordsApplied, Fates, ReadsOnDisk, MemInv, Crash
    PROVE  RecordsApplied' /\ Fates' /\ Forgotten' /\ ReadsOnDisk'
<1>1. PICK n \in Nat : /\ synced <= n /\ n <= Len(log)
                       /\ \A i \in 1..n : i \in 1..Len(log)
                       /\ CrashLeaves(n)
  BY CrashEffect DEF LogInv
<1>2. /\ Len(log') = n /\ DOMAIN log' = 1..n /\ synced' = n
      /\ \A i \in 1..n : log'[i] = log[i]
  BY <1>1 DEF CrashLeaves
<1>3. \A t \in Txn :
        /\ pc'[t] = IF pc[t] = "idle" THEN "idle" ELSE "ended"
        /\ outcome'[t] = Fate(t, n)
        /\ writes'[t] = IF Kept(t, n) THEN writes[t] ELSE Nothing
        /\ seen'[t] = IF Kept(t, n) THEN seen[t] ELSE Nothing
        /\ snap_ts'[t] = IF Kept(t, n) THEN snap_ts[t] ELSE 0
        /\ commit_ts'[t] = IF Kept(t, n) THEN commit_ts[t] ELSE 0
  BY <1>1 DEF CrashLeaves
<1>4. DOMAIN Nothing = {}
  BY DEF Nothing
<1>5. \A t \in Txn :
        /\ Kept(t, n) <=> \E i \in 1..n : log[i].txn = t
        /\ Kept(t, n) => /\ t \in InMemory /\ pc[t] # "idle"
                         /\ Fate(t, n) \in {"ok", "recovered"}
  BY <1>1, KeptIsLogged
<1>6. \A t \in Txn : t \in InMemory' <=> Kept(t, n)
  BY <1>3, <1>4, <1>5 DEF InMemory
<1>7. RecordsApplied'
  <2>1. ASSUME NEW i \in 1..n
        PROVE  /\ log[i].txn \in InMemory'
               /\ commit_ts'[log[i].txn] = log[i].commit_ts
               /\ pc'[log[i].txn] = "ended"
    <3>1. /\ log[i].txn \in Txn /\ Kept(log[i].txn, n)
          /\ commit_ts[log[i].txn] = log[i].commit_ts
      BY <1>1, <1>5, LogElement DEF LogInv, RecordsApplied
    <3>2. QED
      BY <1>3, <1>5, <1>6, <3>1
  <2>2. QED
    BY <1>2, <2>1 DEF RecordsApplied
<1>8. Fates'
  <2>1. ASSUME NEW t \in Txn
        PROVE  FateKnown(t)'
    <3>1. FateKnown(t)
      BY FatesParts
    <3>2. outcome'[t] \in Gone => pc'[t] = "ended"
      BY <1>3, FateCases DEF Gone
    <3>3. outcome'[t] = "recovered" =>
              pc'[t] = "ended" /\ \E i \in 1..synced' : log'[i].txn = t
      BY <1>2, <1>3, FateCases
    <3>4. ~is_fatal(outcome'[t]) /\ pc'[t] # "appended"
      BY <1>3, FateCases DEF is_fatal
    <3>5. commit_ts'[t] # 0 =>
              pc'[t] \notin {"idle", "active"} /\ snap_ts'[t] < commit_ts'[t]
      BY <1>3, <3>1 DEF FateKnown
    <3>6. QED
      BY <3>2, <3>3, <3>4, <3>5 DEF FateKnown
  <2>2. QED
    BY <2>1, FatesParts
<1>9. Forgotten'
  <2>1. \A t \in Txn : Kept(t, n) => t \in Logged'
    BY <1>2, <1>5 DEF Logged
  <2>2. QED
    BY <1>1, <1>3, <1>6, <2>1 DEF Forgotten, CrashLeaves
<1>10. ASSUME NEW t \in Txn, NEW k \in DOMAIN seen'[t]
       PROVE  \/ seen'[t][k] = None
              \/ outcome'[seen'[t][k]] \in {"durability", "failed"}
              \/ \E i \in 1..n : log'[i].txn = seen'[t][k]
  <2>1. k \in DOMAIN seen[t] /\ seen'[t][k] = seen[t][k]
    BY <1>3, <1>4, <1>10
  <2> DEFINE u == seen[t][k]
  <2>2. u \in Txn \cup {None}
    BY <2>1 DEF MemInv, MemAlways, Mem!TypeOK, Mem!PartialFcn
  <2>3. CASE \E i \in 1..n : log[i].txn = u
    BY <1>2, <2>1, <2>3
  <2>4. CASE u \in Txn /\ Failed(u) /\ ~\E i \in 1..n : log[i].txn = u
    <3>1. outcome[u] \in {"durability", "failed"} /\ pc[u] # "idle"
      BY <2>4, FatesParts DEF Failed, is_fatal, FateKnown, Gone
    <3>2. Fate(u, n) = "failed"
      BY <2>4, <3>1, FateCases
    <3>3. QED
      BY <1>3, <2>1, <2>4, <3>2
  <2>5. \/ u = None \/ Failed(u) \/ \E i \in 1..synced : log[i].txn = u
    BY <2>1 DEF ReadsOnDisk
  <2>6. \A i \in 1..synced : i \in 1..n
    BY <1>1, LogElement DEF LogInv
  <2>7. QED
    BY <2>1, <2>2, <2>3, <2>4, <2>5, <2>6
<1>11. ReadsOnDisk'
  BY <1>2, <1>10 DEF ReadsOnDisk, Failed, is_fatal
<1>12. QED
  BY <1>7, <1>8, <1>9, <1>11

\* The database in memory after a crash: part of the history, nobody at work.
LEMMA CrashMem ==
    ASSUME LogInv, RecordsApplied, MemInv, Crash
    PROVE  MemInv'
<1>1. PICK n \in Nat : /\ synced <= n /\ n <= Len(log)
                       /\ CrashLeaves(n)
  BY CrashEffect DEF LogInv
<1>2. \A t \in Txn :
        /\ pc'[t] = IF pc[t] = "idle" THEN "idle" ELSE "ended"
        /\ outcome'[t] = Fate(t, n)
        /\ writes'[t] = IF Kept(t, n) THEN writes[t] ELSE Nothing
        /\ seen'[t] = IF Kept(t, n) THEN seen[t] ELSE Nothing
        /\ snap_ts'[t] = IF Kept(t, n) THEN snap_ts[t] ELSE 0
        /\ commit_ts'[t] = IF Kept(t, n) THEN commit_ts[t] ELSE 0
  BY <1>1 DEF CrashLeaves
<1>3. /\ lock' = [s \in Shard |-> None] /\ gc' = [c \in Collector |-> Resting]
      /\ ~up'
      /\ UNCHANGED <<next_ts, read_ts, done_upto, ahead, readers, chains,
                     kind>>
  BY <1>1 DEF CrashLeaves, oracleVars
<1>4. \A t \in Txn : Kept(t, n) => /\ t \in Mem!Applied
                                   /\ Fate(t, n) \in {"ok", "recovered"}
                                   /\ pc[t] # "idle"
  BY <1>1, KeptIsLogged
<1>5. DOMAIN Nothing = {}
  BY DEF Nothing
<1>6. \A t \in Txn :
        /\ MemPc'[t] = pc'[t]
        /\ MemOutcome'[t] \in {"none", "ok", "rolled_back"}
        /\ MemOutcome'[t] = "none" <=> pc'[t] = "idle"
  <2>1. ASSUME NEW t \in Txn
        PROVE  /\ MemPc'[t] = pc'[t]
               /\ MemOutcome'[t] \in {"none", "ok", "rolled_back"}
               /\ MemOutcome'[t] = "none" <=> pc'[t] = "idle"
    BY <1>2, FateCases DEF MemPc, MemOutcome, Gone
  <2>2. QED
    BY <2>1
<1>7. \A t \in Txn : t \in Mem!Applied' => Kept(t, n)
  BY <1>2, <1>5 DEF Mem!Applied
<1>8. MemAlways
  BY DEF MemInv
<1>9. Mem!TypeOK'
  <2>1. Mem!TypeOK
    BY <1>8 DEF MemAlways
  <2>2. lock' \in [Mem!Shard -> Txn \cup {None}]
    BY <1>3, MemConstants
  <2>3. gc' \in [Collector -> [low : Nat, left : SUBSET Mem!Shard]]
    BY <1>3 DEF Resting
  <2>4. /\ MemPc' \in [Txn -> {"idle", "active", "committing", "decided",
                               "returning", "ended"}]
        /\ MemOutcome' \in [Txn -> {"none", "ok", "rolled_back"}
                                       \cup Mem!Refused]
    <3>1. /\ MemPc' = [t \in Txn |-> MemPc'[t]]
          /\ MemOutcome' = [t \in Txn |-> MemOutcome'[t]]
      BY DEF MemPc, MemOutcome
    <3>2. QED
      BY <1>2, <1>6, <3>1
  <2>5. /\ snap_ts' \in [Txn -> Nat] /\ commit_ts' \in [Txn -> Nat]
    <3>1. /\ snap_ts' = [t \in Txn |-> snap_ts'[t]]
          /\ commit_ts' = [t \in Txn |-> commit_ts'[t]]
      BY DEF Crash
    <3>2. \A t \in Txn : snap_ts'[t] \in Nat /\ commit_ts'[t] \in Nat
      <4>1. \A t \in Txn : snap_ts[t] \in Nat /\ commit_ts[t] \in Nat
        BY <2>1 DEF Mem!TypeOK
      <4>2. QED
        BY <1>2, <4>1
    <3>3. QED
      BY <3>1, <3>2
  <2>6. /\ writes' \in [Txn -> Mem!PartialFcn(Key, Txn \cup {None})]
        /\ seen' \in [Txn -> Mem!PartialFcn(Key, Txn \cup {None})]
    <3>1. /\ writes' = [t \in Txn |-> writes'[t]]
          /\ seen' = [t \in Txn |-> seen'[t]]
      BY DEF Crash
    <3>2. Nothing \in Mem!PartialFcn(Key, Txn \cup {None})
      <4>1. Nothing \in [{} -> Txn \cup {None}] /\ {} \in SUBSET Key
        BY DEF Nothing
      <4>2. QED
        BY <4>1, Zenon DEF Mem!PartialFcn
    <3>3. \A t \in Txn :
              /\ writes'[t] \in Mem!PartialFcn(Key, Txn \cup {None})
              /\ seen'[t] \in Mem!PartialFcn(Key, Txn \cup {None})
      BY <1>2, <2>1, <3>2 DEF Mem!TypeOK
    <3>4. QED
      BY <3>1, <3>3
  <2>7. QED
    BY <1>3, <2>1, <2>2, <2>3, <2>4, <2>5, <2>6 DEF Mem!TypeOK
<1>10. Mem!Lifecycle'
  <2>1. Mem!TypeOK /\ Mem!Lifecycle
    BY <1>8 DEF MemAlways
  <2>2. /\ next_ts \in Nat /\ read_ts \in Nat
        /\ \A t \in Txn : commit_ts[t] \in Nat /\ snap_ts[t] \in Nat
    BY <2>1 DEF Mem!TypeOK
  <2>3. /\ next_ts' <= MaxTs + 1
        /\ \A c \in Collector : gc'[c].left = {} => gc'[c].low = 0
    BY <1>3, <2>1 DEF Mem!Lifecycle, Resting
  <2>4. ASSUME NEW t \in Txn
        PROVE  /\ commit_ts[t] < next_ts /\ 0 < next_ts
               /\ snap_ts[t] <= read_ts /\ 0 <= read_ts
               /\ \A k \in DOMAIN writes[t] : writes[t][k] \in {t, None}
               /\ \A u \in Txn : t # u /\ commit_ts[t] # 0 =>
                     commit_ts[t] # commit_ts[u]
               /\ t \in Mem!Applied => commit_ts[t] # 0
    <3>1. /\ commit_ts[t] < next_ts /\ snap_ts[t] <= read_ts
          /\ \A k \in DOMAIN writes[t] : writes[t][k] \in {t, None}
          /\ \A u \in Txn : t # u /\ commit_ts[t] # 0 =>
                commit_ts[t] # commit_ts[u]
          /\ t \in Mem!Applied => commit_ts[t] # 0
      BY <2>1 DEF Mem!Lifecycle
    <3>2. QED
      BY <2>2, <3>1
  <2>5. ASSUME NEW t \in Txn
        PROVE  /\ MemPc'[t] = "idle" =>
                     DOMAIN writes'[t] = {} /\ DOMAIN seen'[t] = {}
               /\ MemPc'[t] \in {"idle", "ended"}
               /\ MemOutcome'[t] = "none" <=> MemPc'[t] = "idle"
               /\ t \in Mem!Applied' => commit_ts'[t] # 0
               /\ \A k \in DOMAIN writes'[t] : writes'[t][k] \in {t, None}
    BY <1>2, <1>4, <1>5, <1>6, <1>7, <2>4
  <2>6. ASSUME NEW t \in Txn
        PROVE  /\ commit_ts'[t] < next_ts' /\ snap_ts'[t] <= read_ts'
               /\ \A u \in Txn : t # u /\ commit_ts'[t] # 0 =>
                     commit_ts'[t] # commit_ts'[u]
    BY <1>2, <1>3, <2>4
  <2>7. QED
    BY <2>3, <2>5, <2>6 DEF Mem!Lifecycle
<1>11. Mem!LocksAscending'
  BY <1>3, MemConstants DEF Mem!LocksAscending
<1>12. Mem!ChainsAscending'
  BY <1>3, <1>8 DEF MemAlways, Mem!ChainsAscending
<1>13. Mem!FirstCommitterWins' /\ Mem!WritersSerializable'
  <2>1. Mem!Applied' \subseteq Txn /\ Mem!Applied' \subseteq Mem!Applied
    BY <1>4, <1>7 DEF Mem!Applied
  <2>2. \A u \in Mem!Applied' :
              /\ writes'[u] = writes[u] /\ seen'[u] = seen[u]
              /\ commit_ts'[u] = commit_ts[u] /\ snap_ts'[u] = snap_ts[u]
              /\ kind'[u] = kind[u]
    BY <1>2, <1>3, <1>7, <2>1
  <2>3. QED
    BY <1>8, <2>1, <2>2, HistoryShrinks DEF MemAlways
<1>14. QED
  BY <1>3, <1>9, <1>10, <1>11, <1>12, <1>13 DEF MemInv, MemAlways

-----------------------------------------------------------------------------
(* Replay *)

\* The sets of n elements on which f is one-to-one can be sorted by f.
Sortable(f, n) ==
    \A S : /\ IsFiniteSet(S) /\ Cardinality(S) = n
           /\ \A x \in S : f[x] \in Nat
           /\ \A x, y \in S : f[x] = f[y] => x = y
           => \E s \in [1..n -> S] :
                \A i, j \in 1..n : i < j => f[s[i]] < f[s[j]]

\* By induction, in the form of a least counterexample: take the least element
\* and sort the others.
LEMMA SortedExists ==
    ASSUME NEW f, NEW n \in Nat
    PROVE  Sortable(f, n)
<1> DEFINE Bad == {m \in Nat : ~Sortable(f, m)}
<1>1. SUFFICES ASSUME Bad # {}
               PROVE  FALSE
  OBVIOUS
<1>2. PICK m \in Bad : \A k \in Bad : m <= k
  <2>1. Bad \in SUBSET Nat
    OBVIOUS
  <2>2. QED
    <3> HIDE DEF Bad
    <3> QED
      BY <1>1, <2>1, LeastNat
<1>3. m \in Nat /\ ~Sortable(f, m) /\ (m # 0 => Sortable(f, m - 1))
  <2>1. m \in Nat /\ ~Sortable(f, m)
    BY <1>2
  <2>2. ASSUME m # 0
        PROVE  Sortable(f, m - 1)
    <3>1. m - 1 \in Nat /\ ~(m <= m - 1)
      BY <2>1, <2>2
    <3>2. QED
      BY <1>2, <3>1
  <2>3. QED
    BY <2>1, <2>2
<1> HIDE DEF Bad
<1>4. PICK S : /\ IsFiniteSet(S) /\ Cardinality(S) = m
               /\ \A x \in S : f[x] \in Nat
               /\ \A x, y \in S : f[x] = f[y] => x = y
               /\ ~\E s \in [1..m -> S] :
                      \A i, j \in 1..m : i < j => f[s[i]] < f[s[j]]
  BY <1>3, Zenon DEF Sortable
<1>5. CASE m = 0
  <2>1. [i \in 1..m |-> 0] \in [1..m -> S] /\ \A i \in 1..m : FALSE
    BY <1>5
  <2>2. QED
    BY <1>4, <2>1
<1>6. CASE m # 0
  <2>1. S # {}
    BY <1>4, <1>6, FS_EmptySet
  <2> DEFINE F == {f[x] : x \in S}
  <2>2. F \in SUBSET Nat /\ F # {}
    BY <1>4, <2>1
  <2>3. PICK least \in F : \A y \in F : least <= y
    <3> HIDE DEF F
    <3> QED
      BY <2>2, LeastNat
  <2>4. PICK x \in S : \A y \in S : f[x] <= f[y]
    BY <2>3
  <2> DEFINE T == S \ {x}
  <2>5. IsFiniteSet(T) /\ Cardinality(T) = m - 1
    BY <1>3, <1>4, FS_RemoveElement
  <2>6. PICK r \in [1..(m - 1) -> T] :
            \A i, j \in 1..(m - 1) : i < j => f[r[i]] < f[r[j]]
    <3>1. /\ \A y \in T : f[y] \in Nat
          /\ \A y, z \in T : f[y] = f[z] => y = z
      BY <1>4
    <3>2. Sortable(f, m - 1)
      BY <1>3, <1>6
    <3> HIDE DEF T
    <3> QED
      BY <2>5, <3>1, <3>2, Zenon DEF Sortable
  <2>7. \A y \in T : f[x] < f[y]
    <3>1. ASSUME NEW y \in T
          PROVE  f[x] < f[y]
      <4>1. y \in S /\ y # x /\ f[x] <= f[y] /\ f[x] # f[y]
        BY <1>4, <2>4
      <4>2. QED
        BY <1>4, <4>1
    <3>2. QED
      BY <3>1
  <2> DEFINE s == [i \in 1..m |-> IF i = 1 THEN x ELSE r[i - 1]]
  <2>8. \A i \in 1..m : i # 1 => i - 1 \in 1..(m - 1)
    BY <1>3
  <2>9. s \in [1..m -> S]
    BY <2>6, <2>8
  <2>10. ASSUME NEW i \in 1..m, NEW j \in 1..m, i < j
         PROVE  f[s[i]] < f[s[j]]
    <3>1. j # 1 /\ j - 1 \in 1..(m - 1) /\ s[j] = r[j - 1] /\ r[j - 1] \in T
      BY <2>6, <2>8, <2>10
    <3>2. CASE i = 1
      BY <2>7, <3>1, <3>2
    <3>3. CASE i # 1
      <4>1. i - 1 \in 1..(m - 1) /\ s[i] = r[i - 1] /\ i - 1 < j - 1
        BY <1>3, <2>8, <2>10, <3>3
      <4>2. QED
        BY <2>6, <3>1, <4>1
    <3>4. QED
      BY <3>2, <3>3
  <2>11. QED
    BY <1>4, <2>9, <2>10
<1>7. QED
  BY <1>5, <1>6

\* A strictly sorted sequence that is as long as the set leaves out none of it.
LEMMA SortedIsOnto ==
    ASSUME NEW S, IsFiniteSet(S), NEW f, \A x \in S : f[x] \in Nat,
           NEW s \in [1..Cardinality(S) -> S],
           \A i, j \in 1..Cardinality(S) : i < j => f[s[i]] < f[s[j]]
    PROVE  \A x \in S : \E i \in 1..Cardinality(S) : s[i] = x
<1> DEFINE n == Cardinality(S)
<1>1. n \in Nat
  BY FS_CardinalityType
<1>2. ASSUME NEW i \in 1..n, NEW j \in 1..n, s[i] = s[j]
      PROVE  i = j
  <2>1. s[i] \in S /\ s[j] \in S
    OBVIOUS
  <2>2. ~(f[s[i]] < f[s[j]]) /\ ~(f[s[j]] < f[s[i]])
    BY <1>2, <2>1
  <2>3. QED
    BY <1>1, <2>2
<1>3. s \in Injection(1..n, S)
  BY <1>2 DEF Injection, IsInjective
<1>4. Cardinality(1..n) = n
  BY <1>1, FS_Interval
<1>5. s \in Surjection(1..n, S)
  BY <1>3, <1>4, FS_Injection
<1>6. QED
  BY <1>5 DEF Surjection

\* The order of Db::open, by commit timestamp, puts every record in its place.
LEMMA ReplaySorted ==
    ASSUME LogType, LogTimestampsUnique, NEW S \in SUBSET DOMAIN log
    PROVE  LET s == ReplayOrder(S)
           IN  \E n \in Nat :
                 /\ s \in [1..n -> S] /\ DOMAIN s = 1..n
                 /\ \A i, j \in 1..n : i < j =>
                       log[s[i]].commit_ts < log[s[j]].commit_ts
                 /\ \A x \in S : \E i \in 1..n : s[i] = x
<1> DEFINE f == [i \in DOMAIN log |-> log[i].commit_ts]
           n == Cardinality(S)
           Before(i, j) == \/ log[i].commit_ts < log[j].commit_ts
                           \/ log[i].commit_ts = log[j].commit_ts /\ i < j
           Good(s) == \A i, j \in DOMAIN s : i < j => Before(s[i], s[j])
<1>1. /\ Len(log) \in Nat /\ DOMAIN log = 1..Len(log)
      /\ \A i \in DOMAIN log : log[i].commit_ts \in Nat
  BY LogElement
<1>2. IsFiniteSet(S) /\ n \in Nat
  <2>1. IsFiniteSet(DOMAIN log)
    BY <1>1, FS_Interval
  <2>2. QED
    BY <2>1, FS_Subset, FS_CardinalityType
<1>3. /\ \A x \in S : f[x] \in Nat /\ f[x] = log[x].commit_ts
      /\ \A x, y \in S : f[x] = f[y] => x = y
  BY <1>1 DEF LogTimestampsUnique
<1>4. \E s \in [1..n -> S] : Good(s)
  <2>1. PICK s \in [1..n -> S] :
            \A i, j \in 1..n : i < j => f[s[i]] < f[s[j]]
    <3> HIDE DEF f
    <3>1. Sortable(f, n)
      BY <1>2, SortedExists
    <3>2. QED
      BY <1>2, <1>3, <3>1, Zenon DEF Sortable
  <2>2. Good(s)
    BY <1>3, <2>1
  <2>3. QED
    BY <2>2
<1>5. ReplayOrder(S) = CHOOSE s \in [1..n -> S] : Good(s)
  BY DEF ReplayOrder, InOrder
<1> DEFINE s == ReplayOrder(S)
<1>6. s \in [1..n -> S] /\ Good(s)
  <2> HIDE DEF Good
  <2> QED
    BY <1>4, <1>5
<1>7. ASSUME NEW i \in 1..n, NEW j \in 1..n, i < j
      PROVE  log[s[i]].commit_ts < log[s[j]].commit_ts
  <2>1. CASE log[s[i]].commit_ts < log[s[j]].commit_ts
    BY <2>1
  <2>2. CASE log[s[i]].commit_ts = log[s[j]].commit_ts /\ s[i] < s[j]
    <3>1. s[i] = s[j] /\ s[i] \in Nat
      BY <1>1, <1>6, <2>2 DEF LogTimestampsUnique
    <3>2. QED
      BY <2>2, <3>1
  <2>3. QED
    BY <1>6, <1>7, <2>1, <2>2
<1>8. \A x \in S : \E i \in 1..n : s[i] = x
  <2>1. \A i, j \in 1..n : i < j => f[s[i]] < f[s[j]]
    BY <1>3, <1>6, <1>7
  <2>2. /\ s \in [1..Cardinality(S) -> S]
        /\ \A i, j \in 1..Cardinality(S) : i < j => f[s[i]] < f[s[j]]
        /\ \A x \in S : f[x] \in Nat
    BY <1>3, <1>6, <2>1
  <2> HIDE DEF f, s
  <2>3. \A x \in S : \E i \in 1..Cardinality(S) : s[i] = x
    BY <1>2, <2>2, SortedIsOnto, Zenon
  <2>4. QED
    BY <2>3
<1>9. QED
  BY <1>2, <1>6, <1>7, <1>8

\* The chain of k after recovery: one version for every surviving write of k,
\* in ascending order.
LEMMA RecoveredChain ==
    ASSUME LogInv, RecordsApplied, Forgotten, MemAlways, ~up, NEW k \in Key
    PROVE  LET c == Recovered(k)
           IN  /\ c \in Seq(Mem!VersionOf(Txn \cup {None}))
               /\ Mem!Ascending(c)
               /\ \A i \in 1..Len(c) : \E u \in InMemory :
                     /\ k \in DOMAIN writes[u]
                     /\ c[i] = Version(commit_ts[u], writes[u][k])
               /\ \A u \in InMemory : k \in DOMAIN writes[u] =>
                     \E i \in 1..Len(c) :
                         c[i] = Version(commit_ts[u], writes[u][k])
<1> DEFINE S == {i \in DOMAIN log : k \in DOMAIN writes[log[i].txn]}
           s == ReplayOrder(S)
           c == Recovered(k)
           V == Mem!VersionOf(Txn \cup {None})
<1>1. PICK n \in Nat : /\ s \in [1..n -> S] /\ DOMAIN s = 1..n
                       /\ \A i, j \in 1..n : i < j =>
                             log[s[i]].commit_ts < log[s[j]].commit_ts
                       /\ \A x \in S : \E i \in 1..n : s[i] = x
  BY ReplaySorted DEF LogInv
<1>2. c = [i \in 1..n |->
              Version(log[s[i]].commit_ts, writes[log[s[i]].txn][k])]
  BY <1>1 DEF Recovered
<1> HIDE DEF s, c
<1>3. ASSUME NEW j \in S
      PROVE  /\ log[j].txn \in InMemory /\ log[j].txn \in Txn
             /\ commit_ts[log[j].txn] = log[j].commit_ts
             /\ k \in DOMAIN writes[log[j].txn]
             /\ Version(log[j].commit_ts, writes[log[j].txn][k]) \in V
             /\ log[j].commit_ts \in Nat
  <2>1. /\ log[j].txn \in InMemory /\ log[j].txn \in Txn
        /\ commit_ts[log[j].txn] = log[j].commit_ts
        /\ k \in DOMAIN writes[log[j].txn] /\ log[j].commit_ts \in Nat
    BY LogElement DEF RecordsApplied, LogInv
  <2>2. writes[log[j].txn] \in Mem!PartialFcn(Key, Txn \cup {None})
    BY <2>1 DEF MemAlways, Mem!TypeOK
  <2>3. writes[log[j].txn][k] \in Txn \cup {None}
    BY <2>1, <2>2 DEF Mem!PartialFcn
  <2>4. QED
    BY <2>1, <2>3 DEF Version, Mem!VersionOf
<1>4. /\ c \in Seq(V) /\ Len(c) = n
      /\ \A i \in 1..n : c[i] = Version(log[s[i]].commit_ts,
                                        writes[log[s[i]].txn][k])
  <2>1. \A i \in 1..n : s[i] \in S
    BY <1>1
  <2>2. c \in [1..n -> V]
    BY <1>2, <1>3, <2>1
  <2>3. c \in Seq(V)
    <3> HIDE DEF V
    <3> QED
      BY <1>1, <2>2, SeqDef
  <2>4. Len(c) = n
    <3>1. Len(c) \in Nat /\ DOMAIN c = 1..Len(c)
      <4> HIDE DEF V
      <4> QED
        BY <2>3, LenProperties
    <3>2. DOMAIN c = 1..n
      BY <1>2
    <3>3. \A a, b \in Nat : 1..a = 1..b => a = b
      <4>1. \A a, b \in Nat : a < b => b \in 1..b /\ b \notin 1..a
        OBVIOUS
      <4>2. QED
        BY <4>1
    <3>4. QED
      BY <3>1, <3>2, <3>3
  <2>5. QED
    BY <1>2, <2>3, <2>4
<1>5. Mem!Ascending(c)
  <2>1. ASSUME NEW i \in 1..(n - 1)
        PROVE  c[i].commit_ts < c[i + 1].commit_ts
    <3>1. i \in 1..n /\ i + 1 \in 1..n /\ i < i + 1
      BY <2>1
    <3>2. QED
      BY <1>1, <1>4, <3>1 DEF Version
  <2>2. QED
    BY <1>4, <2>1 DEF Mem!Ascending
<1>6. \A i \in 1..n : \E u \in InMemory :
          k \in DOMAIN writes[u] /\ c[i] = Version(commit_ts[u], writes[u][k])
  BY <1>1, <1>3, <1>4
<1>7. ASSUME NEW u \in InMemory, k \in DOMAIN writes[u]
      PROVE  \E i \in 1..n : c[i] = Version(commit_ts[u], writes[u][k])
  <2>1. u \in Logged
    BY DEF Forgotten, InMemory
  <2>2. PICK j \in S : log[j].txn = u
    BY <1>7, <2>1 DEF Logged
  <2>3. PICK i \in 1..n : s[i] = j
    BY <1>1
  <2>4. QED
    BY <1>3, <1>4, <2>2, <2>3
<1>8. QED
  BY <1>4, <1>5, <1>6, <1>7 DEF c

\* The history is the same for both views of the database.
LEMMA MemApplied == Mem!Applied = InMemory
BY MemState DEF Mem!Applied, InMemory

\* What is left lies at or below the timestamp the oracle resumes after.
LEMMA SurvivorsBelow ==
    ASSUME LogInv, RecordsApplied, Fates, Forgotten, MemAlways, ~up,
           NEW t \in Txn
    PROVE  /\ Highest \in Nat /\ Highest <= MaxTs
           /\ commit_ts[t] \in Nat /\ snap_ts[t] \in Nat
           /\ commit_ts[t] <= Highest /\ snap_ts[t] <= Highest
<1>1. /\ Highest \in Nat /\ (Highest = 0 \/ Highest < next_ts)
      /\ \A i \in 1..Len(log) : log[i].commit_ts <= Highest
  BY HighestBound DEF LogInv, LogOrder
<1>2. commit_ts[t] \in Nat /\ snap_ts[t] \in Nat
  BY DEF MemAlways, Mem!TypeOK
<1>3. next_ts \in Nat /\ next_ts <= MaxTs + 1
  BY DEF MemAlways, Mem!TypeOK, Mem!Lifecycle
<1>4. Highest <= MaxTs
  BY <1>1, <1>3, MaxTsAssumption
<1>5. CASE t \in InMemory
  <2>1. PICK i \in 1..Len(log) : log[i].txn = t
    BY <1>5, LogElement DEF Forgotten, Logged, LogInv
  <2>2. commit_ts[t] <= Highest
    BY <1>1, <2>1 DEF RecordsApplied
  <2>3. commit_ts[t] # 0
    BY <1>5, MemApplied DEF MemAlways, Mem!Lifecycle
  <2>4. snap_ts[t] < commit_ts[t]
    BY <2>3 DEF Fates
  <2>5. QED
    BY <1>1, <1>2, <1>4, <2>2, <2>4
<1>6. CASE t \notin InMemory
  BY <1>1, <1>2, <1>4, <1>6 DEF Forgotten
<1>7. QED
  BY <1>5, <1>6

\* Db::open: the newest version of a recovered chain is the last surviving
\* write of its key, and whoever reads after recovery reads it.
LEMMA RecoveredValue ==
    ASSUME LogInv, RecordsApplied, Fates, Forgotten, MemAlways, ~up,
           NEW k \in Key, NEW ts \in Nat, Highest <= ts,
           NEW at \in Nat, Highest <= at
    PROVE  visible_value(Recovered(k), ts) = Mem!ValueAt(k, at)
<1> DEFINE c == Recovered(k)
           V == Txn \cup {None}
<1>1. /\ c \in Seq(Mem!VersionOf(V)) /\ Mem!Ascending(c)
      /\ \A i \in 1..Len(c) : \E u \in InMemory :
            /\ k \in DOMAIN writes[u]
            /\ c[i] = Version(commit_ts[u], writes[u][k])
      /\ \A u \in InMemory : k \in DOMAIN writes[u] =>
            \E i \in 1..Len(c) : c[i] = Version(commit_ts[u], writes[u][k])
  BY RecoveredChain
<1> HIDE DEF c
<1>2. \A u \in Txn : /\ commit_ts[u] \in Nat /\ commit_ts[u] <= Highest
                     /\ Highest \in Nat
  BY SurvivorsBelow
<1>3. Mem!Writers(k, at) = {u \in InMemory : k \in DOMAIN writes[u]}
  BY <1>2, MemApplied DEF Mem!Writers, InMemory
<1>4. Len(c) \in Nat
  BY <1>1, LenProperties
<1>5. CASE c = <<>>
  <2>1. Mem!Writers(k, at) = {}
    <3>1. \A i \in 1..Len(c) : FALSE
      BY <1>5
    <3>2. QED
      BY <1>1, <1>3, <3>1
  <2>2. Mem!ValueAt(k, at) = None
    BY <2>1 DEF Mem!ValueAt, Mem!LastWriter
  <2>3. Mem!visible_value(c, ts) = None
    BY <1>5, Mem!EmptyVisible, MemAssumptions
  <2>4. QED
    BY <2>2, <2>3, MemChains DEF c
<1>6. CASE c # <<>>
  <2>1. Len(c) \in 1..Len(c)
    BY <1>1, <1>4, <1>6, EmptySeq
  <2>2. PICK w \in InMemory :
            /\ k \in DOMAIN writes[w]
            /\ c[Len(c)] = Version(commit_ts[w], writes[w][k])
    BY <1>1, <2>1
  <2>3. w \in Txn /\ InMemory \subseteq Txn
    BY DEF InMemory
  <2>4. ASSUME NEW u \in InMemory, k \in DOMAIN writes[u], u # w
        PROVE  commit_ts[u] < commit_ts[w]
    <3>1. PICK i \in 1..Len(c) : c[i] = Version(commit_ts[u], writes[u][k])
      BY <1>1, <2>4
    <3>2. commit_ts[u] # 0 /\ commit_ts[u] # commit_ts[w]
      BY <2>3, <2>4, MemApplied DEF MemAlways, Mem!Lifecycle
    <3>3. i < Len(c)
      <4>1. c[i].commit_ts = commit_ts[u] /\ c[Len(c)].commit_ts = commit_ts[w]
        BY <2>2, <3>1 DEF Version
      <4>2. i # Len(c)
        BY <3>2, <4>1
      <4>3. QED
        BY <1>4, <4>2
    <3>4. c[i].commit_ts < c[Len(c)].commit_ts
      BY <1>1, <2>1, <3>3, Mem!AscendingPairs, MemAssumptions
    <3>5. QED
      BY <2>2, <3>1, <3>4 DEF Version
  <2>5. Mem!LastWriter(k, at) = {w}
    <3>1. w \in Mem!LastWriter(k, at)
      <4>1. \A v \in Mem!Writers(k, at) : commit_ts[v] <= commit_ts[w]
        BY <1>2, <1>3, <2>3, <2>4
      <4>2. QED
        BY <1>3, <2>2, <4>1 DEF Mem!LastWriter
    <3>2. ASSUME NEW v \in Mem!LastWriter(k, at), v # w
          PROVE  FALSE
      <4>1. v \in InMemory /\ k \in DOMAIN writes[v]
            /\ commit_ts[w] <= commit_ts[v]
        BY <1>3, <2>2, <3>2 DEF Mem!LastWriter
      <4>2. QED
        BY <1>2, <2>3, <2>4, <3>2, <4>1
    <3>3. QED
      BY <3>1, <3>2
  <2>6. Mem!ValueAt(k, at) = writes[w][k]
    <3>1. Mem!TheOne({w}) = w
      BY Zenon DEF Mem!TheOne
    <3>2. QED
      BY <2>5, <3>1 DEF Mem!ValueAt
  <2>7. Mem!visible_value(c, ts) = c[Len(c)].value
    <3>1. c[Len(c)].commit_ts <= ts
      BY <1>2, <2>2, <2>3 DEF Version
    <3>2. QED
      BY <1>1, <1>6, <3>1, Mem!NewestVisible, MemAssumptions
  <2>8. QED
    BY <2>2, <2>6, <2>7, MemChains DEF c, Version
<1>7. QED
  BY <1>5, <1>6

-----------------------------------------------------------------------------
(* What Db::open starts from *)

\* Nobody is at work when the database opens, and the oracle resumes after the
\* greatest timestamp in the log.
LEMMA OpenEffect ==
    ASSUME LogInv, Forgotten, MemAlways, Open
    PROVE  /\ ~up /\ up' /\ next_ts' = Highest + 1 /\ read_ts' = Highest
           /\ done_upto' = Highest /\ ahead' = {}
           /\ readers' = [ts \in {} |-> 0]
           /\ chains' = [k \in Key |-> Recovered(k)]
           /\ UNCHANGED <<lock, kind, snap_ts, writes, seen, commit_ts, gc, pc,
                          outcome, log, synced, MemPc, MemOutcome>>
           /\ \A t \in Txn : MemPc'[t] \in {"idle", "ended"}
           /\ Mem!Live' = {}
           /\ Mem!Held' = [t \in Txn |-> 0] /\ Mem!Snap' = [t \in Txn |-> 0]
           /\ Mem!Low' = [c \in Collector |-> 0]
<1>1. /\ ~up /\ up' /\ next_ts' = Highest + 1 /\ read_ts' = Highest
      /\ done_upto' = Highest /\ ahead' = {} /\ readers' = [ts \in {} |-> 0]
      /\ chains' = [k \in Key |-> Recovered(k)]
      /\ UNCHANGED <<lock, kind, snap_ts, writes, seen, commit_ts, gc, pc,
                     outcome, log, synced>>
  BY DEF Open, txnVars
<1>2. MemPc' = MemPc /\ MemOutcome' = MemOutcome
  BY <1>1 DEF MemPc, MemOutcome
<1>3. \A t \in Txn : MemPc'[t] \in {"idle", "ended"}
  BY <1>1, <1>2, MemState DEF LogInv, LogOrder
<1>4. Mem!Live' = {}
  BY <1>3 DEF Mem!Live
<1>5. Mem!Held' = [t \in Txn |-> 0] /\ Mem!Snap' = [t \in Txn |-> 0]
  BY <1>3, <1>4 DEF Mem!Held, Mem!Snap
<1>6. Mem!Low' = [c \in Collector |-> 0]
  BY <1>1 DEF Forgotten, Mem!Low, Resting
<1>7. QED
  BY <1>1, <1>2, <1>3, <1>4, <1>5, <1>6

\* The oracle's invariant holds when it resumes.
LEMMA OpenOracle ==
    ASSUME LogInv, Forgotten, MemAlways, Open
    PROVE  Mem!Contract!IInv'
<1>1. /\ next_ts' = Highest + 1 /\ read_ts' = Highest
      /\ done_upto' = Highest /\ ahead' = {} /\ readers' = [ts \in {} |-> 0]
      /\ Mem!Live' = {}
      /\ Mem!Held' = [t \in Txn |-> 0] /\ Mem!Snap' = [t \in Txn |-> 0]
      /\ Mem!Low' = [c \in Collector |-> 0]
  BY OpenEffect
<1>2. Highest \in Nat
  BY HighestBound DEF LogInv, LogOrder
<1>3. DOMAIN readers' = {} /\ \A x : x \notin DOMAIN readers'
  BY <1>1
<1>4. Mem!Contract!TypeOK'
  BY <1>1, <1>2, <1>3 DEF Mem!Contract!TypeOK
<1>5. Mem!Contract!WatermarkInv'
  <2>1. \A ts \in (Highest + 1)..(Highest + 1 - 1) : FALSE
    BY <1>2
  <2>2. QED
    BY <1>1, <1>2, <2>1
       DEF Mem!Contract!WatermarkInv, Mem!Contract!TimestampsUnique
<1>6. Mem!Contract!RegistryInv'
  <2>1. Mem!Contract!IsFiniteSet(Mem!Live)'
    <3>1. IsFiniteSet({})
      BY FS_EmptySet
    <3>2. QED
      BY <1>1, <3>1, Zenon DEF Mem!Contract!IsFiniteSet, IsFiniteSet
  <2>2. Mem!Contract!RegistryMatchesHandles'
    BY <1>1, <1>3 DEF Mem!Contract!RegistryMatchesHandles
  <2>3. Mem!Contract!NoReaderBelowSweep'
    BY <1>1, <1>2 DEF Mem!Contract!NoReaderBelowSweep
  <2>4. QED
    BY <1>1, <1>3, <2>1, <2>2, <2>3 DEF Mem!Contract!RegistryInv
<1>7. QED
  BY <1>4, <1>5, <1>6 DEF Mem!Contract!IInv

\* What holds of the database in memory holds of the one that is opened.
LEMMA OpenMem ==
    ASSUME LogInv, RecordsApplied, Fates, Forgotten, MemInv, Open
    PROVE  MemInv'
<1>1. /\ ~up /\ up' /\ next_ts' = Highest + 1 /\ read_ts' = Highest
      /\ done_upto' = Highest /\ ahead' = {} /\ readers' = [ts \in {} |-> 0]
      /\ chains' = [k \in Key |-> Recovered(k)]
      /\ UNCHANGED <<lock, kind, snap_ts, writes, seen, commit_ts, gc, pc,
                     outcome, log, synced, MemPc, MemOutcome>>
      /\ Mem!Live' = {}
  BY OpenEffect DEF MemInv
<1>2. MemAlways
  BY DEF MemInv
<1>3. /\ Highest \in Nat /\ (Highest = 0 \/ Highest < next_ts)
  BY HighestBound DEF LogInv, LogOrder
<1>4. Highest <= MaxTs
  <2>1. next_ts \in Nat /\ next_ts <= MaxTs + 1
    BY <1>2 DEF MemAlways, Mem!TypeOK, Mem!Lifecycle
  <2>2. QED
    BY <1>3, <2>1, MaxTsAssumption
<1>5. \A t \in Txn : /\ commit_ts[t] \in Nat /\ snap_ts[t] \in Nat
                     /\ commit_ts[t] <= Highest /\ snap_ts[t] <= Highest
  BY <1>1, <1>2, SurvivorsBelow
<1>6. \A k \in Key : /\ chains'[k] \in Seq(Mem!VersionOf(Txn \cup {None}))
                     /\ Mem!Ascending(chains'[k])
  BY <1>1, <1>2, RecoveredChain
<1>7. Mem!Applied' = Mem!Applied
  BY <1>1 DEF Mem!Applied
<1>8. Mem!TypeOK'
  <2>1. chains' \in [Key -> Seq([commit_ts : Nat, value : Txn \cup {None}])]
    BY <1>1, <1>6 DEF Mem!VersionOf
  <2>2. /\ next_ts' \in Nat /\ read_ts' \in Nat /\ done_upto' \in Nat
        /\ ahead' \in SUBSET Nat /\ DOMAIN readers' \in SUBSET Nat
        /\ \A ts \in DOMAIN readers' : readers'[ts] \in Nat \ {0}
    BY <1>1, <1>3
  <2>3. /\ lock' = lock /\ kind' = kind /\ snap_ts' = snap_ts /\ gc' = gc
        /\ writes' = writes /\ seen' = seen /\ commit_ts' = commit_ts
        /\ MemPc' = MemPc /\ MemOutcome' = MemOutcome
    BY <1>1
  <2>4. QED
    BY <1>2, <2>1, <2>2, <2>3, Zenon DEF MemAlways, Mem!TypeOK
<1>9. Mem!Lifecycle'
  <2>1. next_ts' <= MaxTs + 1
    BY <1>1, <1>3, <1>4, MaxTsAssumption
  <2>2. \A t \in Txn : commit_ts'[t] < next_ts' /\ snap_ts'[t] <= read_ts'
    BY <1>1, <1>3, <1>5
  <2>3. QED
    BY <1>1, <1>2, <1>7, <2>1, <2>2, Zenon DEF MemAlways, Mem!Lifecycle
<1>10. Mem!LocksAscending'
  BY <1>1, <1>2, Zenon DEF MemAlways, Mem!LocksAscending, Mem!reads
<1>11. Mem!ChainsAscending'
  BY <1>6 DEF Mem!ChainsAscending, Mem!Ascending
<1>12. Mem!FirstCommitterWins' /\ Mem!WritersSerializable'
  BY <1>1, <1>2, <1>7, HistoryShrinks DEF MemAlways
<1>13. Mem!Contract!IInv'
  BY <1>2, OpenOracle
<1>14. Mem!VersionKept'
  <2>1. \A u \in Mem!Applied' : u \in Txn
    BY DEF Mem!Applied
  <2>2. QED
    BY <1>1, <1>5, <2>1 DEF Mem!VersionKept
<1>15. Mem!Intact'
  <2>1. ASSUME NEW ts \in 0..MaxTs, Mem!Reachable(ts)', NEW k \in Key
        PROVE  Mem!visible_value(chains'[k], ts) = Mem!ValueAt(k, ts)'
    <3>1. ts \in Nat /\ Highest <= ts
      BY <1>1, <1>3, <2>1, MaxTsAssumption DEF Mem!Reachable
    <3>2. visible_value(Recovered(k), ts) = Mem!ValueAt(k, ts)
      BY <1>1, <1>2, <3>1, RecoveredValue
    <3>3. Mem!ValueAt(k, ts)' = Mem!ValueAt(k, ts)
      <4>1. Mem!Writers(k, ts)' = Mem!Writers(k, ts)
        BY <1>1, <1>7 DEF Mem!Writers
      <4>2. Mem!LastWriter(k, ts)' = Mem!LastWriter(k, ts)
        BY <1>1, <4>1 DEF Mem!LastWriter
      <4>3. QED
        BY <1>1, <4>2 DEF Mem!ValueAt
    <3>4. QED
      BY <1>1, <3>2, <3>3, MemChains
  <2>2. QED
    BY <2>1 DEF Mem!Intact
<1>16. QED
  BY <1>8, <1>9, <1>10, <1>11, <1>12, <1>13, <1>14, <1>15
     DEF MemInv, MemAlways

-----------------------------------------------------------------------------
(* The invariant of a durable database *)

\* The log, what its records and the handles say of each other, and the
\* invariant of the in-memory database under the mapping Mem.
DurableInv ==
    /\ LogInv
    /\ RecordsApplied
    /\ Fates
    /\ Forgotten
    /\ ReadsOnDisk
    /\ MemInv

\* Db::open of an empty log.
LEMMA DurableInvInit == DurableInit => DurableInv
<1> SUFFICES ASSUME DurableInit PROVE DurableInv
  OBVIOUS
<1>1. /\ Init /\ log = <<>> /\ synced = 0 /\ up = TRUE
      /\ pc = [t \in Txn |-> "idle"] /\ outcome = [t \in Txn |-> "none"]
      /\ seen = [t \in Txn |-> Nothing] /\ commit_ts = [t \in Txn |-> 0]
  BY DEF DurableInit, Init
<1>2. RecordsApplied
  BY <1>1 DEF RecordsApplied
<1>3. Fates /\ Forgotten
  BY <1>1 DEF Fates, Forgotten, Gone, is_fatal
<1>4. ReadsOnDisk
  BY <1>1 DEF ReadsOnDisk, Nothing
<1>5. MemPc = pc /\ MemOutcome = outcome
  BY <1>1 DEF MemPc, MemOutcome, Gone
<1>6. Mem!Init
  BY <1>1, <1>5, MemConstants DEF Init, Mem!Init, new, Mem!new, recovered,
     Mem!recovered, with_shards, Mem!with_shards
<1>7. Mem!DbInv
  BY <1>6, Mem!IInvInit, MemAssumptions
<1>8. MemInv
  BY <1>7 DEF Mem!DbInv, MemInv, MemAlways
<1>9. QED
  BY LogInit, <1>2, <1>3, <1>4, <1>8 DEF DurableInv

\* A crash, a recovery, or a step of the running database.
LEMMA DurableInvStep ==
    ASSUME DurableInv, [DurableNext]_durableVars
    PROVE  DurableInv'
<1>1. /\ LogInv /\ LogType /\ RecordsApplied /\ Fates /\ Forgotten
      /\ ReadsOnDisk /\ MemInv /\ MemAlways
  BY DEF DurableInv, LogInv, MemInv
<1>2. LogInv'
  BY <1>1, LogStep
<1>3. CASE Crash
  BY <1>1, <1>2, <1>3, CrashKeeps, CrashMem DEF DurableInv
<1>4. CASE Open
  <2>1. MemInv'
    BY <1>1, <1>4, OpenMem
  <2>2. up' /\ UNCHANGED <<seen, commit_ts, snap_ts, writes, pc, outcome, log,
                           synced>>
    BY <1>1, <1>4, OpenEffect
  <2>3. RecordsApplied' /\ Fates' /\ Forgotten' /\ ReadsOnDisk'
    BY <1>1, <2>2 DEF RecordsApplied, InMemory, Fates, Forgotten, ReadsOnDisk,
                      Failed
  <2>4. QED
    BY <1>2, <2>1, <2>3 DEF DurableInv
<1>5. CASE ~Crash /\ ~Open
  <2>1. RecordsApplied' /\ Fates' /\ ReadsOnDisk' /\ MemInv'
    BY <1>1, <1>5, RunKeeps, RunReads, MemRun
  <2>2. Forgotten'
    <3>1. CASE up
      <4>1. up'
        BY <1>5, <3>1 DEF DurableNext, durableVars, logVars, AppendRecord,
           WalAppend, SyncRecord, WalSync, AppendFails, DurableCommitDone
      <4>2. QED
        BY <4>1 DEF Forgotten
    <3>2. CASE ~up
      <4>1. UNCHANGED durableVars
        BY <1>5, <3>2 DEF DurableNext
      <4>2. UNCHANGED <<up, gc, outcome, writes, commit_ts, snap_ts, log>>
        BY <4>1 DEF durableVars, vars, logVars
      <4>3. QED
        BY <1>1, <4>2 DEF Forgotten, InMemory, Logged
    <3>3. QED
      BY <3>1, <3>2
  <2>3. QED
    BY <1>2, <2>1, <2>2 DEF DurableInv
<1>6. QED
  BY <1>3, <1>4, <1>5

\* The invariant of a durable database, through any number of crashes and
\* restarts: of its log, of what a crash leaves, and of the database in memory.
THEOREM DurableInvariance == DurableSpec => []DurableInv
<1>1. DurableInv /\ [DurableNext]_durableVars => DurableInv'
  BY DurableInvStep
<1>2. QED
  BY DurableInvInit, <1>1, PTL DEF DurableSpec

-----------------------------------------------------------------------------
(* What it promises *)

\* Isolation outlives crashes: of two survivors that wrote a common key one
\* has seen the other commit, and the serializable ones have a serial order,
\* whatever a crash took between them and however often the log was replayed.
THEOREM SurvivorsAreIsolated == DurableSpec => []SurvivorsIsolated
<1>1. Memory!FirstCommitterWins <=> Mem!FirstCommitterWins
  BY Zenon DEF Memory!FirstCommitterWins, Mem!FirstCommitterWins,
     Memory!Applied, Mem!Applied
<1>2. Memory!WritersSerializable <=> Mem!WritersSerializable
  BY Zenon DEF Memory!WritersSerializable, Mem!WritersSerializable,
     Memory!ValidatedWriters, Mem!ValidatedWriters, Memory!Applied,
     Mem!Applied, Memory!SerialOrderExists, Mem!SerialOrderExists,
     Memory!Precedes, Mem!Precedes
<1>3. DurableInv => SurvivorsIsolated
  BY <1>1, <1>2 DEF DurableInv, MemInv, MemAlways, SurvivorsIsolated
<1>4. QED
  BY <1>3, DurableInvariance, PTL

\* Db::open, CommitLog: no crash keeps a transaction and loses one it read
\* from.  A commit is visible only after its record is synced, so whatever a
\* record's transaction has read was on disk before the record was written.
THEOREM DependenciesAreKept == DurableSpec => []RecoveryKeepsDependencies
<1>1. DurableInv => RecoveryKeepsDependencies
  <2>1. SUFFICES ASSUME DurableInv, NEW t \in Logged, NEW k \in DOMAIN seen[t]
                 PROVE  \/ seen[t][k] = None \/ seen[t][k] \in Logged
                        \/ Failed(seen[t][k])
    BY DEF RecoveryKeepsDependencies
  <2>2. LogType /\ ReadsOnDisk
    BY <2>1 DEF DurableInv, LogInv
  <2>3. t \in Txn
    <3>1. PICK i \in DOMAIN log : t = log[i].txn
      BY DEF Logged
    <3>2. QED
      BY <2>2, <3>1, LogElement
  <2>4. \A i \in 1..synced : log[i].txn \in Logged
    <3>1. 1..synced \subseteq DOMAIN log
      BY <2>2 DEF LogType
    <3>2. QED
      BY <3>1 DEF Logged
  <2>5. QED
    BY <2>3, <2>2, <2>4 DEF ReadsOnDisk
<1>2. QED
  BY <1>1, DurableInvariance, PTL

\* The history says the same to both views of the database.
LEMMA MemValueAt ==
    ASSUME MemAlways, NEW k, NEW ts \in Nat
    PROVE  DurableValueAt(k, ts) = Mem!ValueAt(k, ts)
<1> DEFINE W == {u \in InMemory : k \in DOMAIN writes[u] /\ commit_ts[u] <= ts}
           Newest(u) == \A v \in W : commit_ts[v] <= commit_ts[u]
<1>1. Mem!Writers(k, ts) = W
  BY MemApplied DEF Mem!Writers
<1>2. \A u \in W : u \in Txn /\ commit_ts[u] \in Nat /\ commit_ts[u] <= ts
                   /\ commit_ts[u] # 0
  BY MemApplied DEF InMemory, MemAlways, Mem!TypeOK, Mem!Lifecycle
<1>3. Mem!LastWriter(k, ts) = {u \in W : Newest(u)}
  BY <1>1 DEF Mem!LastWriter
<1>4. CASE W = {}
  BY <1>3, <1>4 DEF DurableValueAt, Mem!ValueAt
<1>5. CASE W # {}
  <2> DEFINE T == {commit_ts[u] : u \in W}
  <2>1. T \in SUBSET Nat /\ T # {} /\ \A x \in T : x <= ts
    BY <1>2, <1>5
  <2>2. PICK m \in T : \A x \in T : x <= m
    <3> HIDE DEF T
    <3> QED
      BY <2>1, GreatestNat
  <2>3. PICK w \in W : Newest(w)
    BY <2>2
  <2>4. ASSUME NEW u \in W, Newest(u)
        PROVE  u = w
    <3>1. commit_ts[u] = commit_ts[w]
      BY <1>2, <2>3, <2>4
    <3>2. QED
      BY <1>2, <3>1 DEF MemAlways, Mem!Lifecycle
  <2>5. (CHOOSE u \in W : Newest(u)) = w
    <3> HIDE DEF W, Newest
    <3> QED
      BY <2>3, <2>4
  <2>6. DurableValueAt(k, ts) = writes[w][k]
    BY <1>5, <2>5 DEF DurableValueAt
  <2>7. Mem!LastWriter(k, ts) = {w} /\ Mem!TheOne({w}) = w
    <3>1. Mem!LastWriter(k, ts) = {w}
      <4> HIDE DEF W, Newest
      <4> QED
        BY <1>3, <2>3, <2>4
    <3>2. Mem!TheOne({w}) = w
      BY Zenon DEF Mem!TheOne
    <3>3. QED
      BY <3>1, <3>2
  <2>8. QED
    BY <2>6, <2>7 DEF Mem!ValueAt
<1>6. QED
  BY <1>4, <1>5

\* Db::open, Transaction::get: while the database runs, what a handle or a new
\* transaction reads is what the surviving and the new commits say.
THEOREM SnapshotsAreRecovered == DurableSpec => []RecoveredSnapshots
<1>1. DurableInv => RecoveredSnapshots
  <2>1. SUFFICES ASSUME DurableInv, up, NEW t \in Txn, NEW k \in Key, NEW ts,
                        ts = IF pc[t] \in {"idle", "ended"} THEN read_ts
                                                            ELSE snap_ts[t]
                 PROVE  visible_value(chains[k], ts) = DurableValueAt(k, ts)
    BY DEF RecoveredSnapshots
  <2>2. MemAlways /\ Mem!Contract!IInv /\ Mem!Intact
    BY <2>1 DEF DurableInv, MemInv
  <2>3. /\ read_ts \in Nat /\ next_ts \in Nat /\ snap_ts[t] \in Nat
        /\ next_ts <= MaxTs + 1 /\ snap_ts[t] <= read_ts
    BY <2>2 DEF MemAlways, Mem!TypeOK, Mem!Lifecycle
  <2>4. read_ts < next_ts
    BY <2>2, Mem!OracleFacts, MemAssumptions DEF MemAlways
  <2>5. ts \in 0..MaxTs
    BY <2>1, <2>3, <2>4, MaxTsAssumption
  <2>6. Mem!Reachable(ts)
    BY <2>1, <2>3, MemState DEF Mem!Reachable, Mem!Live
  <2>7. visible_value(chains[k], ts) = Mem!ValueAt(k, ts)
    BY <2>2, <2>5, <2>6, MemChains DEF Mem!Intact
  <2>8. QED
    BY <2>2, <2>5, <2>7, MemValueAt, MaxTsAssumption
<1>2. QED
  BY <1>1, DurableInvariance, PTL

\* Db::open: what begins right after recovery sees the last surviving write of
\* every key, whatever the order of the records in the file.
THEOREM RecoveryCompletes == DurableSpec => RecoveryIsComplete
<1>1. ASSUME DurableInv, [DurableNext]_durableVars, ~up, up', NEW k \in Key
      PROVE  visible_value(chains'[k], read_ts') = DurableValueAt(k, MaxTs)
  <2>1. /\ LogInv /\ RecordsApplied /\ Fates /\ Forgotten /\ MemAlways
    BY <1>1 DEF DurableInv, MemInv
  <2>2. Open
    BY <1>1 DEF DurableNext, Crash, durableVars, logVars
  <2>3. chains'[k] = Recovered(k) /\ read_ts' = Highest
    BY <2>1, <2>2, OpenEffect
  <2>4. Highest \in Nat /\ Highest <= MaxTs
    <3>1. Highest \in Nat /\ (Highest = 0 \/ Highest < next_ts)
      BY <2>1, HighestBound DEF LogInv, LogOrder
    <3>2. next_ts \in Nat /\ next_ts <= MaxTs + 1
      BY <2>1 DEF MemAlways, Mem!TypeOK, Mem!Lifecycle
    <3>3. QED
      BY <3>1, <3>2, MaxTsAssumption
  <2>5. visible_value(Recovered(k), Highest) = Mem!ValueAt(k, MaxTs)
    BY <1>1, <2>1, <2>4, RecoveredValue, MaxTsAssumption
  <2>6. QED
    BY <2>1, <2>3, <2>5, MemValueAt, MaxTsAssumption
<1>2. DurableInv /\ [DurableNext]_durableVars =>
          [~up /\ up' => \A k \in Key :
               visible_value(chains'[k], read_ts')
                   = DurableValueAt(k, MaxTs)]_durableVars
  BY <1>1
<1>3. QED
  BY <1>2, DurableInvariance, PTL DEF DurableSpec, RecoveryIsComplete

-----------------------------------------------------------------------------
(* The order of the records of one key *)

\* Only a handle that begins gets another snapshot.
LEMMA SnapshotsKept ==
    ASSUME LogInv, MemInv, [DurableNext]_durableVars, ~Crash, ~Open,
           NEW u \in Txn, pc[u] # "idle"
    PROVE  snap_ts'[u] = snap_ts[u]
<1>1. snap_ts \in [Txn -> Nat]
  BY DEF MemInv, MemAlways, Mem!TypeOK
<1>2. ASSUME NEW t \in Txn, Shared(t)
      PROVE  snap_ts'[u] = snap_ts[u]
  <2>1. ASSUME NEW knd \in Kind, Begin(t, knd)
        PROVE  snap_ts'[u] = snap_ts[u]
    BY <1>1, <2>1 DEF Begin
  <2>2. CASE \A knd \in Kind : ~Begin(t, knd)
    BY <1>2, <2>2 DEF Shared, Get, Put, Delete, Buffer, CommitReadOnly,
       Rollback, AllocCommitTs, Acquire, TryCommit, EndCommit, txnVars
  <2>3. QED
    BY <2>1, <2>2
<1>3. ASSUME NEW t \in Txn, \/ AppendRecord(t) \/ SyncRecord(t)
                            \/ AppendFails(t) \/ DurableCommitDone(t)
      PROVE  snap_ts'[u] = snap_ts[u]
  BY <1>3 DEF AppendRecord, SyncRecord, AppendFails, DurableCommitDone, Report
<1>4. ASSUME NEW c \in Collector, CollectBegin(c) \/ CollectShard(c)
      PROVE  snap_ts'[u] = snap_ts[u]
  BY <1>4 DEF CollectBegin, CollectShard, txnVars
<1>5. CASE UNCHANGED durableVars
  BY <1>5 DEF durableVars, vars
<1>6. QED
  BY <1>2, <1>3, <1>4, <1>5 DEF DurableNext

\* A record goes to the end of the log before its timestamp is reported, when
\* it lies above every snapshot.
LEMMA AppendAbove ==
    ASSUME DurableInv, up, LogAboveSnapshots, NEW t \in Txn, AppendRecord(t)
    PROVE  LogAboveSnapshots'
<1>1. /\ LogType /\ MemInv /\ Mem!TypeOK /\ Mem!Lifecycle /\ Mem!Contract!IInv
  BY DEF DurableInv, LogInv, MemInv, MemAlways
<1>2. /\ pc[t] = "decided" /\ log' = Append(log, Record(t))
      /\ UNCHANGED <<snap_ts, commit_ts>>
  BY DEF AppendRecord, WalAppend
<1>3. /\ Len(log) \in Nat
      /\ \A i \in 1..Len(log) : log[i].txn \in Txn
      /\ log \in Seq([txn : Txn, commit_ts : Nat])
      /\ Record(t) \in [txn : Txn, commit_ts : Nat]
      /\ Record(t).commit_ts = commit_ts[t]
  BY <1>1, LogElement DEF LogType, Record
<1>4. /\ Len(log') = Len(log) + 1
      /\ \A i \in 1..Len(log) : log'[i] = log[i]
      /\ log'[Len(log) + 1] = Record(t)
  BY <1>2, <1>3, AppendProperties
<1>5. \A u \in Txn : snap_ts[u] < commit_ts[t]
  <2>1. MemPc[t] = "decided"
    BY <1>2 DEF MemPc
  <2>2. commit_ts[t] # 0 /\ \A u \in Txn : snap_ts[u] <= read_ts
    BY <1>1, <2>1 DEF Mem!Lifecycle
  <2>3. read_ts < commit_ts[t]
    BY <1>1, <2>1, <2>2, Mem!OracleFacts, MemAssumptions
  <2>4. /\ read_ts \in Nat /\ commit_ts[t] \in Nat
        /\ \A u \in Txn : snap_ts[u] \in Nat
    BY <1>1 DEF Mem!TypeOK
  <2>5. QED
    BY <2>2, <2>3, <2>4
<1>6. ASSUME NEW i \in 1..Len(log'), NEW j \in 1..Len(log'), i < j
      PROVE  snap_ts'[log'[i].txn] < log'[j].commit_ts
  <2>1. i \in 1..Len(log) /\ log'[i] = log[i]
    BY <1>3, <1>4, <1>6
  <2>2. CASE j = Len(log) + 1
    BY <1>2, <1>3, <1>4, <1>5, <2>1, <2>2
  <2>3. CASE j \in 1..Len(log)
    BY <1>2, <1>4, <1>6, <2>1, <2>3 DEF LogAboveSnapshots
  <2>4. QED
    BY <1>3, <1>4, <2>2, <2>3
<1>7. QED
  BY <1>6 DEF LogAboveSnapshots

\* What is logged after a record lies above the snapshot its transaction had,
\* through crashes and recoveries.
LEMMA AboveStep ==
    ASSUME DurableInv, LogAboveSnapshots, [DurableNext]_durableVars
    PROVE  LogAboveSnapshots'
<1>1. /\ LogInv /\ LogType /\ RecordsApplied /\ Fates /\ Forgotten /\ MemInv
      /\ MemAlways /\ snap_ts \in [Txn -> Nat]
  BY DEF DurableInv, LogInv, MemInv, MemAlways, Mem!TypeOK
<1>2. /\ Len(log) \in Nat
      /\ \A i \in 1..Len(log) : log[i].txn \in Txn /\ log[i].commit_ts \in Nat
  BY <1>1, LogElement
<1>3. CASE Crash
  <2>1. PICK n \in Nat : n <= Len(log) /\ CrashLeaves(n)
                         /\ \A i \in 1..n : i \in 1..Len(log)
    BY <1>1, <1>3, CrashEffect
  <2>2. /\ Len(log') = n /\ \A i \in 1..n : log'[i] = log[i]
        /\ \A t \in Txn : snap_ts'[t] = IF Kept(t, n) THEN snap_ts[t] ELSE 0
    BY <2>1 DEF CrashLeaves
  <2>3. \A t \in Txn : snap_ts'[t] \in Nat /\ snap_ts'[t] <= snap_ts[t]
    BY <1>1, <2>2
  <2>4. ASSUME NEW i \in 1..n, NEW j \in 1..n, i < j
        PROVE  snap_ts'[log'[i].txn] < log'[j].commit_ts
    <3>1. /\ i \in 1..Len(log) /\ j \in 1..Len(log)
          /\ log'[i] = log[i] /\ log'[j] = log[j]
      BY <2>1, <2>2
    <3>2. snap_ts[log[i].txn] < log[j].commit_ts
      BY <2>4, <3>1 DEF LogAboveSnapshots
    <3>3. /\ snap_ts'[log[i].txn] \in Nat /\ snap_ts[log[i].txn] \in Nat
          /\ snap_ts'[log[i].txn] <= snap_ts[log[i].txn]
      BY <1>1, <1>2, <2>3, <3>1
    <3>4. QED
      BY <1>2, <3>1, <3>2, <3>3
  <2>5. QED
    BY <2>2, <2>4 DEF LogAboveSnapshots
<1>4. CASE Open
  <2>1. UNCHANGED <<snap_ts, log>>
    BY <1>1, <1>4, OpenEffect
  <2>2. QED
    BY <2>1 DEF LogAboveSnapshots
<1>5. ASSUME up, NEW t \in Txn, AppendRecord(t)
      PROVE  LogAboveSnapshots'
  BY <1>5, AppendAbove
<1>6. CASE ~Crash /\ ~Open /\ log' = log
  <2>1. \A i \in 1..Len(log) : snap_ts'[log[i].txn] = snap_ts[log[i].txn]
    <3>1. \A i \in 1..Len(log) : log[i].txn \in Txn /\ pc[log[i].txn] # "idle"
      BY <1>1, <1>2 DEF RecordsApplied
    <3>2. QED
      BY <1>1, <1>6, <3>1, SnapshotsKept
  <2>2. QED
    BY <1>6, <2>1 DEF LogAboveSnapshots
<1>7. QED
  <2>1. CASE \E t \in Txn : up /\ AppendRecord(t)
    BY <1>5, <2>1
  <2>2. CASE ~Crash /\ ~Open /\ ~\E t \in Txn : up /\ AppendRecord(t)
    <3>1. log' = log
      BY <2>2 DEF DurableNext, durableVars, logVars, SyncRecord, WalSync,
         AppendFails, DurableCommitDone
    <3>2. QED
      BY <1>6, <2>2, <3>1
  <2>3. QED
    BY <1>3, <1>4, <2>1, <2>2

\* CommitLog::append_committed: the records of one key are in the log in the
\* order of their timestamps, so no crash keeps a write and loses an earlier
\* one of the same key.  Of two that write it one had the other in its
\* snapshot, and nothing is logged that is in the snapshot of a record before.
THEOREM KeyRecordsAreInOrder == DurableSpec => []KeyRecordsInOrder
<1>1. DurableInit => LogAboveSnapshots
  BY DEF DurableInit, LogAboveSnapshots
<1>2. DurableInv /\ LogAboveSnapshots /\ [DurableNext]_durableVars
          => LogAboveSnapshots'
  BY AboveStep
<1>3. DurableInv /\ LogAboveSnapshots => KeyRecordsInOrder
  <2>1. SUFFICES ASSUME DurableInv, LogAboveSnapshots, NEW i \in DOMAIN log,
                        NEW j \in DOMAIN log, i < j,
                        DOMAIN writes[log[i].txn]
                            \cap DOMAIN writes[log[j].txn] # {}
                 PROVE  log[i].commit_ts < log[j].commit_ts
    BY DEF KeyRecordsInOrder
  <2> DEFINE t == log[i].txn
             u == log[j].txn
  <2>2. /\ LogType /\ RecordsApplied /\ LogTimestampsUnique /\ Fates
        /\ MemAlways
    BY <2>1 DEF DurableInv, LogInv, MemInv
  <2>3. /\ i \in 1..Len(log) /\ j \in 1..Len(log) /\ Len(log) \in Nat
        /\ t \in Txn /\ u \in Txn
        /\ log[i].commit_ts \in Nat /\ log[j].commit_ts \in Nat
    BY <2>2, LogElement
  <2>4. /\ t \in Mem!Applied /\ u \in Mem!Applied
        /\ commit_ts[t] = log[i].commit_ts /\ commit_ts[u] = log[j].commit_ts
    BY <2>2, <2>3, MemApplied DEF RecordsApplied
  <2>5. snap_ts[t] < commit_ts[u] /\ commit_ts[t] # commit_ts[u]
    <3>1. snap_ts[t] < commit_ts[u]
      BY <2>1, <2>3, <2>4 DEF LogAboveSnapshots
    <3>2. i # j
      BY <2>1, <2>3
    <3>3. log[i].commit_ts # log[j].commit_ts
      BY <2>1, <2>2, <3>2 DEF LogTimestampsUnique
    <3>4. QED
      BY <2>4, <3>1, <3>3
  <2>6. commit_ts[t] <= snap_ts[u] \/ commit_ts[u] <= snap_ts[t]
    <3>1. t # u
      BY <2>5
    <3>2. Mem!FirstCommitterWins
      BY <2>2 DEF MemAlways
    <3>3. QED
      BY <2>1, <2>4, <3>1, <3>2 DEF Mem!FirstCommitterWins
  <2>7. /\ snap_ts[t] \in Nat /\ snap_ts[u] \in Nat
        /\ snap_ts[u] < commit_ts[u]
    <3>1. snap_ts[t] \in Nat /\ snap_ts[u] \in Nat
      BY <2>2, <2>3 DEF MemAlways, Mem!TypeOK
    <3>2. commit_ts[u] # 0
      BY <2>2, <2>3, <2>4 DEF MemAlways, Mem!Lifecycle
    <3>3. QED
      BY <2>2, <2>3, <3>1, <3>2 DEF Fates
  <2>8. QED
    BY <2>3, <2>4, <2>5, <2>6, <2>7
<1>4. QED
  BY <1>1, <1>2, <1>3, DurableInvariance, PTL DEF DurableSpec

=============================================================================
