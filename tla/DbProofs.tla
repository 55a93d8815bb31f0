------------------------------ MODULE DbProofs ------------------------------
(***************************************************************************)
(* Proofs about Db for any set of keys, handles and collectors, any number *)
(* of shards and any bound on timestamps and operations: how it uses the   *)
(* oracle, its types and its locks.                                        *)
(***************************************************************************)
EXTENDS DbProperties, StoreProofs, FiniteSetTheorems, TLAPS

\* The theorems of OracleProofs, for the oracle as the database drives it.
Orc == INSTANCE OracleProofs WITH
    Committer <- Txn, Reader <- Txn,
    held <- Held, live <- Live, snap <- Snap, low <- Low

\* Contract and Orc are the same specification.
LEMMA ContractIsOrc ==
    /\ Contract!Init => Orc!Init
    /\ [Contract!Next]_(Contract!vars) => [Orc!Next]_(Orc!vars)
    /\ Contract!IInv <=> Orc!IInv
    /\ Contract!IInv' <=> Orc!IInv'
<1>1. Contract!Init => Orc!Init
  BY DEF Contract!Init, Orc!Init, Contract!recovered, Orc!recovered
<1>2. [Contract!Next]_(Contract!vars) => [Orc!Next]_(Orc!vars)
  <2>1. \A c \in Txn : Contract!Alloc(c) => Orc!Alloc(c)
    BY DEF Contract!Alloc, Orc!Alloc, Contract!alloc_commit_ts,
       Orc!alloc_commit_ts
  <2>2. \A c \in Txn : Contract!Finish(c) => Orc!Finish(c)
    BY Zenon DEF Contract!Finish, Orc!Finish, Contract!commit_done,
       Orc!commit_done, Contract!FirstGap, Orc!FirstGap
  <2>3. \A c \in Txn : Contract!Register(c) => Orc!Register(c)
    BY Zenon DEF Contract!Register, Orc!Register, Contract!begin_reader,
       Orc!begin_reader, Contract!ReaderCount, Orc!ReaderCount
  <2>4. \A c \in Txn : Contract!Unregister(c) => Orc!Unregister(c)
    BY Zenon DEF Contract!Unregister, Orc!Unregister, Contract!end_reader,
       Orc!end_reader, Contract!ReaderCount, Orc!ReaderCount
  <2>5. \A c \in Collector : Contract!SweepBegin(c) => Orc!SweepBegin(c)
    BY Zenon DEF Contract!SweepBegin, Orc!SweepBegin, Contract!low_watermark,
       Orc!low_watermark, Contract!oracleVars, Orc!oracleVars,
       Contract!Min, Orc!Min
  <2>6. \A c \in Collector : Contract!SweepEnd(c) => Orc!SweepEnd(c)
    BY Zenon DEF Contract!SweepEnd, Orc!SweepEnd, Contract!oracleVars,
       Orc!oracleVars
  <2>7. Contract!vars = Orc!vars /\ Contract!vars' = Orc!vars'
    BY Zenon DEF Contract!vars, Orc!vars
  <2>8. QED
    BY <2>1, <2>2, <2>3, <2>4, <2>5, <2>6, <2>7, Zenon
       DEF Contract!Next, Orc!Next
<1>3. Contract!IInv <=> Orc!IInv
  <2>1. Contract!TypeOK <=> Orc!TypeOK
    BY Zenon DEF Contract!TypeOK, Orc!TypeOK
  <2>2. Contract!WatermarkInv <=> Orc!WatermarkInv
    BY Zenon DEF Contract!WatermarkInv, Orc!WatermarkInv,
       Contract!TimestampsUnique, Orc!TimestampsUnique
  <2>3. Contract!RegistryInv <=> Orc!RegistryInv
    BY Zenon DEF Contract!RegistryInv, Orc!RegistryInv,
       Contract!RegistryMatchesHandles, Orc!RegistryMatchesHandles,
       Contract!NoReaderBelowSweep, Orc!NoReaderBelowSweep,
       Contract!IsFiniteSet, Orc!IsFiniteSet,
       Contract!Cardinality, Orc!Cardinality
  <2>4. QED
    BY <2>1, <2>2, <2>3 DEF Contract!IInv, Orc!IInv
<1>4. Contract!IInv' <=> Orc!IInv'
  <2>1. Contract!TypeOK' <=> Orc!TypeOK'
    BY Zenon DEF Contract!TypeOK, Orc!TypeOK
  <2>2. Contract!WatermarkInv' <=> Orc!WatermarkInv'
    BY Zenon DEF Contract!WatermarkInv, Orc!WatermarkInv,
       Contract!TimestampsUnique, Orc!TimestampsUnique
  <2>3. Contract!RegistryInv' <=> Orc!RegistryInv'
    BY Zenon DEF Contract!RegistryInv, Orc!RegistryInv,
       Contract!RegistryMatchesHandles, Orc!RegistryMatchesHandles,
       Contract!NoReaderBelowSweep, Orc!NoReaderBelowSweep,
       Contract!IsFiniteSet, Orc!IsFiniteSet,
       Contract!Cardinality, Orc!Cardinality
  <2>4. QED
    BY <2>1, <2>2, <2>3 DEF Contract!IInv, Orc!IInv
<1>5. QED
  BY <1>1, <1>2, <1>3, <1>4

-----------------------------------------------------------------------------
(* The use of the oracle *)

\* A new database starts as an oracle that has recovered nothing.
LEMMA ContractInit == Init => Contract!Init
<1> SUFFICES ASSUME Init PROVE Contract!Init
  OBVIOUS
<1>1. /\ Held = [t \in Txn |-> 0]
      /\ Live = {}
      /\ Snap = [t \in Txn |-> 0]
      /\ Low = [c \in Collector |-> 0]
  BY DEF Init, Resting, Held, Live, Snap, Low
<1>2. 0 \in 0..MaxTs
  BY MaxTsAssumption
<1>3. Contract!recovered(0)
  BY DEF Init, new, recovered, Contract!recovered
<1>4. QED
  BY <1>1, <1>2, <1>3 DEF Contract!Init

\* Db::begin, begin_serializable and snapshot register a reader.
LEMMA BeginRegisters ==
    ASSUME TypeOK, NEW t \in Txn, NEW knd \in Kind, Begin(t, knd)
    PROVE  Contract!Register(t)
<1>1. /\ pc[t] = "idle" /\ pc' = [pc EXCEPT ![t] = "active"]
      /\ snap_ts' = [snap_ts EXCEPT ![t] = read_ts]
      /\ begin_reader(read_ts) /\ UNCHANGED <<commit_ts, gc>>
  BY DEF Begin
<1>2. t \notin Live /\ Live' = Live \cup {t}
  BY <1>1 DEF TypeOK, Live
<1>3. Snap' = [Snap EXCEPT ![t] = read_ts]
  BY <1>1 DEF TypeOK, Live, Snap
<1>4. Held' = Held /\ Low' = Low
  BY <1>1 DEF TypeOK, Held, Low
<1>5. Contract!begin_reader(read_ts)
  BY <1>1, Zenon DEF begin_reader, Contract!begin_reader, ReaderCount,
     Contract!ReaderCount
<1>6. QED
  BY <1>2, <1>3, <1>4, <1>5 DEF Contract!Register

\* Every way a handle ends releases its reader: ActiveReader::drop.
LEMMA EndUnregisters ==
    ASSUME TypeOK, NEW t \in Txn, pc[t] \in {"active", "returning"},
           end_reader(snap_ts[t]), pc' = [pc EXCEPT ![t] = "ended"],
           UNCHANGED <<snap_ts, commit_ts, gc>>
    PROVE  Contract!Unregister(t)
<1>1. t \in Live /\ Live' = Live \ {t}
  BY DEF TypeOK, Live
<1>2. Snap' = [Snap EXCEPT ![t] = 0] /\ Snap[t] = snap_ts[t]
  BY DEF TypeOK, Live, Snap
<1>3. Held' = Held /\ Low' = Low
  BY DEF TypeOK, Held, Low
<1>4. Contract!end_reader(snap_ts[t])
  BY Zenon DEF end_reader, Contract!end_reader, ReaderCount,
     Contract!ReaderCount
<1>5. QED
  BY <1>1, <1>2, <1>3, <1>4 DEF Contract!Unregister

\* Inner::commit_writes takes a timestamp it does not hold yet.
LEMMA AllocAllocates ==
    ASSUME TypeOK, NEW t \in Txn, AllocCommitTs(t)
    PROVE  Contract!Alloc(t)
<1>1. /\ pc[t] = "active" /\ pc' = [pc EXCEPT ![t] = "committing"]
      /\ commit_ts' = [commit_ts EXCEPT ![t] = next_ts]
      /\ alloc_commit_ts(next_ts) /\ UNCHANGED <<snap_ts, gc>>
  BY DEF AllocCommitTs
<1>2. Held[t] = 0 /\ Held' = [Held EXCEPT ![t] = next_ts]
  BY <1>1 DEF TypeOK, Held
<1>3. Live' = Live /\ Snap' = Snap /\ Low' = Low
  BY <1>1 DEF TypeOK, Live, Snap, Low
<1>4. Contract!alloc_commit_ts(next_ts)
  BY <1>1, Zenon DEF alloc_commit_ts, Contract!alloc_commit_ts
<1>5. QED
  BY <1>2, <1>3, <1>4 DEF Contract!Alloc

\* Inner::commit_writes reports the timestamp it holds, and only once.
LEMMA DoneFinishes ==
    ASSUME TypeOK, Lifecycle, NEW t \in Txn, CommitDone(t)
    PROVE  Contract!Finish(t)
<1>1. /\ pc[t] = "decided" /\ pc' = [pc EXCEPT ![t] = "returning"]
      /\ commit_done(commit_ts[t]) /\ UNCHANGED <<snap_ts, commit_ts, gc>>
  BY DEF CommitDone, Report
<1>2. /\ Held[t] = commit_ts[t] /\ commit_ts[t] # 0
      /\ Held' = [Held EXCEPT ![t] = 0]
  BY <1>1 DEF TypeOK, Lifecycle, Held
<1>3. Live' = Live /\ Snap' = Snap /\ Low' = Low
  BY <1>1 DEF TypeOK, Live, Snap, Low
<1>4. Contract!commit_done(commit_ts[t])
  BY <1>1, Zenon DEF commit_done, Contract!commit_done, FirstGap,
     Contract!FirstGap
<1>5. QED
  BY <1>2, <1>3, <1>4 DEF Contract!Finish

\* Inner::collect_garbage reads the low watermark once per sweep.
LEMMA CollectBeginSweeps ==
    ASSUME TypeOK, Lifecycle, NEW c \in Collector, CollectBegin(c)
    PROVE  Contract!SweepBegin(c)
<1> DEFINE low == low_watermark
<1>1. /\ gc[c].left = {} /\ UNCHANGED <<oracleVars, txnVars>>
      /\ gc' = [gc EXCEPT ![c] = [low |-> low, left |-> Shard]]
  BY DEF CollectBegin
<1>2. low = Contract!low_watermark
  BY Zenon DEF low_watermark, Contract!low_watermark, Min, Contract!Min
<1> HIDE DEF low
<1>3. Low[c] = 0 /\ Low' = [Low EXCEPT ![c] = low]
  BY <1>1 DEF TypeOK, Lifecycle, Low
<1>4. Live' = Live /\ Snap' = Snap /\ Held' = Held
  BY <1>1 DEF txnVars, Live, Snap, Held
<1>5. UNCHANGED Contract!oracleVars
  BY <1>1, Zenon DEF oracleVars, Contract!oracleVars
<1>6. QED
  BY <1>2, <1>3, <1>4, <1>5 DEF Contract!SweepBegin

\* The sweep of the last shard ends with it; the others keep its watermark.
LEMMA CollectShardSweeps ==
    ASSUME TypeOK, NEW c \in Collector, CollectShard(c)
    PROVE  Contract!SweepEnd(c) \/ UNCHANGED Contract!vars
<1> DEFINE left == gc[c].left \ {Min(gc[c].left)}
<1>1. /\ UNCHANGED <<oracleVars, txnVars>>
      /\ gc' = [gc EXCEPT ![c] = IF left = {} THEN Resting
                                 ELSE [gc[c] EXCEPT !.left = left]]
  BY DEF CollectShard
<1> HIDE DEF left
<1>2. Live' = Live /\ Snap' = Snap /\ Held' = Held
  BY <1>1 DEF txnVars, Live, Snap, Held
<1>3. CASE left = {}
  <2>1. Low' = [Low EXCEPT ![c] = 0]
    BY <1>1, <1>3 DEF TypeOK, Low, Resting
  <2>2. QED
    BY <1>1, <1>2, <2>1 DEF Contract!SweepEnd, oracleVars, Contract!oracleVars
<1>4. CASE left # {}
  <2>1. Low' = Low
    BY <1>1, <1>4 DEF TypeOK, Low
  <2>2. QED
    BY <1>1, <1>2, <2>1 DEF Contract!vars, oracleVars
<1>5. QED
  BY <1>3, <1>4

\* A step that leaves the oracle, the registration of handles and the sweeps
\* alone.  What a commit does under its locks is one.
LEMMA OtherStutters ==
    ASSUME TypeOK, NEW t \in Txn,
           \/ \E k \in Key : Get(t, k) \/ Put(t, k) \/ Delete(t, k)
           \/ Acquire(t)
           \/ \E ok \in BOOLEAN : TryCommit(t, ok)
           \/ StoreFails(t)
    PROVE  /\ UNCHANGED <<oracleVars, snap_ts, commit_ts, gc>>
           /\ Live' = Live /\ Snap' = Snap /\ Held' = Held /\ Low' = Low
           /\ UNCHANGED Contract!vars
<1>1. /\ UNCHANGED <<oracleVars, snap_ts, commit_ts, gc>>
      /\ \/ pc' = pc
         \/ pc[t] = "committing" /\ pc' = [pc EXCEPT ![t] = "decided"]
  BY DEF Get, Put, Delete, Buffer, Acquire, TryCommit, StoreFails, txnVars
<1>2. Live' = Live /\ Snap' = Snap /\ Held' = Held /\ Low' = Low
  BY <1>1 DEF TypeOK, Live, Snap, Held, Low
<1>3. QED
  BY <1>1, <1>2 DEF Contract!vars, oracleVars

\* Every step of the database is one the oracle's contract allows.
LEMMA ContractStep ==
    ASSUME TypeOK, Lifecycle, [Next]_vars
    PROVE  [Contract!Next]_(Contract!vars)
<1>1. ASSUME NEW t \in Txn, NEW knd \in Kind, Begin(t, knd)
      PROVE  Contract!Next
  BY <1>1, BeginRegisters DEF Contract!Next
<1>2. ASSUME NEW t \in Txn, CommitReadOnly(t) \/ Rollback(t) \/ EndCommit(t)
      PROVE  Contract!Next
  <2>1. /\ pc[t] \in {"active", "returning"}
        /\ end_reader(snap_ts[t]) /\ pc' = [pc EXCEPT ![t] = "ended"]
        /\ UNCHANGED <<snap_ts, commit_ts, gc>>
    BY <1>2, Zenon DEF CommitReadOnly, Rollback, EndCommit
  <2>2. QED
    BY <2>1, EndUnregisters DEF Contract!Next
<1>3. ASSUME NEW t \in Txn, AllocCommitTs(t)
      PROVE  Contract!Next
  BY <1>3, AllocAllocates DEF Contract!Next
<1>4. ASSUME NEW t \in Txn, CommitDone(t)
      PROVE  Contract!Next
  BY <1>4, DoneFinishes DEF Contract!Next
<1>5. ASSUME NEW c \in Collector, CollectBegin(c)
      PROVE  Contract!Next
  BY <1>5, CollectBeginSweeps DEF Contract!Next
<1>6. ASSUME NEW c \in Collector, CollectShard(c)
      PROVE  Contract!Next \/ UNCHANGED Contract!vars
  BY <1>6, CollectShardSweeps DEF Contract!Next
<1>7. ASSUME NEW t \in Txn,
             \/ \E k \in Key : Get(t, k) \/ Put(t, k) \/ Delete(t, k)
             \/ Acquire(t)
             \/ \E ok \in BOOLEAN : TryCommit(t, ok)
             \/ StoreFails(t)
      PROVE  UNCHANGED Contract!vars
  BY <1>7, OtherStutters, Zenon
<1>8. CASE UNCHANGED vars
  BY <1>8 DEF vars, Contract!vars, Live, Snap, Held, Low
<1>9. QED
  BY <1>1, <1>2, <1>3, <1>4, <1>5, <1>6, <1>7, <1>8, Zenon
     DEF Next, CommitStep

\* So the invariant of the oracle holds of the database's oracle.
LEMMA ContractInvInit == Init => Contract!IInv
<1>1. Orc!Init => Orc!IInv
  BY MaxTsAssumption, Orc!TypeInit, Orc!WatermarkInit, Orc!RegistryInit
     DEF Orc!IInv
<1>2. QED
  BY <1>1, ContractInit, ContractIsOrc

\* ... and every step keeps it.
LEMMA ContractInvStep ==
    ASSUME TypeOK, Lifecycle, Contract!IInv, [Next]_vars
    PROVE  Contract!IInv'
<1>1. Orc!IInv /\ [Orc!Next]_(Orc!vars) => Orc!IInv'
  BY MaxTsAssumption, Orc!TypeStep, Orc!WatermarkStep, Orc!RegistryStep
     DEF Orc!IInv
<1>2. QED
  BY <1>1, ContractStep, ContractIsOrc

\* What the oracle's invariant says in terms of the database.
LEMMA OracleFacts ==
    ASSUME TypeOK, Contract!IInv
    PROVE  /\ read_ts < next_ts
           /\ \A t \in Txn : pc[t] \in {"committing", "decided"} /\
                             commit_ts[t] # 0 => read_ts < commit_ts[t]
           /\ \A t \in Live : snap_ts[t] <= read_ts
           /\ \A c \in Collector : gc[c].low <= read_ts
           /\ \A c \in Collector : \A t \in Live : gc[c].low <= snap_ts[t]
<1>1. read_ts < next_ts
  BY DEF Contract!IInv, Contract!WatermarkInv, TypeOK
<1>2. ASSUME NEW t \in Txn, pc[t] \in {"committing", "decided"},
             commit_ts[t] # 0
      PROVE  read_ts < commit_ts[t]
  <2>1. Held[t] = commit_ts[t]
    BY <1>2 DEF Held
  <2>2. QED
    BY <1>2, <2>1 DEF Contract!IInv, Contract!WatermarkInv
<1>3. \A t \in Live : t \in Txn /\ Snap[t] = snap_ts[t]
  BY DEF Snap, Live
<1>4. \A c \in Collector : Low[c] = gc[c].low
  BY DEF Low
<1>5. QED
  BY <1>1, <1>2, <1>3, <1>4
     DEF Contract!IInv, Contract!RegistryInv, Contract!NoReaderBelowSweep

\* The watermark and the timestamp counter never go back.
LEMMA OracleMonotone ==
    ASSUME TypeOK, Lifecycle, Contract!IInv, [Next]_vars
    PROVE  /\ read_ts' \in Nat /\ read_ts' >= read_ts
           /\ next_ts' \in Nat /\ next_ts' >= next_ts
<1>1. Orc!TypeOK /\ Orc!WatermarkInv /\ [Orc!Next]_(Orc!vars)
  BY ContractStep, ContractIsOrc DEF Orc!IInv
<1>2. read_ts \in Nat /\ next_ts \in Nat
  BY DEF TypeOK
<1>3. ASSUME NEW c \in Txn, Orc!Finish(c)
      PROVE  /\ read_ts' \in Nat /\ read_ts' >= read_ts /\ next_ts' = next_ts
  <2>1. read_ts' \in Nat /\ read_ts' >= read_ts
    BY <1>1, <1>3, MaxTsAssumption, Orc!FinishMonotone
  <2>2. next_ts' = next_ts
    BY <1>3 DEF Orc!Finish, Orc!commit_done
  <2>3. QED
    BY <2>1, <2>2
<1>4. CASE \E c \in Txn : Orc!Alloc(c)
  <2>1. read_ts' = read_ts /\ next_ts' = next_ts + 1
    BY <1>4 DEF Orc!Alloc, Orc!alloc_commit_ts
  <2>2. QED
    BY <1>2, <2>1
<1>5. CASE UNCHANGED <<read_ts, next_ts>>
  BY <1>2, <1>5
<1>6. CASE \/ \E r \in Txn : Orc!Register(r) \/ Orc!Unregister(r)
           \/ \E c \in Collector : Orc!SweepBegin(c) \/ Orc!SweepEnd(c)
           \/ UNCHANGED Orc!vars
  <2>1. UNCHANGED <<read_ts, next_ts>>
    BY <1>6, Zenon DEF Orc!vars, Orc!Register, Orc!begin_reader,
       Orc!Unregister, Orc!end_reader, Orc!SweepBegin, Orc!SweepEnd,
       Orc!oracleVars
  <2>2. QED
    BY <1>5, <2>1
<1>7. QED
  BY <1>1, <1>2, <1>3, <1>4, <1>6 DEF Orc!Next

-----------------------------------------------------------------------------
(* Types *)

\* One more key in a buffer.
LEMMA BufferInsert ==
    ASSUME NEW S, NEW T, NEW f \in PartialFcn(S, T), NEW k \in S, NEW v \in T
    PROVE  [j \in DOMAIN f \cup {k} |-> IF j = k THEN v ELSE f[j]]
               \in PartialFcn(S, T)
<1>1. PICK D \in SUBSET S : f \in [D -> T]
  BY DEF PartialFcn
<1>2. /\ D \cup {k} \in SUBSET S
      /\ [j \in DOMAIN f \cup {k} |-> IF j = k THEN v ELSE f[j]]
            \in [D \cup {k} -> T]
  BY <1>1
<1>3. QED
  BY <1>2, Zenon DEF PartialFcn

\* The keys and values of a buffer.
LEMMA BufferElement ==
    ASSUME NEW S, NEW T, NEW f \in PartialFcn(S, T)
    PROVE  DOMAIN f \subseteq S /\ \A k \in DOMAIN f : f[k] \in T
BY DEF PartialFcn

\* The empty buffer.
LEMMA NothingType ==
    ASSUME NEW S, NEW T
    PROVE  Nothing \in PartialFcn(S, T) /\ DOMAIN Nothing = {}
<1>1. Nothing \in [{} -> T] /\ {} \in SUBSET S /\ DOMAIN Nothing = {}
  BY DEF Nothing
<1>2. QED
  BY <1>1, Zenon DEF PartialFcn

\* The values a version can have.
Value == Txn \cup {None}

\* The part of TypeOK that is not the oracle's.
DataTypes ==
    /\ chains \in [Key -> Seq(VersionOf(Value))]
    /\ lock \in [Shard -> Value]
    /\ pc \in [Txn -> {"idle", "active", "committing", "decided",
                       "returning", "ended"}]
    /\ kind \in [Txn -> AllKinds \cup {"none"}]
    /\ snap_ts \in [Txn -> Nat]
    /\ writes \in [Txn -> PartialFcn(Key, Value)]
    /\ seen \in [Txn -> PartialFcn(Key, Value)]
    /\ commit_ts \in [Txn -> Nat]
    /\ outcome \in [Txn -> {"none", "ok", "rolled_back"} \cup Refused]
    /\ gc \in [Collector -> [low : Nat, left : SUBSET Shard]]

\* TypeOK in two parts.
LEMMA TypeParts ==
    /\ TypeOK => DataTypes
    /\ (TypeOK => DataTypes)'
    /\ Contract!IInv /\ DataTypes => TypeOK
    /\ (Contract!IInv /\ DataTypes => TypeOK)'
BY DEF TypeOK, DataTypes, VersionOf, Value, Contract!IInv, Contract!TypeOK

\* The errors that end a commit without applying it.
LEMMA RefusedErrors == Refused = {"conflict", "store"}
BY DEF Refused, TxnError, is_fatal

\* An empty database.
LEMMA TypeInit == Init => TypeOK
<1> SUFFICES ASSUME Init PROVE DataTypes
  BY ContractInvInit, TypeParts
<1>1. <<>> \in Seq(VersionOf(Value))
  BY EmptySeq
<1>2. Nothing \in PartialFcn(Key, Value)
  BY NothingType
<1>3. None \in Value
  BY DEF Value
<1>4. QED
  BY <1>1, <1>2, <1>3 DEF Init, with_shards, DataTypes, Resting

\* What try_commit pushes is a version.
LEMMA PushType ==
    ASSUME DataTypes, NEW t \in Txn
    PROVE  push(writes[t], commit_ts[t]) \in [Key -> Seq(VersionOf(Value))]
<1>1. SUFFICES ASSUME NEW k \in Key, k \in DOMAIN writes[t]
               PROVE  Append(chains[k], Version(commit_ts[t], writes[t][k]))
                          \in Seq(VersionOf(Value))
  BY DEF push, DataTypes
<1>2. chains[k] \in Seq(VersionOf(Value)) /\ commit_ts[t] \in Nat
  BY DEF DataTypes
<1>3. writes[t][k] \in Value
  BY <1>1, BufferElement DEF DataTypes
<1>4. Version(commit_ts[t], writes[t][k]) \in VersionOf(Value)
  BY <1>2, <1>3 DEF Version, VersionOf
<1>5. QED
  BY <1>2, <1>4, AppendProperties

\* Every step keeps the types.
LEMMA TypeStep ==
    ASSUME TypeOK, Lifecycle, ChainsAscending, Contract!IInv, [Next]_vars
    PROVE  TypeOK'
<1>1. DataTypes /\ Contract!IInv'
  BY TypeParts, ContractInvStep
<1>2. SUFFICES DataTypes'
  BY <1>1, TypeParts
<1>3. ASSUME NEW t \in Txn, NEW knd \in Kind, Begin(t, knd)
      PROVE  DataTypes'
  <2>1. knd \in AllKinds /\ read_ts \in Nat
    BY KindAssumption DEF TypeOK
  <2>2. QED
    BY <1>1, <1>3, <2>1 DEF Begin, DataTypes
<1>4. ASSUME NEW t \in Txn, NEW k \in Key, Get(t, k)
      PROVE  DataTypes'
  <2> DEFINE v == visible_value(chains[k], snap_ts[t])
             now == [j \in DOMAIN seen[t] \cup {k} |->
                        IF j = k THEN v ELSE seen[t][j]]
  <2>1. v \in Value
    BY <1>1, VisibleType DEF DataTypes, Value
  <2>2. /\ seen' = [seen EXCEPT ![t] = now]
        /\ UNCHANGED <<storeVars, pc, kind, snap_ts, writes, commit_ts,
                       outcome, gc>>
    BY <1>4 DEF Get, get
  <2> HIDE DEF v
  <2>3. now \in PartialFcn(Key, Value)
    <3>1. seen[t] \in PartialFcn(Key, Value)
      BY <1>1 DEF DataTypes
    <3>2. QED
      BY <2>1, <3>1, BufferInsert, Zenon
  <2> HIDE DEF now
  <2>4. QED
    BY <1>1, <2>2, <2>3 DEF DataTypes, storeVars
<1>5. ASSUME NEW t \in Txn, NEW k \in Key, Put(t, k) \/ Delete(t, k)
      PROVE  DataTypes'
  <2>1. PICK v \in Value : Buffer(t, k, v)
    BY <1>5 DEF Put, Delete, Value
  <2> DEFINE now == [j \in DOMAIN writes[t] \cup {k} |->
                        IF j = k THEN v ELSE writes[t][j]]
  <2>2. /\ writes' = [writes EXCEPT ![t] = now]
        /\ UNCHANGED <<storeVars, pc, kind, snap_ts, seen, commit_ts,
                       outcome, gc>>
    BY <2>1 DEF Buffer
  <2>3. now \in PartialFcn(Key, Value)
    <3>1. writes[t] \in PartialFcn(Key, Value)
      BY <1>1 DEF DataTypes
    <3>2. QED
      BY <3>1, BufferInsert, Zenon
  <2> HIDE DEF now
  <2>4. QED
    BY <1>1, <2>2, <2>3 DEF DataTypes, storeVars
<1>6. ASSUME NEW t \in Txn, CommitReadOnly(t)
      PROVE  DataTypes'
  BY <1>1, <1>6 DEF CommitReadOnly, DataTypes
<1>7. ASSUME NEW t \in Txn, Rollback(t)
      PROVE  DataTypes'
  BY <1>1, <1>7, NothingType DEF Rollback, DataTypes
<1>8. ASSUME NEW t \in Txn, AllocCommitTs(t)
      PROVE  DataTypes'
  <2>1. next_ts \in Nat
    BY DEF TypeOK
  <2>2. QED
    BY <1>1, <1>8, <2>1 DEF AllocCommitTs, DataTypes
<1>9. ASSUME NEW t \in Txn, Acquire(t)
      PROVE  DataTypes'
  <2>1. /\ \E s : lock' = [lock EXCEPT ![s] = t]
        /\ UNCHANGED <<chains, txnVars, gc>>
    BY <1>9 DEF Acquire, acquire_next
  <2>2. QED
    BY <1>1, <2>1 DEF DataTypes, txnVars, Value
<1>10. ASSUME NEW t \in Txn, NEW ok \in BOOLEAN, TryCommit(t, ok)
       PROVE  DataTypes'
  <2> DEFINE now == push(writes[t], commit_ts[t])
             res == IF ok THEN "ok" ELSE "conflict"
  <2>1. /\ chains' \in {chains, now}
        /\ lock' = release(t)
        /\ pc' = [pc EXCEPT ![t] = "decided"]
        /\ outcome' = [outcome EXCEPT ![t] = res]
        /\ UNCHANGED <<kind, snap_ts, writes, seen, commit_ts, gc>>
    BY <1>10 DEF TryCommit, try_commit
  <2>2. chains' \in [Key -> Seq(VersionOf(Value))]
    BY <1>1, <2>1, PushType DEF DataTypes
  <2>3. lock' \in [Shard -> Value]
    BY <1>1, <2>1 DEF release, DataTypes, Value
  <2>4. res \in {"none", "ok", "rolled_back"} \cup Refused
    BY RefusedErrors
  <2> HIDE DEF now, res
  <2>5. QED
    BY <1>1, <2>1, <2>2, <2>3, <2>4 DEF DataTypes
<1>11. ASSUME NEW t \in Txn, StoreFails(t)
       PROVE  DataTypes'
  <2>1. lock' \in [Shard -> Value]
    BY <1>1, <1>11 DEF StoreFails, release, DataTypes, Value
  <2>2. QED
    BY <1>1, <1>11, <2>1, RefusedErrors DEF StoreFails, DataTypes
<1>12. ASSUME NEW t \in Txn, CommitDone(t)
       PROVE  DataTypes'
  BY <1>1, <1>12 DEF CommitDone, Report, DataTypes
<1>13. ASSUME NEW t \in Txn, EndCommit(t)
       PROVE  DataTypes'
  <2>1. /\ pc' = [pc EXCEPT ![t] = "ended"]
        /\ writes' \in {writes, [writes EXCEPT ![t] = Nothing]}
        /\ seen' \in {seen, [seen EXCEPT ![t] = Nothing]}
        /\ UNCHANGED <<chains, lock, kind, snap_ts, commit_ts, outcome, gc>>
    BY <1>13 DEF EndCommit
  <2>2. Nothing \in PartialFcn(Key, Value)
    BY NothingType
  <2>3. writes' \in [Txn -> PartialFcn(Key, Value)]
    BY <1>1, <2>1, <2>2 DEF DataTypes
  <2>4. seen' \in [Txn -> PartialFcn(Key, Value)]
    BY <1>1, <2>1, <2>2 DEF DataTypes
  <2>5. QED
    BY <1>1, <2>1, <2>3, <2>4 DEF DataTypes
<1>14. ASSUME NEW c \in Collector, CollectBegin(c)
       PROVE  DataTypes'
  <2> DEFINE low == low_watermark
  <2>1. /\ gc' = [gc EXCEPT ![c] = [low |-> low, left |-> Shard]]
        /\ UNCHANGED <<storeVars, txnVars>>
    BY <1>14 DEF CollectBegin
  <2> HIDE DEF low
  <2>2. Low'[c] = low
    BY <1>1, <2>1 DEF Low, DataTypes
  <2>3. low \in Nat
    BY <1>1, <2>2 DEF Contract!IInv, Contract!TypeOK
  <2>4. QED
    BY <1>1, <2>1, <2>3 DEF DataTypes, storeVars, txnVars
<1>15. ASSUME NEW c \in Collector, CollectShard(c)
       PROVE  DataTypes'
  <2> DEFINE low == gc[c].low
             s == Min(gc[c].left)
  <2>1. /\ chains' = [k \in Key |-> IF shard_of(k) = s
                                    THEN retain(chains[k], low)
                                    ELSE chains[k]]
        /\ UNCHANGED <<lock, txnVars>>
        /\ \E left : left \subseteq gc[c].left /\
               gc' = [gc EXCEPT ![c] = IF left = {} THEN Resting
                                       ELSE [gc[c] EXCEPT !.left = left]]
    BY <1>15 DEF CollectShard, collect_shard
  <2>2. low \in Nat
    BY <1>1 DEF DataTypes
  <2>3. \A k \in Key : retain(chains[k], low) \in Seq(VersionOf(Value))
    BY <1>1, <2>2, RetainShape DEF ChainsAscending, Ascending, DataTypes
  <2>4. chains' \in [Key -> Seq(VersionOf(Value))]
    BY <1>1, <2>1, <2>3 DEF DataTypes
  <2>5. gc' \in [Collector -> [low : Nat, left : SUBSET Shard]]
    <3>1. PICK left : /\ left \subseteq gc[c].left
                      /\ gc' = [gc EXCEPT ![c] =
                                   IF left = {} THEN Resting
                                   ELSE [gc[c] EXCEPT !.left = left]]
      BY <2>1
    <3>2. /\ gc[c] \in [low : Nat, left : SUBSET Shard]
          /\ left \in SUBSET Shard
      BY <1>1, <3>1 DEF DataTypes
    <3>3. [gc[c] EXCEPT !.left = left] \in [low : Nat, left : SUBSET Shard]
      BY <3>2
    <3>4. Resting \in [low : Nat, left : SUBSET Shard]
      BY DEF Resting
    <3>5. QED
      BY <1>1, <3>1, <3>3, <3>4 DEF DataTypes
  <2>6. QED
    BY <1>1, <2>1, <2>4, <2>5 DEF DataTypes, txnVars
<1>16. CASE UNCHANGED vars
  BY <1>1, <1>16 DEF vars, DataTypes
<1>17. QED
  BY <1>3, <1>4, <1>5, <1>6, <1>7, <1>8, <1>9, <1>10, <1>11, <1>12, <1>13,
     <1>14, <1>15, <1>16 DEF Next, CommitStep

-----------------------------------------------------------------------------
(* The life of a handle *)

\* The parts of Lifecycle: timestamps, sweeps, and the stages of a handle.
Times ==
    /\ next_ts <= MaxTs + 1
    /\ \A t \in Txn : commit_ts[t] < next_ts /\ snap_ts[t] <= read_ts
    /\ \A t, u \in Txn : t # u /\ commit_ts[t] # 0 =>
           commit_ts[t] # commit_ts[u]

Sweeps == \A c \in Collector : gc[c].left = {} => gc[c].low = 0

Stage(t) ==
    /\ pc[t] = "idle" => DOMAIN writes[t] = {} /\ DOMAIN seen[t] = {}
    /\ pc[t] \in {"committing", "decided", "returning"} =>
          DOMAIN writes[t] # {} /\ commit_ts[t] # 0
    /\ outcome[t] = "none" <=> pc[t] \in {"idle", "active", "committing"}
    /\ outcome[t] = "ok" /\ DOMAIN writes[t] # {} => commit_ts[t] # 0
    /\ \A k \in DOMAIN writes[t] : writes[t][k] \in {t, None}

\* Lifecycle in parts.
LEMMA LifecycleParts ==
    /\ Lifecycle <=> Times /\ Sweeps /\ \A t \in Txn : Stage(t)
    /\ (Lifecycle <=> Times /\ Sweeps /\ \A t \in Txn : Stage(t))'
BY DEF Lifecycle, Times, Sweeps, Stage, Applied

\* A new database.
LEMMA LifecycleInit == Init => Lifecycle
<1> SUFFICES ASSUME Init PROVE Lifecycle
  OBVIOUS
<1>1. Times
  BY MaxTsAssumption DEF Init, new, recovered, Times
<1>2. Sweeps
  BY DEF Init, Resting, Sweeps
<1>3. ASSUME NEW t \in Txn
      PROVE  Stage(t)
  BY NothingType DEF Init, Stage
<1>4. QED
  BY <1>1, <1>2, <1>3, LifecycleParts

\* alloc_commit_ts gives a timestamp nobody has, begin_reader the watermark.
LEMMA TimesStep ==
    ASSUME TypeOK, Lifecycle, Contract!IInv, [Next]_vars
    PROVE  Times'
<1>1. /\ read_ts' \in Nat /\ read_ts' >= read_ts
      /\ next_ts' \in Nat /\ next_ts' >= next_ts
      /\ read_ts \in Nat /\ next_ts \in Nat /\ MaxTs \in Nat
      /\ commit_ts \in [Txn -> Nat] /\ snap_ts \in [Txn -> Nat]
      /\ Times
  BY OracleMonotone, LifecycleParts, MaxTsAssumption DEF TypeOK
<1>2. ASSUME NEW t \in Txn, NEW knd \in Kind, Begin(t, knd)
      PROVE  Times'
  <2>1. /\ snap_ts' = [snap_ts EXCEPT ![t] = read_ts]
        /\ UNCHANGED <<next_ts, read_ts, commit_ts>>
    BY <1>2 DEF Begin, begin_reader
  <2>2. QED
    BY <1>1, <2>1 DEF Times
<1>3. ASSUME NEW t \in Txn, AllocCommitTs(t)
      PROVE  Times'
  <2>1. /\ commit_ts' = [commit_ts EXCEPT ![t] = next_ts]
        /\ next_ts < MaxTs /\ next_ts' = next_ts + 1
        /\ UNCHANGED <<read_ts, snap_ts>>
    BY <1>3 DEF AllocCommitTs, alloc_commit_ts
  <2>2. QED
    BY <1>1, <2>1 DEF Times
<1>4. CASE UNCHANGED <<next_ts, snap_ts, commit_ts>>
  BY <1>1, <1>4 DEF Times
<1>5. ASSUME NEW t \in Txn,
             \/ \E k \in Key : Get(t, k) \/ Put(t, k) \/ Delete(t, k)
             \/ CommitReadOnly(t) \/ Rollback(t) \/ CommitStep(t)
      PROVE  UNCHANGED <<next_ts, snap_ts, commit_ts>>
  BY <1>5, Zenon DEF Get, Put, Delete, Buffer, CommitReadOnly, Rollback,
     CommitStep, Acquire, TryCommit, StoreFails, CommitDone, Report, EndCommit,
     end_reader, commit_done, oracleVars, txnVars
<1>6. ASSUME NEW c \in Collector, CollectBegin(c) \/ CollectShard(c)
      PROVE  UNCHANGED <<next_ts, snap_ts, commit_ts>>
  BY <1>6, Zenon DEF CollectBegin, CollectShard, oracleVars, txnVars
<1>7. QED
  BY <1>2, <1>3, <1>4, <1>5, <1>6, Zenon DEF Next, vars

\* A collector that rests holds no watermark.
LEMMA SweepsStep ==
    ASSUME TypeOK, Lifecycle, [Next]_vars
    PROVE  Sweeps'
<1>1. /\ gc \in [Collector -> [low : Nat, left : SUBSET Shard]]
      /\ Sweeps
  BY LifecycleParts DEF TypeOK
<1>2. ASSUME NEW c \in Collector, CollectBegin(c)
      PROVE  Sweeps'
  <2>1. PICK low : gc' = [gc EXCEPT ![c] = [low |-> low, left |-> Shard]]
    BY <1>2 DEF CollectBegin
  <2>2. QED
    BY <1>1, <2>1, ShardNat DEF Sweeps
<1>3. ASSUME NEW c \in Collector, CollectShard(c)
      PROVE  Sweeps'
  <2>1. PICK left : gc' = [gc EXCEPT ![c] =
                              IF left = {} THEN Resting
                              ELSE [gc[c] EXCEPT !.left = left]]
    BY <1>3 DEF CollectShard
  <2>2. QED
    BY <1>1, <2>1 DEF Sweeps, Resting
<1>4. CASE UNCHANGED gc
  BY <1>1, <1>4 DEF Sweeps
<1>5. ASSUME NEW t \in Txn,
             \/ \E knd \in Kind : Begin(t, knd)
             \/ \E k \in Key : Get(t, k) \/ Put(t, k) \/ Delete(t, k)
             \/ CommitReadOnly(t) \/ Rollback(t) \/ AllocCommitTs(t)
             \/ CommitStep(t)
      PROVE  UNCHANGED gc
  BY <1>5, Zenon DEF Begin, Get, Put, Delete, Buffer, CommitReadOnly, Rollback,
     AllocCommitTs, CommitStep, Acquire, TryCommit, StoreFails, CommitDone,
     Report, EndCommit
<1>6. QED
  BY <1>2, <1>3, <1>4, <1>5, Zenon DEF Next, vars

\* The variables Stage depends on are untouched at u.
StageKept(u) ==
    /\ pc'[u] = pc[u] /\ outcome'[u] = outcome[u]
    /\ writes'[u] = writes[u] /\ seen'[u] = seen[u]
    /\ commit_ts'[u] = commit_ts[u]

\* A handle moves from stage to stage as Lifecycle says.
LEMMA StageStep ==
    ASSUME TypeOK, Lifecycle, Contract!IInv, [Next]_vars, NEW u \in Txn
    PROVE  Stage(u)'
<1>1. /\ DataTypes /\ Stage(u)
      /\ \A t \in Txn : Stage(t)
      /\ read_ts \in Nat /\ read_ts < next_ts /\ next_ts \in Nat
  BY TypeParts, LifecycleParts, OracleFacts DEF TypeOK
<1>2. CASE StageKept(u)
  BY <1>1, <1>2 DEF StageKept, Stage
<1>3. ASSUME NEW t \in Txn, NEW knd \in Kind, Begin(t, knd)
      PROVE  Stage(u)'
  BY <1>1, <1>3 DEF Begin, DataTypes, Stage
<1>4. ASSUME NEW t \in Txn, NEW k \in Key, Get(t, k)
      PROVE  Stage(u)'
  <2>1. /\ pc[t] = "active" /\ \E f : seen' = [seen EXCEPT ![t] = f]
        /\ UNCHANGED <<pc, outcome, writes, commit_ts>>
    BY <1>4 DEF Get
  <2>2. QED
    BY <1>1, <2>1 DEF DataTypes, Stage
<1>5. ASSUME NEW t \in Txn, NEW k \in Key, Put(t, k) \/ Delete(t, k)
      PROVE  Stage(u)'
  <2>1. PICK v \in {t, None} : Buffer(t, k, v)
    BY <1>5 DEF Put, Delete
  <2> DEFINE now == [j \in DOMAIN writes[t] \cup {k} |->
                        IF j = k THEN v ELSE writes[t][j]]
  <2>2. /\ pc[t] = "active" /\ writes' = [writes EXCEPT ![t] = now]
        /\ UNCHANGED <<pc, outcome, seen, commit_ts>>
    BY <2>1 DEF Buffer
  <2>3. outcome[t] = "none" /\ \A j \in DOMAIN now : now[j] \in {t, None}
    BY <1>1, <2>2 DEF Stage
  <2> HIDE DEF now
  <2>4. QED
    BY <1>1, <2>2, <2>3 DEF DataTypes, Stage
<1>6. ASSUME NEW t \in Txn, CommitReadOnly(t)
      PROVE  Stage(u)'
  BY <1>1, <1>6 DEF CommitReadOnly, DataTypes, Stage
<1>7. ASSUME NEW t \in Txn, Rollback(t)
      PROVE  Stage(u)'
  BY <1>1, <1>7, NothingType DEF Rollback, DataTypes, Stage
<1>8. ASSUME NEW t \in Txn, AllocCommitTs(t)
      PROVE  Stage(u)'
  <2>1. next_ts # 0
    BY <1>1
  <2>2. QED
    BY <1>1, <1>8, <2>1 DEF AllocCommitTs, DataTypes, Stage
<1>9. ASSUME NEW t \in Txn, Acquire(t)
      PROVE  StageKept(u)
  BY <1>9, Zenon DEF Acquire, txnVars, StageKept
<1>10. ASSUME NEW t \in Txn, NEW ok \in BOOLEAN, TryCommit(t, ok)
       PROVE  Stage(u)'
  <2>1. /\ pc[t] = "committing" /\ pc' = [pc EXCEPT ![t] = "decided"]
        /\ \E res \in {"ok", "conflict"} :
              outcome' = [outcome EXCEPT ![t] = res]
        /\ UNCHANGED <<writes, seen, commit_ts>>
    BY <1>10 DEF TryCommit
  <2>2. QED
    BY <1>1, <2>1 DEF DataTypes, Stage
<1>11. ASSUME NEW t \in Txn, StoreFails(t)
       PROVE  Stage(u)'
  BY <1>1, <1>11 DEF StoreFails, DataTypes, Stage
<1>12. ASSUME NEW t \in Txn, CommitDone(t)
       PROVE  Stage(u)'
  BY <1>1, <1>12 DEF CommitDone, Report, DataTypes, Stage
<1>13. ASSUME NEW t \in Txn, EndCommit(t)
       PROVE  Stage(u)'
  <2>1. /\ pc[t] = "returning" /\ pc' = [pc EXCEPT ![t] = "ended"]
        /\ \/ UNCHANGED <<writes, seen>>
           \/ /\ writes' = [writes EXCEPT ![t] = Nothing]
              /\ seen' = [seen EXCEPT ![t] = Nothing]
        /\ UNCHANGED <<commit_ts, outcome>>
    BY <1>13 DEF EndCommit
  <2>2. QED
    BY <1>1, <2>1, NothingType DEF DataTypes, Stage
<1>14. ASSUME NEW c \in Collector, CollectBegin(c) \/ CollectShard(c)
       PROVE  StageKept(u)
  BY <1>14, Zenon DEF CollectBegin, CollectShard, txnVars, StageKept
<1>15. CASE UNCHANGED vars
  <2>1. StageKept(u)
    BY <1>15, Zenon DEF vars, StageKept
  <2>2. QED
    BY <1>2, <2>1
<1>16. QED
  BY <1>2, <1>3, <1>4, <1>5, <1>6, <1>7, <1>8, <1>9, <1>10, <1>11, <1>12,
     <1>13, <1>14, <1>15 DEF Next, CommitStep

\* Every step keeps Lifecycle.
LEMMA LifecycleStep ==
    ASSUME TypeOK, Lifecycle, Contract!IInv, [Next]_vars
    PROVE  Lifecycle'
BY LifecycleParts, TimesStep, SweepsStep, StageStep

-----------------------------------------------------------------------------
(* Shard locks *)

\* The shards the commit of t locks, and what LocksAscending says of one of
\* them when t holds it.
Wanted(t) == to_lock(writes[t], reads(t))

General(t) == ~IsFastPath(writes[t], reads(t))

HeldInOrder(t, s) ==
    /\ pc[t] = "committing"
    /\ General(t)
    /\ s \in Wanted(t)
    /\ \A r \in Wanted(t) : r < s => lock[r] = t

\* LocksAscending, shard by shard.
LEMMA LocksAscendingParts ==
    /\ LocksAscending <=>
           \A s \in Shard : lock[s] # None => HeldInOrder(lock[s], s)
    /\ (LocksAscending <=>
           \A s \in Shard : lock[s] # None => HeldInOrder(lock[s], s))'
BY DEF LocksAscending, HeldInOrder, Wanted, General

\* A commit locks shards of its keys only.
LEMMA WantedShards ==
    ASSUME DataTypes, NEW t \in Txn
    PROVE  Wanted(t) \subseteq Shard
<1>1. DOMAIN writes[t] \subseteq Key /\ DOMAIN seen[t] \subseteq Key
  BY BufferElement DEF DataTypes
<1>2. reads(t) \subseteq Key
  BY <1>1 DEF reads
<1>3. QED
  BY <1>1, <1>2, ShardOfKey DEF Wanted, to_lock

\* A step of a handle that is outside try_commit does not matter to the locks.
LEMMA LocksOtherStep ==
    ASSUME TypeOK, LocksAscending, NEW t \in Txn, pc[t] # "committing",
           lock' = lock,
           \A u \in Txn \ {t} : /\ pc'[u] = pc[u] /\ kind'[u] = kind[u]
                                /\ writes'[u] = writes[u] /\ seen'[u] = seen[u]
    PROVE  LocksAscending'
<1>1. SUFFICES ASSUME NEW s \in Shard, lock[s] # None
               PROVE  HeldInOrder(lock[s], s)'
  BY LocksAscendingParts
<1>2. HeldInOrder(lock[s], s) /\ lock[s] \in Txn
  BY <1>1, LocksAscendingParts DEF TypeOK
<1>3. lock[s] # t
  BY <1>2 DEF HeldInOrder
<1>4. /\ Wanted(lock[s])' = Wanted(lock[s])
      /\ General(lock[s])' = General(lock[s])
  BY <1>2, <1>3 DEF Wanted, General, reads
<1>5. QED
  BY <1>2, <1>3, <1>4 DEF HeldInOrder

\* The general path takes the lowest lock it lacks, so what it holds stays
\* below what it lacks.
LEMMA LocksAcquire ==
    ASSUME TypeOK, LocksAscending, NEW t \in Txn, Acquire(t)
    PROVE  LocksAscending'
<1> DEFINE missing == {s \in Wanted(t) : lock[s] # t}
           m == Min(missing)
<1>1. /\ pc[t] = "committing" /\ missing # {} /\ lock[m] = None
      /\ General(t) /\ lock' = [lock EXCEPT ![m] = t]
      /\ UNCHANGED <<txnVars, gc>>
  BY DEF Acquire, acquire_next, Grantable, Wanted, General
<1>2. Wanted(t) \subseteq Shard /\ Wanted(t) \subseteq Nat
  BY WantedShards, ShardNat, TypeParts
<1>3. m \in missing /\ \A s \in missing : m <= s
  <2>1. missing \in SUBSET Nat
    BY <1>2
  <2>2. QED
    BY <1>1, <2>1, MinNat
<1> HIDE DEF m
<1>4. m \in Shard /\ m \in Nat /\ m \in Wanted(t)
  BY <1>2, <1>3
<1>5. \A r \in Wanted(t) : r < m => lock[r] = t
  <2>1. ASSUME NEW r \in Wanted(t), r < m
        PROVE  lock[r] = t
    <3>1. r \in Nat /\ ~(m <= r)
      BY <1>2, <1>4, <2>1
    <3>2. QED
      BY <1>3, <2>1, <3>1
  <2>2. QED
    BY <2>1
<1> HIDE DEF missing
<1>6. /\ lock \in [Shard -> Txn \cup {None}] /\ t # None
      /\ \A s \in Shard : lock'[s] = IF s = m THEN t ELSE lock[s]
  BY <1>1, NoneAssumption DEF TypeOK
<1>7. \A u \in Txn : Wanted(u)' = Wanted(u) /\ General(u)' = General(u)
  BY <1>1 DEF Wanted, General, reads, txnVars
<1>8. pc' = pc
  BY <1>1 DEF txnVars
<1>9. SUFFICES ASSUME NEW s \in Shard, lock'[s] # None
               PROVE  HeldInOrder(lock[s], s)'
  BY LocksAscendingParts
<1>10. CASE s = m
  <2>1. lock'[s] = t
    BY <1>6, <1>10
  <2>2. \A r \in Wanted(t) : r < s => lock'[r] = t
    BY <1>2, <1>5, <1>6, <1>10
  <2>3. QED
    BY <1>1, <1>4, <1>7, <1>8, <1>10, <2>1, <2>2 DEF HeldInOrder
<1>11. CASE s # m
  <2>1. lock'[s] = lock[s] /\ lock[s] \in Txn /\ HeldInOrder(lock[s], s)
    BY <1>6, <1>9, <1>11, LocksAscendingParts
  <2>2. Wanted(lock[s]) \subseteq Shard
    BY <2>1, WantedShards, TypeParts
  <2>3. \A r \in Wanted(lock[s]) : r < s => lock'[r] = lock[s]
    <3>1. ASSUME NEW r \in Wanted(lock[s]), r < s
          PROVE  lock'[r] = lock[s]
      <4>1. lock[r] = lock[s] /\ r \in Shard
        BY <2>1, <2>2, <3>1 DEF HeldInOrder
      <4>2. r # m
        BY <1>1, <2>1, <4>1, NoneAssumption
      <4>3. QED
        BY <1>6, <4>1, <4>2
    <3>2. QED
      BY <3>1
  <2>4. QED
    BY <1>7, <1>8, <2>1, <2>3 DEF HeldInOrder
<1>12. QED
  BY <1>10, <1>11

\* When a commit has been decided its guards are dropped, and only its.
LEMMA LocksRelease ==
    ASSUME TypeOK, LocksAscending, NEW t \in Txn, lock' = release(t),
           UNCHANGED <<kind, writes, seen>>,
           \A u \in Txn \ {t} : pc'[u] = pc[u]
    PROVE  LocksAscending'
<1>1. \A s \in Shard : lock'[s] = IF lock[s] = t THEN None ELSE lock[s]
  BY DEF release
<1>2. \A u \in Txn : /\ Wanted(u)' = Wanted(u) /\ Wanted(u) \subseteq Shard
                     /\ General(u)' = General(u)
  BY WantedShards, TypeParts DEF Wanted, General, reads
<1>3. SUFFICES ASSUME NEW s \in Shard, lock'[s] # None
               PROVE  HeldInOrder(lock[s], s)'
  BY LocksAscendingParts
<1>4. lock'[s] = lock[s] /\ lock[s] # t /\ lock[s] \in Txn
  BY <1>1, <1>3 DEF TypeOK
<1>5. HeldInOrder(lock[s], s)
  BY <1>4, NoneAssumption, LocksAscendingParts
<1>6. \A r \in Wanted(lock[s]) : r < s => lock'[r] = lock[s]
  BY <1>1, <1>2, <1>4, <1>5 DEF HeldInOrder
<1>7. QED
  BY <1>2, <1>4, <1>5, <1>6 DEF HeldInOrder

\* Every step keeps the order of the locks.
LEMMA LocksStep ==
    ASSUME TypeOK, LocksAscending, [Next]_vars
    PROVE  LocksAscending'
<1>1. ASSUME NEW t \in Txn, pc[t] # "committing", lock' = lock,
             \A u \in Txn \ {t} :
                /\ pc'[u] = pc[u] /\ kind'[u] = kind[u]
                /\ writes'[u] = writes[u] /\ seen'[u] = seen[u]
      PROVE  LocksAscending'
  BY <1>1, LocksOtherStep
<1>2. ASSUME NEW t \in Txn, NEW knd \in Kind, Begin(t, knd)
      PROVE  LocksAscending'
  BY <1>1, <1>2 DEF Begin, TypeOK
<1>3. ASSUME NEW t \in Txn, NEW k \in Key, Get(t, k)
      PROVE  LocksAscending'
  BY <1>1, <1>3 DEF Get, get, storeVars, TypeOK
<1>4. ASSUME NEW t \in Txn, NEW k \in Key, Put(t, k) \/ Delete(t, k)
      PROVE  LocksAscending'
  BY <1>1, <1>4 DEF Put, Delete, Buffer, storeVars, TypeOK
<1>5. ASSUME NEW t \in Txn, CommitReadOnly(t)
      PROVE  LocksAscending'
  BY <1>1, <1>5 DEF CommitReadOnly, TypeOK
<1>6. ASSUME NEW t \in Txn, Rollback(t)
      PROVE  LocksAscending'
  BY <1>1, <1>6 DEF Rollback, TypeOK
<1>7. ASSUME NEW t \in Txn, AllocCommitTs(t)
      PROVE  LocksAscending'
  BY <1>1, <1>7 DEF AllocCommitTs, TypeOK
<1>8. ASSUME NEW t \in Txn, Acquire(t)
      PROVE  LocksAscending'
  BY <1>8, LocksAcquire
<1>9. ASSUME NEW t \in Txn, NEW ok \in BOOLEAN,
             TryCommit(t, ok) \/ StoreFails(t)
      PROVE  LocksAscending'
  <2>1. /\ lock' = release(t) /\ UNCHANGED <<kind, writes, seen>>
        /\ pc' = [pc EXCEPT ![t] = "decided"]
    BY <1>9 DEF TryCommit, try_commit, StoreFails
  <2>2. \A u \in Txn \ {t} : pc'[u] = pc[u]
    BY <2>1 DEF TypeOK
  <2>3. QED
    BY <2>1, <2>2, LocksRelease
<1>10. ASSUME NEW t \in Txn, CommitDone(t)
       PROVE  LocksAscending'
  BY <1>1, <1>10 DEF CommitDone, Report, TypeOK
<1>11. ASSUME NEW t \in Txn, EndCommit(t)
       PROVE  LocksAscending'
  <2>1. /\ pc[t] = "returning" /\ pc' = [pc EXCEPT ![t] = "ended"]
        /\ writes' \in {writes, [writes EXCEPT ![t] = Nothing]}
        /\ seen' \in {seen, [seen EXCEPT ![t] = Nothing]}
        /\ UNCHANGED <<lock, kind>>
    BY <1>11 DEF EndCommit
  <2>2. QED
    BY <1>1, <2>1 DEF TypeOK
<1>12. CASE UNCHANGED <<lock, pc, kind, writes, seen>>
  BY <1>12 DEF LocksAscending, reads, to_lock, shard_of, hash_key, IsFastPath
<1>13. ASSUME NEW c \in Collector, CollectBegin(c) \/ CollectShard(c)
       PROVE  UNCHANGED <<lock, pc, kind, writes, seen>>
  BY <1>13, Zenon
     DEF CollectBegin, CollectShard, collect_shard, storeVars, txnVars
<1>14. QED
  BY <1>2, <1>3, <1>4, <1>5, <1>6, <1>7, <1>8, <1>9, <1>10, <1>11, <1>12,
     <1>13, Zenon DEF Next, CommitStep, vars

\* The holder of the highest lock that is held lacks higher ones at most, and
\* those are free.
LEMMA HighestProceeds ==
    ASSUME TypeOK, LocksAscending
    PROVE  LocksNeverDeadlock
<1> DEFINE Taken == {s \in Shard : lock[s] # None}
           Missing(u) == {s \in Wanted(u) : lock[s] # u}
<1>1. SUFFICES ASSUME NEW t \in Txn, pc[t] = "committing"
               PROVE  \E u \in Txn : pc[u] = "committing" /\ CanProceed(u)
  BY DEF LocksNeverDeadlock
<1>2. \A u \in Txn : Wanted(u) \subseteq Shard /\ Missing(u) \in SUBSET Nat
  BY WantedShards, TypeParts, ShardNat
<1>3. \A u \in Txn : General(u) /\ Missing(u) # {} =>
          /\ Min(Missing(u)) \in Missing(u)
          /\ \A s \in Missing(u) : Min(Missing(u)) <= s
  BY <1>2, MinNat
<1>4. ASSUME NEW u \in Txn, General(u), Missing(u) = {}
      PROVE  CanProceed(u)
  BY <1>4 DEF CanProceed, CanValidate, Wanted, General
<1>5. ASSUME NEW u \in Txn, General(u), Missing(u) # {},
             lock[Min(Missing(u))] = None
      PROVE  CanProceed(u)
  BY <1>5, Zenon DEF CanProceed, Wanted, General, Grantable
<1>6. ASSUME NEW u \in Txn, ~General(u), \A s \in Wanted(u) : lock[s] = None
      PROVE  CanProceed(u)
  BY <1>6 DEF CanProceed, CanValidate, Wanted, General, Grantable
<1> HIDE DEF Missing
<1>7. CASE Taken = {}
  <2>1. \A s \in Wanted(t) : lock[s] = None
    BY <1>2, <1>7
  <2>2. General(t) /\ Missing(t) # {} => lock[Min(Missing(t))] = None
    BY <1>3, <2>1 DEF Missing
  <2>3. CanProceed(t)
    BY <1>4, <1>5, <1>6, <2>1, <2>2
  <2>4. QED
    BY <1>1, <2>3
<1>8. CASE Taken # {}
  <2>1. PICK s \in Taken : \A r \in Taken : r <= s
    <3> HIDE DEF shard_count
    <3>1. shard_count - 1 \in Nat
      BY ShardCountAssumption
    <3>2. Taken \in SUBSET Nat /\ \A r \in Taken : r <= shard_count - 1
      BY <3>1 DEF Shard
    <3>3. QED
      BY <1>8, <3>1, <3>2, GreatestNat
  <2> DEFINE u == lock[s]
  <2>2. u \in Txn /\ HeldInOrder(u, s)
    BY <2>1, LocksAscendingParts DEF TypeOK
  <2> HIDE DEF u
  <2>3. pc[u] = "committing" /\ General(u)
    BY <2>2 DEF HeldInOrder
  <2>4. ASSUME Missing(u) # {}
        PROVE  lock[Min(Missing(u))] = None
    <3> DEFINE m == Min(Missing(u))
    <3>1. m \in Missing(u)
      BY <1>3, <2>2, <2>3, <2>4
    <3> HIDE DEF m
    <3>2. m \in Wanted(u) /\ lock[m] # u /\ m \in Shard /\ m \in Nat
      BY <1>2, <2>2, <3>1 DEF Missing
    <3>3. ~(m < s) /\ m # s
      BY <2>2, <3>2 DEF HeldInOrder, u
    <3>4. s \in Nat
      BY <2>1, ShardNat
    <3>5. m \notin Taken
      BY <2>1, <3>2, <3>3, <3>4
    <3>6. QED
      BY <3>2, <3>5 DEF m
  <2>5. CanProceed(u)
    BY <1>4, <1>5, <2>2, <2>3, <2>4
  <2>6. QED
    BY <2>2, <2>3, <2>5
<1>9. QED
  BY <1>7, <1>8

-----------------------------------------------------------------------------
(* Version chains *)

\* ChainsAscending, chain by chain.
LEMMA ChainsAscendingParts ==
    /\ ChainsAscending <=> \A k \in Key : Ascending(chains[k])
    /\ (ChainsAscending <=> \A k \in Key : Ascending(chains[k]))'
BY DEF ChainsAscending, Ascending

\* A commit that passed validation lies above every version of its keys: those
\* are at or below its snapshot, which the watermark had reached, and its
\* timestamp is above the watermark.
LEMMA ValidatedIsNewest ==
    ASSUME TypeOK, Lifecycle, Contract!IInv, NEW t \in Txn,
           pc[t] = "committing",
           ~HasConflict(writes[t], reads(t), snap_ts[t])
    PROVE  /\ snap_ts[t] < commit_ts[t]
           /\ \A k \in DOMAIN writes[t] \cup reads(t) : chains[k] # <<>> =>
                  ~(chains[k][Len(chains[k])].commit_ts > snap_ts[t])
<1>1. snap_ts[t] <= read_ts /\ read_ts < commit_ts[t]
  BY OracleFacts DEF Lifecycle
<1>2. snap_ts[t] < commit_ts[t]
  BY <1>1 DEF TypeOK
<1>3. QED
  BY <1>2 DEF HasConflict, newer_than

\* try_commit keeps every chain ascending although timestamps were taken before
\* the locks.
LEMMA ChainsPush ==
    ASSUME TypeOK, Lifecycle, Contract!IInv, ChainsAscending, NEW t \in Txn,
           TryCommit(t, TRUE)
    PROVE  ChainsAscending'
<1>1. /\ pc[t] = "committing" /\ chains' = push(writes[t], commit_ts[t])
      /\ ~HasConflict(writes[t], reads(t), snap_ts[t])
  BY DEF TryCommit, try_commit
<1>2. SUFFICES ASSUME NEW k \in Key
               PROVE  Ascending(chains'[k])
  BY ChainsAscendingParts
<1>3. /\ chains[k] \in Seq(VersionOf(Value)) /\ Ascending(chains[k])
      /\ commit_ts[t] \in Nat /\ snap_ts[t] \in Nat
  BY ChainsAscendingParts, TypeParts DEF DataTypes
<1>4. CASE k \in DOMAIN writes[t]
  <2> DEFINE v == Version(commit_ts[t], writes[t][k])
  <2>1. chains'[k] = Append(chains[k], v)
    BY <1>1, <1>4 DEF push
  <2>2. v \in VersionOf(Value) /\ v.commit_ts = commit_ts[t]
    <3>1. writes[t][k] \in Value
      BY <1>4, BufferElement, TypeParts DEF DataTypes
    <3>2. QED
      BY <1>3, <3>1 DEF Version, VersionOf
  <2> HIDE DEF v
  <2>3. chains[k] # <<>> => chains[k][Len(chains[k])].commit_ts < v.commit_ts
    <3>1. SUFFICES ASSUME chains[k] # <<>>
                   PROVE  chains[k][Len(chains[k])].commit_ts < v.commit_ts
      OBVIOUS
    <3>2. chains[k][Len(chains[k])].commit_ts \in Nat
      BY <1>3, <3>1, ChainElement, EmptySeq
    <3>3. /\ ~(chains[k][Len(chains[k])].commit_ts > snap_ts[t])
          /\ snap_ts[t] < commit_ts[t]
      BY <1>1, <1>4, <3>1, ValidatedIsNewest
    <3>4. QED
      BY <1>3, <2>2, <3>2, <3>3
  <2>4. QED
    BY <1>3, <2>1, <2>2, <2>3, AppendAscending
<1>5. CASE k \notin DOMAIN writes[t]
  BY <1>1, <1>3, <1>5 DEF push
<1>6. QED
  BY <1>4, <1>5

\* Every step keeps the chains ascending.
LEMMA ChainsStep ==
    ASSUME TypeOK, Lifecycle, Contract!IInv, ChainsAscending, [Next]_vars
    PROVE  ChainsAscending'
<1>1. ASSUME NEW t \in Txn, TryCommit(t, TRUE)
      PROVE  ChainsAscending'
  BY <1>1, ChainsPush
<1>2. ASSUME NEW c \in Collector, CollectShard(c)
      PROVE  ChainsAscending'
  <2> DEFINE low == gc[c].low
             s == Min(gc[c].left)
  <2>1. /\ chains' = [k \in Key |-> IF shard_of(k) = s
                                    THEN retain(chains[k], low)
                                    ELSE chains[k]]
    BY <1>2 DEF CollectShard, collect_shard
  <2>2. low \in Nat /\ chains \in [Key -> Seq(VersionOf(Value))]
    BY TypeParts DEF DataTypes
  <2>3. \A k \in Key : /\ Ascending(chains[k])
                       /\ Ascending(retain(chains[k], low))
    BY <2>2, RetainShape, ChainsAscendingParts
  <2>4. QED
    BY <2>1, <2>3, ChainsAscendingParts
<1>3. CASE chains' = chains
  BY <1>3 DEF ChainsAscending
<1>4. QED
  BY <1>1, <1>2, <1>3 DEF Next, CommitStep, Begin, Get, get, Put, Delete,
     Buffer, CommitReadOnly, Rollback, AllocCommitTs, Acquire, acquire_next,
     TryCommit, try_commit, StoreFails, CommitDone, Report, EndCommit,
     CollectBegin, storeVars, vars

-----------------------------------------------------------------------------
(* Theorems *)

\* The part of the inductive invariant that does not speak of the history.
CoreInv ==
    TypeOK /\ Contract!IInv /\ Lifecycle /\ LocksAscending /\ ChainsAscending

\* It holds of an empty database.
LEMMA CoreInit == Init => CoreInv
<1> SUFFICES ASSUME Init PROVE CoreInv
  OBVIOUS
<1>1. LocksAscending
  BY DEF Init, with_shards, LocksAscending
<1>2. \A k \in Key : chains[k] = <<>>
  BY DEF Init, with_shards
<1>3. ChainsAscending
  BY <1>2, EmptySeq DEF ChainsAscending
<1>4. QED
  BY <1>1, <1>3, TypeInit, ContractInvInit, LifecycleInit DEF CoreInv

\* ... and every step keeps it.
LEMMA CoreStep ==
    ASSUME CoreInv, [Next]_vars
    PROVE  CoreInv'
BY TypeStep, ContractInvStep, LifecycleStep, LocksStep, ChainsStep DEF CoreInv

\* CoreInv is an invariant of the database.
THEOREM CoreInvariance == Spec => []CoreInv
<1>1. CoreInv /\ [Next]_vars => CoreInv'
  BY CoreStep
<1>2. QED
  BY <1>1, CoreInit, PTL DEF Spec

\* Every variable of the database keeps its type.
THEOREM TypeCorrect == Spec => []TypeOK
<1>1. CoreInv => TypeOK
  BY DEF CoreInv
<1>2. QED
  BY <1>1, CoreInvariance, PTL

\* Inner::commit_writes reports every timestamp it takes exactly once, on every
\* path, and every handle registers and unregisters its reader exactly once, so
\* that all that OracleProofs shows of the oracle holds in the database.
THEOREM KeepsOracleContract == Spec => OracleContract
<1>1. CoreInv /\ [Next]_vars => [Contract!Next]_(Contract!vars)
  BY ContractStep DEF CoreInv
<1>2. QED
  BY <1>1, ContractInit, CoreInvariance, PTL
     DEF Spec, OracleContract, Contract!Spec

\* commit_writes: a commit between taking its timestamp and reporting it lies
\* above the watermark and above every snapshot in use.
THEOREM UnreportedIsInvisible == Spec => []UnreportedInvisible
<1>1. CoreInv => UnreportedInvisible
  <2>1. SUFFICES ASSUME CoreInv, NEW t \in Txn,
                        pc[t] \in {"committing", "decided"}
                 PROVE  /\ commit_ts[t] > read_ts
                        /\ \A u \in Live : commit_ts[t] > snap_ts[u]
    BY DEF UnreportedInvisible
  <2>2. /\ read_ts < commit_ts[t]
        /\ \A u \in Live : snap_ts[u] <= read_ts
    BY <2>1, OracleFacts DEF CoreInv, Lifecycle
  <2>3. /\ read_ts \in Nat /\ commit_ts[t] \in Nat
        /\ \A u \in Live : snap_ts[u] \in Nat
    BY <2>1 DEF CoreInv, TypeOK, Live
  <2>4. QED
    BY <2>2, <2>3
<1>2. QED
  BY <1>1, CoreInvariance, PTL

\* try_commit, general path: only a commit in try_commit holds shard locks, and
\* it takes them in ascending order.
THEOREM LocksAreOrdered == Spec => []LocksAscending
<1>1. CoreInv => LocksAscending
  BY DEF CoreInv
<1>2. QED
  BY <1>1, CoreInvariance, PTL

\* try_commit: whatever keys they write and read, the commits inside it never
\* wait for each other in a circle.
THEOREM LocksCannotDeadlock == Spec => []LocksNeverDeadlock
<1>1. CoreInv => LocksNeverDeadlock
  BY HighestProceeds DEF CoreInv
<1>2. QED
  BY <1>1, CoreInvariance, PTL

\* try_commit and collect_garbage: every chain is in ascending order of commit
\* timestamps, in whatever order commits win their locks.
THEOREM ChainsAreOrdered == Spec => []ChainsAscending
<1>1. CoreInv => ChainsAscending
  BY DEF CoreInv
<1>2. QED
  BY <1>1, CoreInvariance, PTL

=============================================================================
