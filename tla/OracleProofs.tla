---------------------------- MODULE OracleProofs ----------------------------
(***************************************************************************)
(* Proofs about OracleProtocol for any number of committers, readers and   *)
(* collectors and any bound on timestamps.                                 *)
(***************************************************************************)
EXTENDS OracleProtocol, NatLemmas, FiniteSetTheorems, TLAPS

\* The loop of commit_done ends: when the finished timestamps are bounded there
\* is a first gap after ts, and everything before it is finished.
LEMMA FirstGapExists ==
    ASSUME NEW ts \in Nat, NEW done \in SUBSET Nat, NEW n \in Nat,
           \A k \in done : k < n
    PROVE  LET m == FirstGap(ts, done)
           IN  /\ m \in {ts + 1} \cup {k + 1 : k \in done}
               /\ m \in Nat
               /\ m > ts
               /\ m \notin done
               /\ \A k \in (ts + 1)..(m - 1) : k \in done
<1> DEFINE Gap == {m \in Nat : m > ts /\ m \notin done}
<1>1. ts + n + 1 \in Gap
  OBVIOUS
<1>2. PICK m \in Gap : \A k \in Gap : m <= k
  BY <1>1, LeastNat
<1>3. \A k \in (ts + 1)..(m - 1) : k \in done
  BY <1>2
<1>4. m \in {ts + 1} \cup {k + 1 : k \in done}
  <2>1. CASE m = ts + 1
    BY <2>1
  <2>2. CASE m # ts + 1
    <3>1. m - 1 \in done
      BY <1>2, <1>3, <2>2
    <3>2. m = (m - 1) + 1
      BY <1>2
    <3>3. QED
      BY <3>1, <3>2
  <2>3. QED
    BY <2>1, <2>2
<1>5. \E x \in {ts + 1} \cup {k + 1 : k \in done} :
         x > ts /\ x \notin done /\ \A k \in (ts + 1)..(x - 1) : k \in done
  BY <1>2, <1>3, <1>4
<1>6. /\ FirstGap(ts, done) \in {ts + 1} \cup {k + 1 : k \in done}
      /\ FirstGap(ts, done) > ts
      /\ FirstGap(ts, done) \notin done
      /\ \A k \in (ts + 1)..(FirstGap(ts, done) - 1) : k \in done
  BY <1>5, Zenon DEF FirstGap
<1>7. FirstGap(ts, done) \in Nat
  BY <1>6
<1>8. QED
  BY <1>6, <1>7

\* low_watermark is a timestamp, at or below every registered one and, when
\* those are at or below the watermark, at or below the watermark.
LEMMA LowWatermarkBound ==
    ASSUME TypeOK, \A ts \in DOMAIN readers : ts <= read_ts
    PROVE  /\ low_watermark \in Nat
           /\ low_watermark <= read_ts
           /\ \A ts \in DOMAIN readers : low_watermark <= ts
<1>1. CASE DOMAIN readers = {}
  BY <1>1 DEF low_watermark, TypeOK
<1>2. CASE DOMAIN readers # {}
  <2>1. low_watermark = Min(DOMAIN readers)
    BY <1>2 DEF low_watermark
  <2>2. /\ Min(DOMAIN readers) \in DOMAIN readers
        /\ \A ts \in DOMAIN readers : Min(DOMAIN readers) <= ts
    BY <1>2, MinNat DEF TypeOK
  <2>3. QED
    BY <2>1, <2>2 DEF TypeOK
<1>3. QED
  BY <1>1, <1>2

-----------------------------------------------------------------------------
(* The watermark *)

\* Oracle::recovered leaves no timestamp unaccounted for.
LEMMA WatermarkInit == Init => WatermarkInv
BY MaxTsAssumption DEF Init, recovered, WatermarkInv, TimestampsUnique

\* alloc_commit_ts: the new timestamp is beyond the watermark and has a holder.
LEMMA WatermarkAlloc ==
    ASSUME TypeOK, WatermarkInv, NEW c \in Committer, Alloc(c)
    PROVE  WatermarkInv'
BY DEF TypeOK, WatermarkInv, TimestampsUnique, Alloc, alloc_commit_ts

\* What commit_done leaves when it moves the watermark.
LEMMA CommitDoneAdvances ==
    ASSUME TypeOK, WatermarkInv, NEW c \in Committer, Finish(c),
           held[c] = done_upto + 1
    PROVE  /\ done_upto' \in Nat /\ done_upto' >= held[c]
           /\ done_upto' < next_ts
           /\ read_ts' = done_upto'
           /\ ahead' = {ts \in ahead : ts > done_upto'}
           /\ done_upto' + 1 \notin ahead
           /\ \A ts \in (held[c] + 1)..done_upto' : ts \in ahead
<1> DEFINE m == FirstGap(held[c], ahead)
<1>1. /\ m \in {held[c] + 1} \cup {k + 1 : k \in ahead}
      /\ m \in Nat
      /\ m > held[c]
      /\ m \notin ahead
      /\ \A k \in (held[c] + 1)..(m - 1) : k \in ahead
  BY FirstGapExists DEF TypeOK, WatermarkInv
<1>2. done_upto' = m - 1 /\ read_ts' = m - 1
      /\ ahead' = ahead \ ((held[c] + 1)..(m - 1))
  BY DEF Finish, commit_done
<1>3. m <= next_ts
  BY <1>1 DEF TypeOK, WatermarkInv
<1>4. \A ts \in ahead : ts > held[c]
  BY DEF TypeOK, WatermarkInv
<1>5. held[c] \in Nat /\ next_ts \in Nat /\ ahead \in SUBSET Nat
  BY DEF TypeOK
<1> HIDE DEF m
<1>6. ahead' = {ts \in ahead : ts > m - 1}
  <2>1. ASSUME NEW ts \in ahead
        PROVE  ts \in (held[c] + 1)..(m - 1) <=> ~(ts > m - 1)
    <3>1. ts \in Nat /\ m \in Nat /\ held[c] \in Nat /\ ts > held[c]
      BY <1>1, <1>4, <1>5
    <3>2. QED
      BY <3>1
  <2>2. QED
    BY <1>2, <2>1, Zenon
<1>7. m - 1 \in Nat /\ m - 1 >= held[c] /\ m - 1 < next_ts /\ (m - 1) + 1 = m
  BY <1>1, <1>3, <1>5
<1>8. QED
  BY <1>1, <1>2, <1>6, <1>7, Zenon

\* commit_done accounts for the reported timestamp, in either branch.
LEMMA WatermarkFinish ==
    ASSUME TypeOK, WatermarkInv, NEW c \in Committer, Finish(c)
    PROVE  WatermarkInv'
<1> /\ next_ts' = next_ts
    /\ held[c] # 0
    /\ held' = [held EXCEPT ![c] = 0]
  BY DEF Finish, commit_done
<1>1. CASE held[c] = done_upto + 1
  <2>1. /\ done_upto' \in Nat /\ done_upto' >= held[c]
        /\ done_upto' < next_ts
        /\ read_ts' = done_upto'
        /\ ahead' = {ts \in ahead : ts > done_upto'}
        /\ done_upto' + 1 \notin ahead
        /\ \A ts \in (held[c] + 1)..done_upto' : ts \in ahead
    BY <1>1, CommitDoneAdvances
  <2>2. \A d \in Committer : held'[d] # 0 =>
            /\ d # c
            /\ held'[d] = held[d]
            /\ held[d] > done_upto'
    BY <2>1, <1>1 DEF TypeOK, WatermarkInv, TimestampsUnique
  <2>3. \A ts \in (done_upto' + 1)..(next_ts - 1) :
            ts \in ahead' \/ \E d \in Committer : held'[d] = ts
    <3>0. done_upto' \in Nat /\ done_upto \in Nat /\ next_ts \in Nat
      BY <2>1 DEF TypeOK
    <3>1. SUFFICES ASSUME NEW ts \in Nat, ts > done_upto', ts < next_ts
                   PROVE  ts \in ahead' \/ \E d \in Committer : held'[d] = ts
      BY <3>0, Between
    <3>2. ts \in (done_upto + 1)..(next_ts - 1) /\ ts > done_upto' /\ ts # held[c]
      <4>1. done_upto' >= held[c] /\ held[c] = done_upto + 1
        BY <1>1, <2>1
      <4>2. QED
        BY <3>0, <3>1, <4>1
    <3>3. CASE ts \in ahead
      BY <3>2, <3>3, <2>1
    <3>4. CASE ts \notin ahead
      <4>1. PICK d \in Committer : held[d] = ts
        BY <3>2, <3>4 DEF WatermarkInv
      <4>2. held'[d] = ts
        BY <3>2, <4>1 DEF TypeOK
      <4>3. QED
        BY <4>2
    <3>5. QED
      BY <3>3, <3>4
  <2>4. TimestampsUnique'
    BY <2>1, <2>2 DEF TypeOK, WatermarkInv, TimestampsUnique
  <2>5. QED
    BY <2>1, <2>2, <2>3, <2>4 DEF TypeOK, WatermarkInv
<1>2. CASE held[c] # done_upto + 1
  <2>1. /\ ahead' = ahead \cup {held[c]}
        /\ UNCHANGED <<done_upto, read_ts>>
    BY <1>2 DEF Finish, commit_done
  <2>2. QED
    BY <1>2, <2>1 DEF TypeOK, WatermarkInv, TimestampsUnique
<1>3. QED
  BY <1>1, <1>2

\* No other step touches the timestamps, so every step keeps WatermarkInv.
LEMMA WatermarkStep ==
    ASSUME TypeOK, WatermarkInv, [Next]_vars
    PROVE  WatermarkInv'
<1>1. ASSUME NEW c \in Committer, Alloc(c)
      PROVE  WatermarkInv'
  BY <1>1, WatermarkAlloc
<1>2. ASSUME NEW c \in Committer, Finish(c)
      PROVE  WatermarkInv'
  BY <1>2, WatermarkFinish
<1>3. CASE UNCHANGED <<next_ts, read_ts, done_upto, ahead, held>>
  BY <1>3 DEF WatermarkInv, TimestampsUnique
<1>4. QED
  BY <1>1, <1>2, <1>3 DEF Next, vars, oracleVars, Register, Unregister,
     begin_reader, end_reader, SweepBegin, SweepEnd

\* commit_done never moves the watermark back.
LEMMA FinishMonotone ==
    ASSUME TypeOK, WatermarkInv, NEW c \in Committer, Finish(c)
    PROVE  /\ done_upto' \in Nat /\ read_ts' \in Nat /\ read_ts' >= read_ts
           /\ ahead' \in SUBSET Nat
<1>1. CASE held[c] = done_upto + 1
  <2>1. /\ done_upto' \in Nat /\ done_upto' >= held[c]
        /\ read_ts' = done_upto'
        /\ ahead' = {ts \in ahead : ts > done_upto'}
    BY <1>1, CommitDoneAdvances
  <2>2. read_ts = done_upto /\ done_upto \in Nat /\ ahead \in SUBSET Nat
    BY DEF TypeOK, WatermarkInv
  <2>3. read_ts' >= read_ts
    BY <1>1, <2>1, <2>2
  <2>4. QED
    BY <2>1, <2>2, <2>3
<1>2. CASE held[c] # done_upto + 1
  <2>1. /\ ahead' = ahead \cup {held[c]}
        /\ UNCHANGED <<done_upto, read_ts>>
    BY <1>2 DEF Finish, commit_done
  <2>2. /\ read_ts \in Nat /\ done_upto \in Nat /\ held[c] \in Nat
        /\ ahead \in SUBSET Nat
    BY DEF TypeOK
  <2>3. ahead' \in SUBSET Nat
    BY <2>1, <2>2, Zenon
  <2>4. done_upto' \in Nat /\ read_ts' \in Nat /\ read_ts' >= read_ts
    BY <2>1, <2>2
  <2>5. QED
    BY <2>3, <2>4
<1>3. QED
  BY <1>1, <1>2

-----------------------------------------------------------------------------
(* The registry *)

\* Oracle::recovered: no handle and an empty registry.
LEMMA RegistryInit == Init => RegistryInv
BY FS_EmptySet, MaxTsAssumption
   DEF Init, recovered, RegistryInv, RegistryMatchesHandles, NoReaderBelowSweep

\* begin_reader: the count at the watermark grows with the set of handles.
LEMMA RegistryRegister ==
    ASSUME TypeOK, RegistryInv, NEW r \in Reader, Register(r)
    PROVE  RegistryInv' /\ \A ts \in DOMAIN readers' : readers'[ts] \in Nat \ {0}
<1> DEFINE At(ts) == {q \in live : snap[q] = ts}
           NewAt(ts) == {q \in live' : snap'[q] = ts}
<1>1. /\ r \notin live /\ live' = live \cup {r}
      /\ snap' = [snap EXCEPT ![r] = read_ts]
      /\ read_ts' = read_ts /\ low' = low
      /\ readers' = [q \in DOMAIN readers \cup {read_ts} |->
                        IF q = read_ts THEN ReaderCount(read_ts) + 1 ELSE readers[q]]
  BY DEF Register, begin_reader
<1>2. IsFiniteSet(live')
  BY <1>1, FS_AddElement DEF RegistryInv
<1>3. RegistryMatchesHandles'
  BY <1>1 DEF RegistryInv, RegistryMatchesHandles, TypeOK
<1>4. \A ts : IsFiniteSet(At(ts))
  BY FS_Subset DEF RegistryInv
<1>5. \A ts : NewAt(ts) = IF ts = read_ts THEN At(ts) \cup {r} ELSE At(ts)
  BY <1>1 DEF TypeOK
<1>6. ReaderCount(read_ts) = Cardinality(At(read_ts))
  <2>1. CASE read_ts \in DOMAIN readers
    BY <2>1 DEF ReaderCount, RegistryInv
  <2>2. CASE read_ts \notin DOMAIN readers
    <3>1. At(read_ts) = {}
      BY <2>2 DEF RegistryInv, RegistryMatchesHandles
    <3>2. QED
      BY <2>2, <3>1, FS_EmptySet DEF ReaderCount
  <2>3. QED
    BY <2>1, <2>2
<1>7. Cardinality(NewAt(read_ts)) = Cardinality(At(read_ts)) + 1
  <2>1. r \notin At(read_ts) /\ NewAt(read_ts) = At(read_ts) \cup {r}
    BY <1>1, <1>5
  <2>2. IsFiniteSet(At(read_ts))
    BY <1>4
  <2> HIDE DEF At, NewAt
  <2>3. QED
    BY <2>1, <2>2, FS_AddElement
<1>8. \A ts \in DOMAIN readers' : readers'[ts] = Cardinality(NewAt(ts))
  BY <1>1, <1>5, <1>6, <1>7 DEF RegistryInv
<1>9. \A ts \in DOMAIN readers' : readers'[ts] \in Nat \ {0}
  <2>1. Cardinality(At(read_ts)) \in Nat
    BY <1>4, FS_CardinalityType
  <2>2. QED
    BY <1>1, <1>6, <2>1 DEF TypeOK
<1>10. (\A q \in live : snap[q] <= read_ts)' /\ NoReaderBelowSweep'
  BY <1>1 DEF RegistryInv, NoReaderBelowSweep, TypeOK
<1>11. QED
  BY <1>2, <1>3, <1>8, <1>9, <1>10 DEF RegistryInv

\* end_reader: one handle fewer, and no entry left without a handle.
LEMMA RegistryUnregister ==
    ASSUME TypeOK, RegistryInv, NEW r \in Reader, Unregister(r)
    PROVE  RegistryInv' /\ \A ts \in DOMAIN readers' : readers'[ts] \in Nat \ {0}
<1> DEFINE At(ts) == {q \in live : snap[q] = ts}
           NewAt(ts) == {q \in live' : snap'[q] = ts}
           old == snap[r]
<1>1. /\ r \in live /\ live' = live \ {r}
      /\ snap' = [snap EXCEPT ![r] = 0]
      /\ read_ts' = read_ts /\ low' = low
      /\ readers' = IF ReaderCount(old) <= 1
                    THEN [q \in DOMAIN readers \ {old} |-> readers[q]]
                    ELSE [readers EXCEPT ![old] = @ - 1]
  BY DEF Unregister, end_reader
<1>2. IsFiniteSet(live')
  BY <1>1, FS_RemoveElement DEF RegistryInv
<1>3. \A ts : IsFiniteSet(At(ts)) /\ Cardinality(At(ts)) \in Nat
  BY FS_Subset, FS_CardinalityType DEF RegistryInv
<1>4. \A ts : NewAt(ts) = IF ts = old THEN At(ts) \ {r} ELSE At(ts)
  BY <1>1 DEF TypeOK
<1>5. old \in DOMAIN readers /\ ReaderCount(old) = Cardinality(At(old))
  BY <1>1 DEF ReaderCount, RegistryInv, RegistryMatchesHandles
<1>6. /\ IsFiniteSet(NewAt(old))
      /\ Cardinality(NewAt(old)) = Cardinality(At(old)) - 1
  <2>1. r \in At(old) /\ NewAt(old) = At(old) \ {r}
    BY <1>1, <1>4
  <2>2. IsFiniteSet(At(old))
    BY <1>3
  <2> HIDE DEF At, NewAt, old
  <2>3. QED
    BY <2>1, <2>2, FS_RemoveElement
<1>7. DOMAIN readers' = {snap'[q] : q \in live'}
  <2>1. \A ts : ts \in {snap'[q] : q \in live'} <=> NewAt(ts) # {}
    OBVIOUS
  <2>2. \A ts : ts \in DOMAIN readers <=> At(ts) # {}
    BY DEF RegistryInv, RegistryMatchesHandles
  <2>3. NewAt(old) = {} <=> Cardinality(At(old)) <= 1
    <3>1. NewAt(old) = {} <=> Cardinality(NewAt(old)) = 0
      BY <1>6, FS_EmptySet
    <3>2. Cardinality(At(old)) \in Nat /\ Cardinality(At(old)) # 0
      BY <1>1, <1>3, FS_EmptySet
    <3>3. QED
      BY <1>6, <3>1, <3>2
  <2>4. \A ts : ts \in DOMAIN readers' <=>
            ts \in DOMAIN readers /\ ~(ts = old /\ Cardinality(At(old)) <= 1)
    BY <1>1, <1>5
  <2>5. \A ts : ts \in DOMAIN readers' <=> NewAt(ts) # {}
    BY <1>4, <1>5, <2>2, <2>3, <2>4
  <2>6. QED
    BY <2>1, <2>5
<1>8. \A ts \in DOMAIN readers' : readers'[ts] = Cardinality(NewAt(ts))
  BY <1>1, <1>4, <1>5, <1>6 DEF RegistryInv, ReaderCount
<1>9. \A ts \in DOMAIN readers' : readers'[ts] \in Nat \ {0}
  BY <1>1, <1>5 DEF TypeOK, ReaderCount
<1>10. (\A q \in live : snap[q] <= read_ts)' /\ NoReaderBelowSweep'
  BY <1>1 DEF RegistryInv, NoReaderBelowSweep, TypeOK
<1>11. QED
  BY <1>2, <1>7, <1>8, <1>9, <1>10 DEF RegistryInv, RegistryMatchesHandles

\* low_watermark: a sweep starts at or below every live handle.
LEMMA RegistrySweepBegin ==
    ASSUME TypeOK, RegistryInv, NEW c \in Collector, SweepBegin(c)
    PROVE  RegistryInv' /\ low' \in [Collector -> Nat]
<1>1. \A ts \in DOMAIN readers : ts <= read_ts
  BY DEF RegistryInv, RegistryMatchesHandles
<1>2. /\ low_watermark \in Nat
      /\ low_watermark <= read_ts
      /\ \A r \in live : low_watermark <= snap[r]
  BY <1>1, LowWatermarkBound DEF RegistryInv, RegistryMatchesHandles
<1>3. /\ low' = [low EXCEPT ![c] = low_watermark]
      /\ UNCHANGED <<read_ts, readers, live, snap>>
  BY DEF SweepBegin, oracleVars
<1> HIDE DEF low_watermark
<1>4. NoReaderBelowSweep'
  BY <1>2, <1>3 DEF RegistryInv, NoReaderBelowSweep, TypeOK
<1>5. QED
  BY <1>2, <1>3, <1>4 DEF RegistryInv, RegistryMatchesHandles, TypeOK

\* The remaining steps move the watermark up or leave the registry alone.
LEMMA RegistryStep ==
    ASSUME TypeOK, WatermarkInv, RegistryInv, [Next]_vars
    PROVE  RegistryInv'
<1>1. ASSUME NEW r \in Reader, Register(r)
      PROVE  RegistryInv'
  BY <1>1, RegistryRegister
<1>2. ASSUME NEW r \in Reader, Unregister(r)
      PROVE  RegistryInv'
  BY <1>2, RegistryUnregister
<1>3. ASSUME NEW c \in Collector, SweepBegin(c)
      PROVE  RegistryInv'
  BY <1>3, RegistrySweepBegin
<1>4. ASSUME NEW c \in Collector, SweepEnd(c)
      PROVE  RegistryInv'
  <2>1. /\ low' = [low EXCEPT ![c] = 0]
        /\ UNCHANGED <<read_ts, readers, live, snap>>
    BY <1>4 DEF SweepEnd, oracleVars
  <2>2. QED
    BY <2>1 DEF RegistryInv, RegistryMatchesHandles, NoReaderBelowSweep, TypeOK
<1>5. ASSUME NEW c \in Committer, Finish(c)
      PROVE  RegistryInv'
  <2>1. read_ts' \in Nat /\ read_ts' >= read_ts
    BY <1>5, FinishMonotone
  <2>2. UNCHANGED <<readers, live, snap, low>>
    BY <1>5 DEF Finish, commit_done
  <2>3. QED
    BY <2>1, <2>2 DEF RegistryInv, RegistryMatchesHandles, NoReaderBelowSweep,
       TypeOK
<1>6. CASE UNCHANGED <<read_ts, readers, live, snap, low>>
  BY <1>6 DEF RegistryInv, RegistryMatchesHandles, NoReaderBelowSweep
<1>7. QED
  BY <1>1, <1>2, <1>3, <1>4, <1>5, <1>6 DEF Next, vars, Alloc, alloc_commit_ts

-----------------------------------------------------------------------------
(* Types *)

\* The types hold after Oracle::recovered.
LEMMA TypeInit == Init => TypeOK
BY MaxTsAssumption DEF Init, recovered, TypeOK

\* Every method keeps the types.
LEMMA TypeStep ==
    ASSUME TypeOK, WatermarkInv, RegistryInv, [Next]_vars
    PROVE  TypeOK'
<1>1. ASSUME NEW c \in Committer, Alloc(c)
      PROVE  TypeOK'
  BY <1>1 DEF TypeOK, Alloc, alloc_commit_ts
<1>2. ASSUME NEW c \in Committer, Finish(c)
      PROVE  TypeOK'
  <2>1. /\ done_upto' \in Nat /\ read_ts' \in Nat
        /\ ahead' \in SUBSET Nat
    BY <1>2, FinishMonotone
  <2>2. /\ held' = [held EXCEPT ![c] = 0]
        /\ UNCHANGED <<next_ts, readers, live, snap, low>>
    BY <1>2 DEF Finish, commit_done
  <2>3. QED
    BY <2>1, <2>2 DEF TypeOK
<1>3. ASSUME NEW r \in Reader, Register(r)
      PROVE  TypeOK'
  <2>1. \A ts \in DOMAIN readers' : readers'[ts] \in Nat \ {0}
    BY <1>3, RegistryRegister
  <2>2. QED
    BY <1>3, <2>1 DEF TypeOK, Register, begin_reader
<1>4. ASSUME NEW r \in Reader, Unregister(r)
      PROVE  TypeOK'
  <2>1. \A ts \in DOMAIN readers' : readers'[ts] \in Nat \ {0}
    BY <1>4, RegistryUnregister
  <2>2. QED
    BY <1>4, <2>1 DEF TypeOK, Unregister, end_reader
<1>5. ASSUME NEW c \in Collector, SweepBegin(c)
      PROVE  TypeOK'
  BY <1>5, RegistrySweepBegin DEF TypeOK, SweepBegin, oracleVars
<1>6. ASSUME NEW c \in Collector, SweepEnd(c)
      PROVE  TypeOK'
  BY <1>6 DEF TypeOK, SweepEnd, oracleVars
<1>7. CASE UNCHANGED vars
  BY <1>7 DEF TypeOK, vars
<1>8. QED
  BY <1>1, <1>2, <1>3, <1>4, <1>5, <1>6, <1>7 DEF Next

-----------------------------------------------------------------------------
(* Theorems *)

\* The inductive invariant of the protocol: whatever the callers of the oracle
\* do, within its contract, its bookkeeping stays exact.
THEOREM Invariance == Spec => []IInv
<1>1. Init => IInv
  BY TypeInit, WatermarkInit, RegistryInit DEF IInv
<1>2. IInv /\ [Next]_vars => IInv'
  BY TypeStep, WatermarkStep, RegistryStep DEF IInv
<1>3. QED
  BY <1>1, <1>2, PTL DEF Spec

\* Every variable of the protocol keeps its type.
THEOREM TypeCorrect == Spec => []TypeOK
<1>1. IInv => TypeOK
  BY DEF IInv
<1>2. QED
  BY <1>1, Invariance, PTL

\* commit_done: no commit in flight lies at or below the published watermark.
THEOREM WatermarkIsSafe == Spec => []WatermarkBelowInFlight
<1>1. IInv => WatermarkBelowInFlight
  BY DEF IInv, WatermarkInv, WatermarkBelowInFlight
<1>2. QED
  BY <1>1, Invariance, PTL

\* commit_done: the watermark waits only for a commit that is still running.
THEOREM WatermarkIsTight == Spec => []WatermarkTight
<1>1. IInv => WatermarkTight
  <2>1. SUFFICES ASSUME IInv, read_ts + 1 # next_ts
                 PROVE  \E c \in Committer : held[c] = read_ts + 1
    BY DEF WatermarkTight
  <2>2. read_ts + 1 \in (done_upto + 1)..(next_ts - 1)
    BY <2>1 DEF IInv, TypeOK, WatermarkInv
  <2>3. QED
    BY <2>1, <2>2 DEF IInv, WatermarkInv
<1>2. QED
  BY <1>1, Invariance, PTL

\* alloc_commit_ts: a timestamp has one holder and is reported once.
THEOREM TimestampsAreUnique == Spec => []TimestampsUnique
<1>1. IInv => TimestampsUnique
  BY DEF IInv, WatermarkInv
<1>2. QED
  BY <1>1, Invariance, PTL

\* begin_reader and low_watermark: no sweep can reach what a live handle, or
\* one that begins while it runs, still reads.
THEOREM SweepsAreSafe == Spec => []NoReaderBelowSweep
<1>1. IInv => NoReaderBelowSweep
  BY DEF IInv, RegistryInv
<1>2. QED
  BY <1>1, Invariance, PTL

\* end_reader: the registry is exactly the set of timestamps in use.
THEOREM RegistryIsExact == Spec => []RegistryMatchesHandles
<1>1. IInv => RegistryMatchesHandles
  BY DEF IInv, RegistryInv
<1>2. QED
  BY <1>1, Invariance, PTL

\* commit_done: the watermark only moves forward, and a commit it passes has
\* been reported in that very step or before.
THEOREM WatermarkOnlyAdvances == Spec => WatermarkMonotone
<1> DEFINE Forward == /\ read_ts' >= read_ts
                      /\ \A c \in Committer :
                            read_ts' >= held[c] /\ held[c] # 0 => held'[c] = 0
<1>1. IInv /\ IInv' /\ [Next]_vars => [Forward]_vars
  <2>1. SUFFICES ASSUME IInv, IInv', Next
                 PROVE  Forward
    OBVIOUS
  <2>2. /\ read_ts \in Nat
        /\ \A c \in Committer : held[c] \in Nat /\ held'[c] \in Nat
        /\ \A c \in Committer : held[c] # 0 => read_ts < held[c]
        /\ \A c \in Committer : held'[c] # 0 => read_ts' < held'[c]
    BY <2>1 DEF IInv, TypeOK, WatermarkInv
  <2>3. ASSUME NEW c \in Committer, Finish(c)
        PROVE  Forward
    <3>1. read_ts' \in Nat /\ read_ts' >= read_ts
      BY <2>1, <2>3, FinishMonotone DEF IInv
    <3>2. held' = [held EXCEPT ![c] = 0]
      BY <2>3 DEF Finish
    <3>3. held \in [Committer -> Nat]
      BY <2>1 DEF IInv, TypeOK
    <3>4. \A d \in Committer : d # c => held'[d] = held[d]
      BY <3>2, <3>3
    <3>5. held'[c] = 0
      BY <3>2, <3>3
    <3>6. QED
      BY <2>2, <3>1, <3>4, <3>5
  <2>4. CASE read_ts' = read_ts
    BY <2>2, <2>4
  <2>5. QED
    BY <2>1, <2>3, <2>4 DEF Next, Alloc, alloc_commit_ts, Register, Unregister,
       begin_reader, end_reader, SweepBegin, SweepEnd, oracleVars
<1>2. QED
  BY <1>1, Invariance, PTL DEF Spec, WatermarkMonotone

=============================================================================
