----------------------- MODULE SnapshotIsolationProofs -----------------------
(***************************************************************************)
(* What SnapshotIsolation implies for any keys, transactions and           *)
(* timestamps.  The database inherits it through the refinement.           *)
(***************************************************************************)
EXTENDS SnapshotIsolation, TLAPS

\* The empty store.
LEMMA InitInv == Init => IInv
<1> SUFFICES ASSUME Init PROVE IInv
  OBVIOUS
<1>1. DOMAIN Nothing = {}
  BY DEF Nothing
<1>2. TypeOK
  BY DEF Init, TypeOK
<1>3. Frame
  BY <1>1 DEF Init, Frame
<1>4. StableReads
  BY <1>1 DEF Init, StableReads
<1>5. QED
  BY <1>2, <1>3, <1>4 DEF IInv

\* A new handle reads at visible and has read nothing.
LEMMA StartStep ==
    ASSUME IInv, NEW t \in Txn, NEW serializable \in BOOLEAN,
           Start(t, serializable)
    PROVE  IInv'
<1>1. TypeOK'
  BY DEF IInv, TypeOK, Start
<1>2. Frame'
  BY DEF IInv, TypeOK, Frame, Start
<1>3. StableReads'
  BY DEF IInv, TypeOK, Frame, StableReads, Start, ValueAt
<1>4. QED
  BY <1>1, <1>2, <1>3 DEF IInv

\* A read returns the state as of the snapshot.
LEMMA ReadStep ==
    ASSUME IInv, NEW t \in Txn, NEW k \in Key, Read(t, k)
    PROVE  IInv'
<1>1. TypeOK'
  BY DEF IInv, TypeOK, Read
<1>2. Frame'
  BY DEF IInv, TypeOK, Frame, Read
<1>3. StableReads'
  BY DEF IInv, TypeOK, StableReads, Read, ValueAt
<1>4. QED
  BY <1>1, <1>2, <1>3 DEF IInv

\* A commit takes a timestamp above visible, so it changes no state as of a
\* timestamp that could have been read at (step <1>4).
LEMMA CommitStep ==
    ASSUME IInv, NEW t \in Txn, NEW b \in Batch(t), NEW ts \in Timestamp,
           Commit(t, b, ts)
    PROVE  IInv'
<1>1. /\ ts \in Nat /\ visible \in Nat /\ ts > visible
      /\ when \in [Txn -> Nat] /\ DOMAIN batch = Txn /\ when[t] = 0
      /\ batch' = [batch EXCEPT ![t] = b]
      /\ when' = [when EXCEPT ![t] = ts]
      /\ UNCHANGED <<visible, snapshot, observed>>
  BY TimestampAssumption DEF IInv, TypeOK, Frame, Commit
<1>2. TypeOK'
  BY <1>1 DEF IInv, TypeOK, Commit
<1>3. Frame'
  BY <1>1 DEF IInv, TypeOK, Frame, Commit
<1>4. ASSUME NEW k, NEW s \in Nat, s < ts
      PROVE  ValueIn(batch', when', k, s) = ValueIn(batch, when, k, s)
  <2>1. /\ when'[t] = ts
        /\ \A u \in Txn \ {t} : when'[u] = when[u] /\ batch'[u] = batch[u]
    BY <1>1
  <2>2. Writers(batch', when', k, s) = Writers(batch, when, k, s)
    BY <1>1, <1>4, <2>1 DEF Writers
  <2>3. \A u \in Writers(batch, when, k, s) :
            when'[u] = when[u] /\ batch'[u] = batch[u]
    BY <1>1, <2>1 DEF Writers
  <2>4. LastWriter(batch', when', k, s) = LastWriter(batch, when, k, s)
    BY <2>2, <2>3 DEF LastWriter
  <2> DEFINE last == LastWriter(batch, when, k, s)
  <2>5. last # {} => batch'[TheOne(last)] = batch[TheOne(last)]
    BY <2>3 DEF LastWriter, TheOne
  <2>6. QED
    BY <2>4, <2>5 DEF ValueIn
<1>5. StableReads'
  <2>1. SUFFICES ASSUME NEW u \in Txn, NEW k \in DOMAIN observed[u]
                 PROVE  observed[u][k] = ValueIn(batch', when', k, snapshot[u])
    BY <1>1 DEF StableReads, ValueAt
  <2>2. snapshot[u] \in Nat /\ snapshot[u] < ts
    BY <1>1 DEF IInv, TypeOK, Frame
  <2>3. ValueIn(batch', when', k, snapshot[u]) = ValueIn(batch, when, k, snapshot[u])
    BY <1>4, <2>2, Zenon
  <2>4. QED
    BY <2>3 DEF IInv, StableReads, ValueAt
<1>6. QED
  BY <1>2, <1>3, <1>5 DEF IInv

\* A handle that ends without a commit changes no history.
LEMMA FinishStep ==
    ASSUME IInv, NEW t \in Txn, Finish(t)
    PROVE  IInv'
<1>1. DOMAIN Nothing = {}
  BY DEF Nothing
<1>2. TypeOK'
  BY DEF IInv, TypeOK, Finish
<1>3. Frame'
  BY <1>1 DEF IInv, TypeOK, Frame, Finish
<1>4. StableReads'
  BY <1>1 DEF IInv, TypeOK, StableReads, Finish, ValueAt
<1>5. QED
  BY <1>2, <1>3, <1>4 DEF IInv

\* visible only grows, so snapshots stay below it.
LEMMA AdvanceStep ==
    ASSUME IInv, NEW ts \in Timestamp, Advance(ts)
    PROVE  IInv'
<1>1. TypeOK' /\ Frame'
  BY TimestampAssumption DEF IInv, TypeOK, Frame, Advance
<1>2. StableReads'
  BY DEF IInv, StableReads, Advance, ValueAt
<1>3. QED
  BY <1>1, <1>2 DEF IInv

\* The inductive invariant of the abstract store.
THEOREM Invariance == Spec => []IInv
<1>1. IInv /\ [Next]_vars => IInv'
  <2>1. CASE UNCHANGED vars
    BY <2>1 DEF IInv, TypeOK, Frame, StableReads, ValueAt, vars
  <2>2. QED
    BY <2>1, StartStep, ReadStep, CommitStep, FinishStep, AdvanceStep DEF Next
<1>2. QED
  BY <1>1, InitInv, PTL DEF Spec

\* Transaction::get: a snapshot never changes under its reader.
THEOREM ReadsAreStable == Spec => []StableReads
<1>1. IInv => StableReads
  BY DEF IInv
<1>2. QED
  BY <1>1, Invariance, PTL

=============================================================================
