-------------------------- MODULE SnapshotIsolation --------------------------
(***************************************************************************)
(* What the database promises its transactions, with nothing of how: no    *)
(* locks, no version chains, no registry, no garbage collection.           *)
(*                                                                         *)
(* A transaction reads the state as of one timestamp, fixed when it starts. *)
(* It commits in one step at a timestamp above everything visible, and only *)
(* if nobody has committed a write to one of its keys after its snapshot;  *)
(* a serializable one also answers for the keys it read.  Commit           *)
(* timestamps need not follow the order of the commits.                    *)
(***************************************************************************)
EXTENDS Naturals, FiniteSetsExt

CONSTANTS
    Key,
    Txn,        \* the value a transaction puts is its own name
    None,       \* the value of an absent or deleted key
    Timestamp   \* the commit timestamps

ASSUME TimestampAssumption == Timestamp \subseteq Nat

VARIABLES
    visible,     \* every commit at or below it is settled and readable
    phase,       \* phase[t] \in {"idle", "active", "committed", "over"}
    checked,     \* checked[t]: the reads of t are validated too
    snapshot,    \* snapshot[t]: the timestamp t reads at
    observed,    \* observed[t]: key -> value read from the snapshot
    batch,       \* batch[t]: key -> value committed by t
    when         \* when[t]: its commit timestamp, 0 before

vars == <<visible, phase, checked, snapshot, observed, batch, when>>

Nothing == [k \in {} |-> None]

\* In a history of batches b committed at w: those that committed a write to k
\* at or before ts.
Writers(b, w, k, ts) ==
    {u \in Txn : k \in DOMAIN b[u] /\ 0 < w[u] /\ w[u] <= ts}

\* The last of them, as a set of at most one.
LastWriter(b, w, k, ts) ==
    {u \in Writers(b, w, k, ts) : \A v \in Writers(b, w, k, ts) : w[v] <= w[u]}

TheOne(S) == CHOOSE x \in S : TRUE

\* The value of k as of ts in that history, and now.
ValueIn(b, w, k, ts) ==
    IF LastWriter(b, w, k, ts) = {} THEN None
    ELSE b[TheOne(LastWriter(b, w, k, ts))][k]

ValueAt(k, ts) == ValueIn(batch, when, k, ts)

Init ==
    /\ visible = 0
    /\ phase = [t \in Txn |-> "idle"]
    /\ checked = [t \in Txn |-> FALSE]
    /\ snapshot = [t \in Txn |-> 0]
    /\ observed = [t \in Txn |-> Nothing]
    /\ batch = [t \in Txn |-> Nothing]
    /\ when = [t \in Txn |-> 0]

\* Faulty variant: reads above what is visible.
Start_ahead(t, serializable) ==
    /\ phase[t] = "idle"
    /\ phase' = [phase EXCEPT ![t] = "active"]
    /\ checked' = [checked EXCEPT ![t] = serializable]
    /\ snapshot' = [snapshot EXCEPT ![t] = visible + 1]
    /\ UNCHANGED <<visible, observed, batch, when>>

\* A handle is created: db.begin, begin_serializable, snapshot.
Start(t, serializable) ==
    /\ phase[t] = "idle"
    /\ phase' = [phase EXCEPT ![t] = "active"]
    /\ checked' = [checked EXCEPT ![t] = serializable]
    /\ snapshot' = [snapshot EXCEPT ![t] = visible]
    /\ UNCHANGED <<visible, observed, batch, when>>

\* A read that the write buffer does not answer.
Read(t, k) ==
    /\ phase[t] = "active"
    /\ observed' = [observed EXCEPT ![t] = [j \in DOMAIN @ \cup {k} |->
            IF j = k THEN ValueAt(k, snapshot[t]) ELSE @[j]]]
    /\ UNCHANGED <<visible, phase, checked, snapshot, batch, when>>

\* The keys t answers for when it commits the batch b.
Footprint(t, b) ==
    DOMAIN b \cup (IF checked[t] THEN DOMAIN observed[t] ELSE {})

\* Nobody has committed to those keys after the snapshot.
Unchallenged(t, b) ==
    \A u \in Txn : when[u] > snapshot[t] =>
        DOMAIN batch[u] \cap Footprint(t, b) = {}

\* What t may commit: puts of its own name and deletes.
Batch(t) == UNION {[D -> {t, None}] : D \in (SUBSET Key) \ {{}}}

\* Faulty variant: commits at a timestamp that is visible already.
Commit_in_the_past(t, b, ts) ==
    /\ phase[t] = "active"
    /\ phase' = [phase EXCEPT ![t] = "committed"]
    /\ \A u \in Txn : when[u] # ts
    /\ Unchallenged(t, b)
    /\ batch' = [batch EXCEPT ![t] = b]
    /\ when' = [when EXCEPT ![t] = ts]
    /\ UNCHANGED <<visible, checked, snapshot, observed>>

\* The whole of Transaction::commit, as one step.
Commit(t, b, ts) ==
    /\ phase[t] = "active"
    /\ phase' = [phase EXCEPT ![t] = "committed"]
    /\ ts > visible
    /\ \A u \in Txn : when[u] # ts
    /\ Unchallenged(t, b)
    /\ batch' = [batch EXCEPT ![t] = b]
    /\ when' = [when EXCEPT ![t] = ts]
    /\ UNCHANGED <<visible, checked, snapshot, observed>>

\* A transaction ends without a write: it only read, it was rolled back, or it
\* lost a conflict.
Finish(t) ==
    /\ phase[t] = "active"
    /\ phase' = [phase EXCEPT ![t] = "over"]
    /\ observed' \in {observed, [observed EXCEPT ![t] = Nothing]}
    /\ UNCHANGED <<visible, checked, snapshot, batch, when>>

\* More commits become visible to those that start from now on.
Advance(ts) ==
    /\ ts > visible
    /\ visible' = ts
    /\ UNCHANGED <<phase, checked, snapshot, observed, batch, when>>

Next ==
    \/ \E t \in Txn :
        \/ \E serializable \in BOOLEAN : Start(t, serializable)
        \/ \E k \in Key : Read(t, k)
        \/ \E b \in Batch(t), ts \in Timestamp : Commit(t, b, ts)
        \/ Finish(t)
    \/ \E ts \in Timestamp : Advance(ts)

Spec == Init /\ [][Next]_vars

-----------------------------------------------------------------------------

\* The values the variables may take.
TypeOK ==
    /\ visible \in Nat
    /\ phase \in [Txn -> {"idle", "active", "committed", "over"}]
    /\ checked \in [Txn -> BOOLEAN]
    /\ snapshot \in [Txn -> Nat]
    /\ when \in [Txn -> Nat]
    /\ DOMAIN observed = Txn
    /\ DOMAIN batch = Txn

\* What a transaction read stays true of its snapshot: no commit, whatever its
\* timestamp, changes the state as of a timestamp someone has read at.
StableReads ==
    \A t \in Txn : \A k \in DOMAIN observed[t] :
        observed[t][k] = ValueAt(k, snapshot[t])

\* What makes it inductive: nobody reads above visible, and a transaction
\* has written nothing before it commits and read nothing before it starts.
Frame ==
    \A t \in Txn :
        /\ snapshot[t] <= visible
        /\ phase[t] # "committed" => when[t] = 0 /\ DOMAIN batch[t] = {}
        /\ phase[t] = "idle" => DOMAIN observed[t] = {}

IInv == TypeOK /\ Frame /\ StableReads

=============================================================================
