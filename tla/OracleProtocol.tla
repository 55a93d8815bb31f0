--------------------------- MODULE OracleProtocol ---------------------------
(***************************************************************************)
(* The oracle with the callers the database gives it.                      *)
(*                                                                         *)
(* Committers take a timestamp and report it back when their commit has    *)
(* been applied or rejected, in any order (Inner::commit_writes).  Readers *)
(* register when a transaction or snapshot is created and unregister when  *)
(* it is dropped (ActiveReader).  Garbage collection asks for the low      *)
(* watermark and then discards what only older readers can see.            *)
(* This is the contract between the oracle and the rest of the database:   *)
(* Db.tla is shown to implement it.                                        *)
(***************************************************************************)
EXTENDS Oracle

CONSTANTS
    Committer,  \* threads of control that may be inside commit_writes
    Reader,     \* transaction and snapshot handles
    Collector   \* threads that may be inside collect_garbage

VARIABLES
    held,       \* held[c]: the timestamp c has yet to report, 0 for none
    live,       \* the handles that exist
    snap,       \* snap[r]: the read timestamp of handle r
    low         \* low[c]: the low watermark c is sweeping with, 0 for none

vars == <<next_ts, read_ts, done_upto, ahead, readers,
          held, live, snap, low>>

Init ==
    /\ \E highest \in 0..MaxTs : recovered(highest)
    /\ held = [c \in Committer |-> 0]
    /\ live = {}
    /\ snap = [r \in Reader |-> 0]
    /\ low = [c \in Collector |-> 0]

\* commit_writes takes its timestamp.
Alloc(c) ==
    /\ held[c] = 0
    /\ alloc_commit_ts(next_ts)
    /\ held' = [held EXCEPT ![c] = next_ts]
    /\ UNCHANGED <<live, snap, low>>

\* commit_writes reports its timestamp, whatever became of the commit.
Finish(c) ==
    /\ held[c] # 0
    /\ commit_done(held[c])
    /\ held' = [held EXCEPT ![c] = 0]
    /\ UNCHANGED <<live, snap, low>>

\* ActiveReader::new.
Register(r) ==
    /\ r \notin live
    /\ begin_reader(read_ts)
    /\ live' = live \cup {r}
    /\ snap' = [snap EXCEPT ![r] = read_ts]
    /\ UNCHANGED <<held, low>>

\* ActiveReader::drop.
Unregister(r) ==
    /\ r \in live
    /\ end_reader(snap[r])
    /\ live' = live \ {r}
    /\ snap' = [snap EXCEPT ![r] = 0]
    /\ UNCHANGED <<held, low>>

\* Inner::collect_garbage reads the low watermark and starts its sweep.
SweepBegin(c) ==
    /\ low[c] = 0
    /\ low' = [low EXCEPT ![c] = low_watermark]
    /\ UNCHANGED <<oracleVars, held, live, snap>>

\* The sweep has passed every shard.
SweepEnd(c) ==
    /\ low' = [low EXCEPT ![c] = 0]
    /\ UNCHANGED <<oracleVars, held, live, snap>>

Next ==
    \/ \E c \in Committer : Alloc(c) \/ Finish(c)
    \/ \E r \in Reader : Register(r) \/ Unregister(r)
    \/ \E c \in Collector : SweepBegin(c) \/ SweepEnd(c)

\* A commit in flight keeps running: commit_writes calls commit_done on every
\* path out, so a scheduled thread reaches it.
Fairness == \A c \in Committer : WF_vars(Finish(c))

Spec == Init /\ [][Next]_vars
FairSpec == Spec /\ Fairness

-----------------------------------------------------------------------------

\* The values the variables may take.
TypeOK ==
    /\ next_ts \in Nat
    /\ read_ts \in Nat
    /\ done_upto \in Nat
    /\ ahead \in SUBSET Nat
    /\ DOMAIN readers \in SUBSET Nat
    /\ \A ts \in DOMAIN readers : readers[ts] \in Nat \ {0}
    /\ held \in [Committer -> Nat]
    /\ live \in SUBSET Reader
    /\ snap \in [Reader -> Nat]
    /\ low \in [Collector -> Nat]

\* oracle.rs: "every commit <= read_ts is fully applied".  No commit in flight
\* holds a timestamp a reader beginning now could already observe.
WatermarkBelowInFlight ==
    \A c \in Committer : held[c] # 0 => read_ts < held[c]

\* The watermark lags only behind a commit that is still running: the timestamp
\* after it is either not handed out yet or held by someone.  A rejected
\* commit, or a run of commits that finished out of order, never stalls it.
WatermarkTight ==
    \/ read_ts + 1 = next_ts
    \/ \E c \in Committer : held[c] = read_ts + 1

\* No two commits in flight share a timestamp, and none holds one that the
\* oracle already counts as finished.
TimestampsUnique ==
    \A c \in Committer : held[c] # 0 =>
        /\ held[c] \notin ahead
        /\ \A d \in Committer \ {c} : held[d] # held[c]

\* No sweep runs with a low watermark above the read timestamp of a live
\* handle, even one created after the watermark was read, or above the one
\* that a handle created now would get.
NoReaderBelowSweep ==
    \A c \in Collector :
        /\ low[c] <= read_ts
        /\ \A r \in live : low[c] <= snap[r]

\* The registry never forgets a live handle, and never keeps a dead one: with
\* no handle left nothing pins old versions.
RegistryMatchesHandles == DOMAIN readers = {snap[r] : r \in live}

\* The inductive form of the watermark properties: every timestamp handed out
\* beyond the watermark is accounted for, as finished or as held, never both.
WatermarkInv ==
    /\ read_ts = done_upto
    /\ done_upto < next_ts
    /\ done_upto + 1 \notin ahead
    /\ \A ts \in ahead : done_upto < ts /\ ts < next_ts
    /\ \A c \in Committer : held[c] # 0 =>
            done_upto < held[c] /\ held[c] < next_ts
    /\ TimestampsUnique
    /\ \A ts \in (done_upto + 1)..(next_ts - 1) :
            ts \in ahead \/ \E c \in Committer : held[c] = ts

\* The inductive form of the registry properties: an entry counts exactly the
\* live handles at its timestamp, and none lies above the watermark.
RegistryInv ==
    /\ IsFiniteSet(live)
    /\ RegistryMatchesHandles
    /\ \A ts \in DOMAIN readers :
            readers[ts] = Cardinality({r \in live : snap[r] = ts})
    /\ \A r \in live : snap[r] <= read_ts
    /\ NoReaderBelowSweep

IInv == TypeOK /\ WatermarkInv /\ RegistryInv

\* The watermark only moves forward, and only commit_done moves it past a
\* timestamp that was in flight.
WatermarkMonotone ==
    [][/\ read_ts' >= read_ts
       /\ \A c \in Committer : read_ts' >= held[c] /\ held[c] # 0
             => held'[c] = 0]_vars

\* Every timestamp handed out is eventually covered by the watermark: commits
\* become visible although they finish out of order.
WatermarkCatchesUp ==
    \A ts \in 1..MaxTs : (next_ts > ts) ~> (read_ts >= ts)

=============================================================================
