------------------------------- MODULE Oracle -------------------------------
(***************************************************************************)
(* The timestamp oracle of one database (src/oracle.rs).                   *)
(*                                                                         *)
(* It hands out commit timestamps, publishes the watermark new readers     *)
(* read at, and keeps the registry of live readers that bounds garbage     *)
(* collection.  Each operator below is one method.  A method touches shared *)
(* state at one point only (one atomic access, or one critical section of  *)
(* one mutex), so each is a single step of whoever calls it.  The modules  *)
(* that extend this one say who calls what, and when.                      *)
(***************************************************************************)
EXTENDS Naturals, FiniteSetsExt

CONSTANT
    MaxTs       \* the largest value of next_ts (2^64 - 1 in the code)

ASSUME MaxTsAssumption == MaxTs \in Nat

VARIABLES
    next_ts,    \* the next commit timestamp to hand out
    read_ts,    \* the published watermark
    done_upto,  \* Pending.done_upto: every timestamp up to it has finished
    ahead,      \* Pending.ahead: finished timestamps beyond a gap
    readers     \* registry: read timestamp -> number of live readers at it

oracleVars == <<next_ts, read_ts, done_upto, ahead, readers>>

\* Oracle::recovered: every commit up to highest is already applied.
recovered(highest) ==
    /\ next_ts = highest + 1
    /\ read_ts = highest
    /\ done_upto = highest
    /\ ahead = {}
    /\ readers = [ts \in {} |-> 0]

\* Oracle::new: an empty database, whose first commit timestamp is 1.
new == recovered(0)

\* Faulty variant: the counter restarts from what has finished, not from what
\* has been handed out.
alloc_commit_ts_from_done(ts) ==
    /\ next_ts < MaxTs
    /\ ts = next_ts
    /\ next_ts' = done_upto + 2
    /\ UNCHANGED <<read_ts, done_upto, ahead, readers>>

\* Oracle::alloc_commit_ts: one fetch_add; ts is the timestamp it returns.  The
\* model stops where the 64-bit counter would wrap.
alloc_commit_ts(ts) ==
    /\ next_ts < MaxTs
    /\ ts = next_ts
    /\ next_ts' = next_ts + 1
    /\ UNCHANGED <<read_ts, done_upto, ahead, readers>>

\* The number of readers registered at ts, 0 when the map has no entry.
ReaderCount(ts) == IF ts \in DOMAIN readers THEN readers[ts] ELSE 0

\* Faulty variant: a second reader at a timestamp is not counted.
begin_reader_uncounted(ts) ==
    /\ ts = read_ts
    /\ readers' = [r \in DOMAIN readers \cup {ts} |->
                      IF r = ts THEN 1 ELSE readers[r]]
    /\ UNCHANGED <<next_ts, read_ts, done_upto, ahead>>

\* Oracle::begin_reader: the watermark is loaded while the registry lock is
\* held, and the reader is counted at it.
begin_reader(ts) ==
    /\ ts = read_ts
    /\ readers' = [r \in DOMAIN readers \cup {ts} |->
                      IF r = ts THEN ReaderCount(ts) + 1 ELSE readers[r]]
    /\ UNCHANGED <<next_ts, read_ts, done_upto, ahead>>

\* Faulty variant: the entry goes with the first reader that leaves.
end_reader_drops_entry(ts) ==
    /\ readers' = [r \in DOMAIN readers \ {ts} |-> readers[r]]
    /\ UNCHANGED <<next_ts, read_ts, done_upto, ahead>>

\* Faulty variant: the entry stays when the last reader has left.
end_reader_keeps_zero(ts) ==
    /\ readers' = IF ts \in DOMAIN readers
                  THEN [readers EXCEPT ![ts] = @ - 1] ELSE readers
    /\ UNCHANGED <<next_ts, read_ts, done_upto, ahead>>

\* Oracle::end_reader: one reader fewer at ts; the entry goes with the last.
end_reader(ts) ==
    /\ readers' = IF ReaderCount(ts) <= 1
                  THEN [r \in DOMAIN readers \ {ts} |-> readers[r]]
                  ELSE [readers EXCEPT ![ts] = @ - 1]
    /\ UNCHANGED <<next_ts, read_ts, done_upto, ahead>>

\* Faulty variant: the registry is not consulted.
low_watermark_is_read_ts == read_ts

\* Oracle::low_watermark: the oldest registered reader, or the watermark.
low_watermark ==
    IF DOMAIN readers = {} THEN read_ts ELSE Min(DOMAIN readers)

\* The first timestamp after ts that is not in the set done.
FirstGap(ts, done) ==
    CHOOSE m \in {ts + 1} \cup {k + 1 : k \in done} :
        /\ m > ts
        /\ m \notin done
        /\ \A k \in (ts + 1)..(m - 1) : k \in done

\* Faulty variant: the watermark jumps to any timestamp that finishes.
commit_done_unordered(ts) ==
    /\ done_upto' = Max({done_upto, ts})
    /\ read_ts' = Max({done_upto, ts})
    /\ UNCHANGED <<next_ts, ahead, readers>>

\* Faulty variant: the timestamps that finished early are not drained.
commit_done_undrained(ts) ==
    /\ IF ts = done_upto + 1
       THEN done_upto' = ts /\ read_ts' = ts /\ UNCHANGED ahead
       ELSE ahead' = ahead \cup {ts} /\ UNCHANGED <<done_upto, read_ts>>
    /\ UNCHANGED <<next_ts, readers>>

\* Faulty variant: the watermark is published whether or not it moved.
commit_done_publishes_ts(ts) ==
    /\ IF ts = done_upto + 1
       THEN LET upto == FirstGap(ts, ahead) - 1
            IN  done_upto' = upto /\ ahead' = ahead \ ((ts + 1)..upto)
       ELSE ahead' = ahead \cup {ts} /\ UNCHANGED done_upto
    /\ read_ts' = ts
    /\ UNCHANGED <<next_ts, readers>>

\* Oracle::commit_done: the timestamp after the watermark moves it over every
\* finished timestamp that follows without a gap; any other one waits.
commit_done(ts) ==
    /\ IF ts = done_upto + 1
       THEN LET upto == FirstGap(ts, ahead) - 1
            IN  /\ done_upto' = upto
                /\ ahead' = ahead \ ((ts + 1)..upto)
                /\ read_ts' = upto
       ELSE /\ ahead' = ahead \cup {ts}
            /\ UNCHANGED <<done_upto, read_ts>>
    /\ UNCHANGED <<next_ts, readers>>

=============================================================================
