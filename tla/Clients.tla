------------------------------- MODULE Clients -------------------------------
(***************************************************************************)
(* Programs that use the database from several threads: the autocommit     *)
(* calls of src/db.rs and the programs under examples/.  Each builds on    *)
(* the retry loop the error type is made for: begin, read, write, commit,  *)
(* and once more from the start while the error is retryable.              *)
(*                                                                         *)
(* A thread of Txn works through a script of calls.  It has one handle at a *)
(* time, so the handle of Db is used again for the next attempt or call.   *)
(* The behaviour starts where the program's seed transaction, if it has    *)
(* one, has committed at timestamp 1.                                      *)
(***************************************************************************)
EXTENDS DbProperties, TLC

CONSTANTS w1, w2, w3    \* the worker threads

ASSUME WorkerAssumption == Txn = {w1, w2, w3} /\ Cardinality(Txn) = 3

VARIABLES
    program,    \* the program that runs, fixed at the start
    returned,   \* returned[c]: what the calls of c have returned so far
    versions_applied,   \* the counter of a CountingStore
    owed        \* threads inside its try_commit, with versions still to count

clientVars == <<program, returned, versions_applied, owed>>
allVars == <<vars, clientVars>>

-----------------------------------------------------------------------------
(* Errors *)

\* TxnError::is_retryable
is_retryable(e) == e = "conflict"

-----------------------------------------------------------------------------
(* The calls: which kind of handle, which keys are read first, and what the *)
(* call needs to know later.                                               *)

\* One turn of increment_many.
increment == [fn |-> "increment", kind |-> "si", reads |-> <<"counter">>]

transfer(from, to, amount) ==
    [fn |-> "transfer", kind |-> "si", reads |-> <<from, to>>,
     amount |-> amount]

\* begin(isolation) followed by try_go_off_call(doctor).
go_off_call(doctor, isolation) ==
    [fn |-> "go_off_call", kind |-> isolation, reads |-> <<"alice", "bob">>,
     doctor |-> doctor]

\* Db::put and Db::delete.
put(key, value) ==
    [fn |-> "put", kind |-> "si", reads |-> <<>>, batch |-> key :> value]

delete(key) ==
    [fn |-> "delete", kind |-> "si", reads |-> <<>>, batch |-> key :> None]

\* A transaction that only writes, whose error goes to the caller.
write(batch) ==
    [fn |-> "write", kind |-> "si", reads |-> <<>>, batch |-> batch]

\* A handle that only reads and is then dropped: a snapshot (print_config), or
\* a transaction (quick_start).  Db::get is the report of one key.
report(keys, knd) == [fn |-> "report", kind |-> knd, reads |-> keys]

\* balance and read_u64: an absent key counts as zero.
balance(value) == IF value = None THEN 0 ELSE value

-----------------------------------------------------------------------------
(* The programs: what is committed before the threads start, and a script   *)
(* for each of them.                                                       *)

\* examples/concurrent_counter.rs
counter_main ==
    [name |-> "counter", seed |-> "counter" :> 0, sweeps |-> FALSE,
     script |-> w1 :> <<increment, increment>>
                @@ w2 :> <<increment, increment>>
                @@ w3 :> <<>>]

\* examples/bank_transfer.rs, with two transfers at once that the account
\* covers one at a time, while the balances are reported.
bank_main ==
    [name |-> "bank", seed |-> "alice" :> 2 @@ "bob" :> 0, sweeps |-> FALSE,
     script |-> w1 :> <<transfer("alice", "bob", 1)>>
                @@ w2 :> <<transfer("alice", "bob", 2)>>
                @@ w3 :> <<report(<<"alice", "bob">>, "snapshot")>>]

\* run of examples/serializable_doctors.rs, with both doctors at once.
doctors_run(isolation) ==
    [name |-> "doctors", seed |-> "alice" :> 1 @@ "bob" :> 1,
     sweeps |-> FALSE,
     script |-> w1 :> <<go_off_call("alice", isolation)>>
                @@ w2 :> <<go_off_call("bob", isolation)>>
                @@ w3 :> <<report(<<"alice", "bob">>, "snapshot")>>]

\* examples/snapshot_reads.rs and quick_start.rs: a configuration of two keys
\* is replaced while a snapshot and a transaction read it.
config_main ==
    [name |-> "config", seed |-> "mode" :> 1 @@ "limit" :> 1,
     sweeps |-> FALSE,
     script |-> w1 :> <<write("mode" :> 2 @@ "limit" :> 2)>>
                @@ w2 :> <<report(<<"mode", "limit">>, "snapshot")>>
                @@ w3 :> <<report(<<"mode", "limit">>, "si")>>]

\* Autocommit calls on one key.
autocommit_main ==
    [name |-> "autocommit", seed |-> "counter" :> 0, sweeps |-> FALSE,
     script |-> w1 :> <<put("counter", 1)>>
                @@ w2 :> <<put("counter", 2)>>
                @@ w3 :> <<delete("counter")>>]

\* examples/garbage_collection.rs: a key is overwritten, and here also
\* deleted, while a snapshot pins what it sees and sweeps go on.
gc_main ==
    [name |-> "gc", seed |-> "counter" :> 0, sweeps |-> TRUE,
     script |-> w1 :> <<delete("counter")>>
                @@ w2 :> <<report(<<"counter">>, "snapshot")>>
                @@ w3 :> <<put("counter", 2)>>]

\* examples/custom_store.rs: a store that counts the versions it applies, under
\* two writers that may conflict.  It has no collect_garbage of its own, so a
\* sweep does nothing.
custom_main ==
    [name |-> "custom", seed |-> Nothing, sweeps |-> FALSE,
     script |-> w1 :> <<write("a" :> 1 @@ "b" :> 2)>>
                @@ w2 :> <<write("b" :> 3)>>
                @@ w3 :> <<report(<<"a", "b", "c">>, "si")>>]

\* The doctors run under either isolation.
doctors_main == {doctors_run(isolation) : isolation \in {"si", "ser"}}

Programs == {counter_main, bank_main, config_main, autocommit_main, gc_main,
             custom_main} \cup doctors_main

ClientsInit ==
    /\ program \in Programs
    /\ returned = [c \in Txn |-> <<>>]
    /\ versions_applied = 0
    /\ owed = {}
    /\ recovered(IF program.seed = Nothing THEN 0 ELSE 1)
    /\ chains = [k \in Key |-> IF k \in DOMAIN program.seed
                               THEN <<Version(1, program.seed[k])>> ELSE <<>>]
    /\ lock = [s \in Shard |-> None]
    /\ pc = [c \in Txn |-> "idle"]
    /\ kind = [c \in Txn |-> "none"]
    /\ snap_ts = [c \in Txn |-> 0]
    /\ writes = [c \in Txn |-> Nothing]
    /\ seen = [c \in Txn |-> Nothing]
    /\ commit_ts = [c \in Txn |-> 0]
    /\ outcome = [c \in Txn |-> "none"]
    /\ gc = [g \in Collector |-> Resting]

-----------------------------------------------------------------------------
(* The steps of a thread *)

Running(c) == Len(returned[c]) < Len(program.script[c])

\* The call c is in, when it is Running.
Call(c) == program.script[c][Len(returned[c]) + 1]

\* The keys of the call that are still to be read, as indices.
Unread(c) ==
    {i \in DOMAIN Call(c).reads : Call(c).reads[i] \notin DOMAIN seen[c]}

StartCall(c) ==
    /\ Running(c)
    /\ Begin(c, Call(c).kind)
    /\ UNCHANGED clientVars

ReadNext(c) ==
    /\ pc[c] = "active"
    /\ writes[c] = Nothing
    /\ Unread(c) # {}
    /\ Get(c, Call(c).reads[Min(Unread(c))])
    /\ UNCHANGED clientVars

\* The reads of a call to one of the functions fns are done.
Ready(c, fns) ==
    /\ pc[c] = "active"
    /\ writes[c] = Nothing
    /\ Call(c).fn \in fns
    /\ Unread(c) = {}

\* The puts and deletes that fill the write buffer.
BufferAll(c, batch) ==
    /\ writes' = [writes EXCEPT ![c] = batch]
    /\ UNCHANGED <<oracleVars, storeVars, pc, kind, snap_ts, seen, commit_ts,
                   outcome, gc, clientVars>>

\* The handle is dropped.
DropHandle(c) == Rollback(c) /\ UNCHANGED clientVars

Increment(c) ==
    /\ Ready(c, {"increment"})
    /\ BufferAll(c, "counter" :> balance(seen[c]["counter"]) + 1)

\* The balances a transfer has read, of the giver and of the receiver.
from_balance(c) == balance(seen[c][Call(c).reads[1]])
to_balance(c) == balance(seen[c][Call(c).reads[2]])

Transfer(c) ==
    /\ Ready(c, {"transfer"})
    /\ from_balance(c) >= Call(c).amount
    /\ BufferAll(c, Call(c).reads[1] :> from_balance(c) - Call(c).amount
                    @@ Call(c).reads[2] :> to_balance(c) + Call(c).amount)

\* Insufficient funds: the transaction is dropped on the way out.
Overdraw(c) ==
    /\ Ready(c, {"transfer"})
    /\ from_balance(c) < Call(c).amount
    /\ DropHandle(c)

on_call(view) == {d \in DOMAIN view : view[d] = 1}

GoOffCall(c) ==
    /\ Ready(c, {"go_off_call"})
    /\ Cardinality(on_call(seen[c])) >= 2
    /\ BufferAll(c, Call(c).doctor :> 0)

StayOnCall(c) ==
    /\ Ready(c, {"go_off_call"})
    /\ Cardinality(on_call(seen[c])) < 2
    /\ DropHandle(c)

WriteBatch(c) ==
    /\ Ready(c, {"put", "delete", "write"})
    /\ BufferAll(c, Call(c).batch)

EndReport(c) == Ready(c, {"report"}) /\ DropHandle(c)

\* Faulty variant: a refused commit is counted too.
Counted_always(c) ==
    /\ program.name = "custom"
    /\ pc[c] = "committing"
    /\ pc'[c] = "decided"

\* try_commit of a CountingStore counts what has been applied.
Counted(c) ==
    /\ program.name = "custom"
    /\ pc[c] = "committing"
    /\ outcome'[c] = "ok"

\* Transaction::commit.  The examples are on the in-memory store; the
\* autocommit calls may be on one that fails.
Commit(c) ==
    /\ c \notin owed
    /\ AllocCommitTs(c) \/ CommitStep(c)
    /\ outcome'[c] = "store" => program.name = "autocommit"
    /\ owed' = IF Counted(c) THEN owed \cup {c} ELSE owed
    /\ UNCHANGED <<program, returned, versions_applied>>

\* CountingStore::try_commit, after the inner store has answered.
Count(c) ==
    /\ c \in owed
    /\ versions_applied' = versions_applied + Cardinality(DOMAIN writes[c])
    /\ owed' = owed \ {c}
    /\ UNCHANGED <<vars, program, returned>>

\* The thread has no handle any more.
Recycle(c) ==
    /\ pc' = [pc EXCEPT ![c] = "idle"]
    /\ kind' = [kind EXCEPT ![c] = "none"]
    /\ snap_ts' = [snap_ts EXCEPT ![c] = 0]
    /\ writes' = [writes EXCEPT ![c] = Nothing]
    /\ seen' = [seen EXCEPT ![c] = Nothing]
    /\ commit_ts' = [commit_ts EXCEPT ![c] = 0]
    /\ outcome' = [outcome EXCEPT ![c] = "none"]
    /\ UNCHANGED <<oracleVars, storeVars, gc>>

\* Faulty variant: the loops give up on the first conflict.
Retries_never(c) == FALSE

\* The calls that loop, after an error that says so.
Retries(c) ==
    /\ is_retryable(outcome[c])
    /\ Call(c).fn \in {"put", "delete", "increment", "transfer"}

Retry(c) ==
    /\ pc[c] = "ended"
    /\ Retries(c)
    /\ Recycle(c)
    /\ UNCHANGED clientVars

\* What the call answers.  A transfer reports a lack of funds as a store error.
result(c) ==
    IF Call(c).fn = "transfer" /\ outcome[c] = "rolled_back" THEN "store"
    ELSE outcome[c]

\* The call returns its answer, and the timestamp of a commit.
Return(c) ==
    /\ pc[c] = "ended"
    /\ ~Retries(c)
    /\ returned' = [returned EXCEPT ![c] =
                       Append(@, [outcome |-> result(c),
                                  ts |-> commit_ts[c]])]
    /\ Recycle(c)
    /\ UNCHANGED <<program, versions_applied, owed>>

ClientStep(c) ==
    \/ StartCall(c) \/ ReadNext(c)
    \/ Increment(c) \/ Transfer(c) \/ Overdraw(c) \/ GoOffCall(c)
    \/ StayOnCall(c) \/ WriteBatch(c) \/ EndReport(c)
    \/ Commit(c) \/ Count(c) \/ Retry(c) \/ Return(c)

\* The calls of collect_garbage, in a program that makes them.
Sweep(g) ==
    /\ program.sweeps
    /\ CollectBegin(g) \/ CollectShard(g)
    /\ UNCHANGED clientVars

ClientsNext ==
    \/ \E c \in Txn : ClientStep(c)
    \/ \E g \in Collector : Sweep(g)

\* Threads keep running, and a program that collects does so periodically, as
\* the documentation of collect_garbage asks.
ClientsSpec ==
    /\ ClientsInit
    /\ [][ClientsNext]_allVars
    /\ \A c \in Txn : WF_allVars(ClientStep(c))
    /\ \A g \in Collector : WF_allVars(Sweep(g))

-----------------------------------------------------------------------------
(* What the programs rely on *)

AllReturned == \A c \in Txn : ~Running(c)

\* Db::last_committed
last_committed == read_ts

\* How many calls of c have had their writes applied.
AppliedCalls(c) ==
    Cardinality({i \in DOMAIN returned[c] : returned[c][i].outcome = "ok"})
        + IF outcome[c] = "ok" THEN 1 ELSE 0

Newest(k) == chains[k][Len(chains[k])].value

\* concurrent_counter.rs: "no update is ever lost".  At every moment, not only
\* after the join, the newest value is the number of increments committed.
CounterExact ==
    program.name = "counter" =>
        Newest("counter") = MapThenSumSet(AppliedCalls, Txn)

\* bank_transfer.rs: the debit and the credit both apply or neither does, at
\* whatever instant the balances are read, and concurrent transfers lose no
\* update: what has left the account is what the applied transfers moved.
MoneyConserved ==
    program.name = "bank" =>
        /\ \A ts \in 1..MaxTs :
            visible_value(chains["alice"], ts)
                + visible_value(chains["bob"], ts) = 2
        /\ Newest("bob") = AppliedCalls(w1) * program.script[w1][1].amount
                           + AppliedCalls(w2) * program.script[w2][1].amount

\* serializable_doctors.rs: under serializable isolation somebody is on call
\* at every instant, although each doctor checks before leaving.
SomeoneOnCall ==
    program = doctors_run("ser") =>
        \A ts \in 1..MaxTs : \E d \in DOMAIN program.seed :
            visible_value(chains[d], ts) = 1

\* snapshot_reads.rs: a report runs "without seeing a torn, half-updated
\* state": what it has read of one transaction is all of it.
ReportsWhole ==
    \A c \in Txn : pc[c] = "active" /\ Ready(c, {"report"}) =>
        /\ program.name = "bank" => seen[c]["alice"] + seen[c]["bob"] = 2
        /\ program = doctors_run("ser") => on_call(seen[c]) # {}
        /\ program.name = "config" => seen[c]["mode"] = seen[c]["limit"]

\* Db::put, Db::delete: "last-writer-wins and never surfaces a conflict - the
\* value is always installed".  Once the calls have returned, a read gives the
\* value of the one with the greatest timestamp, however often each was refused
\* on the way; one that returned an error of the store has left no trace.
LastWriterWins ==
    LET Done == {c \in Txn : returned[c][1].outcome # "store"}
        Last == {c \in Done : \A d \in Done :
                                  returned[d][1].ts <= returned[c][1].ts}
    IN  program.name = "autocommit" /\ AllReturned =>
            visible_value(chains["counter"], last_committed)
                \in IF Done = {} THEN {0}
                    ELSE {program.script[c][1].batch["counter"] : c \in Last}

\* The number of versions at or below ts.
VersionsUpTo(ts) ==
    MapThenSumSet(LAMBDA k : partition_point(chains[k], ts), Key)

\* custom_store.rs: the wrapper "observed everything the engine did": it has
\* counted every version that can be read, and none that is not stored.
CountsWhatIsRead ==
    program.name = "custom" =>
        versions_applied \in VersionsUpTo(last_committed)..VersionsUpTo(MaxTs)

-----------------------------------------------------------------------------
(* Progress *)

\* Every thread gets through its script.  A retry spins as long as the
\* watermark is behind the version it conflicts with, and takes a timestamp
\* each time; the only place where a thread may be left is the bound on those.
ClientReturns ==
    <>[](\A c \in Txn :
            ~Running(c) \/ (next_ts = MaxTs /\ pc[c] = "active"))

\* In the end no attempt, applied or refused, has left a hole that the
\* watermark stays behind.
TimestampsSettle == <>[](last_committed = next_ts - 1)

\* garbage_collection.rs: once nobody reads, sweeps reclaim every superseded
\* version and the tombstone of a deleted key; nothing stays pinned.
GarbageReclaimed ==
    (program.name = "gc" /\ AllReturned) ~>
        \A k \in Key : \/ chains[k] = <<>>
                       \/ Len(chains[k]) = 1 /\ Newest(k) # None

=============================================================================
