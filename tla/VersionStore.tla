---------------------------- MODULE VersionStore ----------------------------
(***************************************************************************)
(* The contract of the VersionStore trait (src/store.rs): what the         *)
(* transaction layer relies on, of the in-memory store or of a user's.     *)
(*                                                                         *)
(* A store holds versions and has calls under way.  A call of try_commit   *)
(* takes effect in one step, whole or not at all; a call of                *)
(* collect_garbage may take any number of steps, and may do nothing.       *)
(***************************************************************************)
EXTENDS Naturals

CONSTANTS
    Key,
    Timestamp,  \* natural numbers
    None        \* a tombstone's value, and what get answers for no value

VARIABLES
    versions,   \* the versions kept: [key, commit_ts, value]
    commits,    \* the calls of try_commit under way:
                \* [read_ts, commit_ts, writes, reads]
    sweeps      \* the low watermarks of the calls of collect_garbage under way

storeState == <<versions, commits, sweeps>>

\* The versions of k in V that are at or below ts, and the newest of them.
Visible(V, k, ts) == {v \in V : v.key = k /\ v.commit_ts <= ts}

get(V, k, ts) ==
    IF Visible(V, k, ts) = {} THEN None
    ELSE (CHOOSE v \in Visible(V, k, ts) :
            \A u \in Visible(V, k, ts) : u.commit_ts <= v.commit_ts).value

\* No key that was written or read has a version newer than the snapshot.
Valid(call) ==
    ~\E v \in versions : /\ v.key \in DOMAIN call.writes \cup call.reads
                         /\ v.commit_ts > call.read_ts

\* The versions a commit installs.
Installed(call) ==
    {[key |-> k, commit_ts |-> call.commit_ts, value |-> call.writes[k]] :
        k \in DOMAIN call.writes}

\* try_commit returns: everything is installed if the commit is valid, and
\* nothing if it is not.
try_commit(call) ==
    /\ versions' = IF Valid(call) THEN versions \cup Installed(call)
                                  ELSE versions
    /\ commits' = commits \ {call}
    /\ UNCHANGED sweeps

\* collect_garbage(low) drops versions that no reader at or after low can
\* observe, and none that a later commit could conflict with.
collect_garbage(low) ==
    /\ versions' \subseteq versions
    /\ \A v \in versions \ versions' : v.commit_ts <= low
    /\ \A k \in Key, ts \in Timestamp :
        ts >= low => get(versions', k, ts) = get(versions, k, ts)
    /\ UNCHANGED commits

\* Calls begin, and sweeps end, without an effect.
CallBegins == UNCHANGED versions /\ commits \subseteq commits'

StoreNext ==
    \/ \E call \in commits : try_commit(call)
    \/ \E low \in sweeps : collect_garbage(low)
    \/ CallBegins

\* Nothing is stored at first.
StoreInit == versions = {} /\ commits = {} /\ sweeps = {}

StoreSpec == StoreInit /\ [][StoreNext]_storeState

=============================================================================
