------------------------------ MODULE MCPromise ------------------------------
(* SnapshotIsolation on a small instance. *)
EXTENDS SnapshotIsolation, TLC

Symmetry == Permutations(Txn) \cup Permutations(Key)

=============================================================================
