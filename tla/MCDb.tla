-------------------------------- MODULE MCDb --------------------------------
(* Db on small instances. *)
EXTENDS DbProperties, TLC

CONSTANTS t1, t2, t3, k1, k2

\* Hashes that put both keys in one shard, and each in a shard of its own.
OneShard == k1 :> 0 @@ k2 :> 0
OneKey == k1 :> 0
TwoShards == k1 :> 2 @@ k2 :> 1

Symmetry == Permutations(Txn)

=============================================================================
