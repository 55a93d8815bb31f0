------------------------------ MODULE MCDurable ------------------------------
(* DurableDb on small instances. *)
EXTENDS DurableDb, TLC

CONSTANTS t1, t2, t3, k1, k2

OneKey == k1 :> 0
OneShard == k1 :> 0 @@ k2 :> 0

Symmetry == Permutations(Txn)

=============================================================================
