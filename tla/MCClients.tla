------------------------------ MODULE MCClients ------------------------------
(* Clients on a small instance: the two keys of a program in two shards. *)
EXTENDS Clients

ExampleHash ==
    [k \in Key |-> IF k \in {"bob", "limit", "b"} THEN 3 ELSE 4]

=============================================================================
