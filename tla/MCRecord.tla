------------------------------ MODULE MCRecord ------------------------------
(* CommitRecord with bytes 0, 1, 2 and lengths of one byte. *)
EXTENDS CommitRecord

Writes ==
    [key : {<<>>, <<1>>, <<2, 0>>}, value : {None, <<>>, <<0, 1>>}]

\* A key and a number of writes one past what a length field holds.
Oversize ==
    {<<[key |-> <<1, 0, 0>>, value |-> None]>>,
     <<[key |-> <<>>, value |-> None], [key |-> <<>>, value |-> None],
       [key |-> <<>>, value |-> None]>>}

SmallCommits ==
    [commit_ts : {0, 5, 8},
     writes : UNION {[1..n -> Writes] : n \in 0..2} \cup Oversize]

=============================================================================
