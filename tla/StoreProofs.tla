----------------------------- MODULE StoreProofs -----------------------------
(***************************************************************************)
(* What the operators of MemoryStore compute, for chains of any length and *)
(* any timestamps.  The proofs about the database rest on these lemmas.    *)
(***************************************************************************)
EXTENDS MemoryStore, NatLemmas, SequenceTheorems, TLAPS

\* The versions of a store with values in V.
VersionOf(V) == [commit_ts : Nat, value : V]

\* A chain in ascending order.
Ascending(chain) ==
    \A i \in 1..(Len(chain) - 1) : chain[i].commit_ts < chain[i + 1].commit_ts

\* MemoryStore::shard_of masks the hash, so every key has a shard.
LEMMA ShardOfKey == \A k \in Key : shard_of(k) \in Shard
<1>1. SUFFICES ASSUME NEW k \in Key
               PROVE  shard_of(k) \in Shard
  OBVIOUS
<1>2. Hash[k] \in Nat /\ shard_count \in Nat \ {0}
  BY ShardAssumption, ShardCountAssumption
<1> HIDE DEF shard_count
<1>3. Hash[k] % shard_count \in 0..(shard_count - 1)
  BY <1>2
<1>4. QED
  BY <1>3 DEF shard_of, hash_key, Shard

\* There is a shard, and shards are natural numbers.
LEMMA ShardNat == Shard # {} /\ Shard \subseteq Nat
<1> HIDE DEF shard_count
<1>1. shard_count \in Nat \ {0}
  BY ShardCountAssumption
<1>2. QED
  BY <1>1 DEF Shard

\* A chain is a finite sequence of timestamped versions.
LEMMA ChainElement ==
    ASSUME NEW V, NEW chain \in Seq(VersionOf(V))
    PROVE  /\ Len(chain) \in Nat
           /\ \A i \in 1..Len(chain) : /\ chain[i] \in VersionOf(V)
                                       /\ chain[i].commit_ts \in Nat
                                       /\ chain[i].value \in V
<1>1. ASSUME NEW i \in 1..Len(chain)
      PROVE  chain[i] \in VersionOf(V)
  BY ElementOfSeq
<1>2. QED
  BY <1>1 DEF VersionOf

\* Neighbours in order are all in order.
LEMMA AscendingPairs ==
    ASSUME NEW V, NEW chain \in Seq(VersionOf(V)), Ascending(chain),
           NEW i \in 1..Len(chain), NEW j \in 1..Len(chain), i < j
    PROVE  chain[i].commit_ts < chain[j].commit_ts
<1> DEFINE Bad == {n \in 1..Len(chain) :
                      i < n /\ ~(chain[i].commit_ts < chain[n].commit_ts)}
<1>1. Len(chain) \in Nat
  OBVIOUS
<1>2. \A n \in 1..Len(chain) : chain[n].commit_ts \in Nat
  BY ChainElement
<1>3. SUFFICES ASSUME Bad # {}
               PROVE  FALSE
  OBVIOUS
<1>4. PICK m \in Bad : \A n \in Bad : m <= n
  <2>1. Bad \in SUBSET Nat
    BY <1>1
  <2>2. QED
    BY <1>3, <2>1, LeastNat
<1>5. /\ m \in Nat /\ i \in Nat /\ i < m /\ m <= Len(chain)
      /\ m - 1 \in 1..(Len(chain) - 1) /\ (m - 1) + 1 = m
  BY <1>1, <1>4
<1>6. chain[m - 1].commit_ts < chain[m].commit_ts
  BY <1>5 DEF Ascending
<1>7. CASE m - 1 = i
  BY <1>4, <1>6, <1>7
<1>8. CASE m - 1 # i
  <2>1. i < m - 1 /\ m - 1 \in 1..Len(chain) /\ ~(m <= m - 1)
    BY <1>1, <1>5, <1>8
  <2>2. m - 1 \notin Bad
    BY <1>4, <2>1
  <2>3. chain[i].commit_ts < chain[m - 1].commit_ts
    BY <2>1, <2>2
  <2>4. ~(chain[i].commit_ts < chain[m].commit_ts)
    BY <1>4
  <2>5. QED
    BY <1>2, <1>5, <1>6, <2>1, <2>3, <2>4
<1>9. QED
  BY <1>7, <1>8

\* What partition_point(chain, ts) = n means.
IsPartition(chain, ts, n) ==
    /\ n \in 0..Len(chain)
    /\ n < Len(chain) => chain[n + 1].commit_ts > ts
    /\ \A i \in 1..n : chain[i].commit_ts <= ts

\* The binary search of visible_value has an answer on every chain.
LEMMA PartitionExists ==
    ASSUME NEW V, NEW chain \in Seq(VersionOf(V)), NEW ts \in Nat
    PROVE  IsPartition(chain, ts, partition_point(chain, ts))
<1> DEFINE Len1 == Len(chain) + 1
           Newer == {n \in 1..Len1 : n <= Len(chain) =>
                                        chain[n].commit_ts > ts}
           First(n) == /\ n <= Len(chain) => chain[n].commit_ts > ts
                       /\ \A i \in 1..(n - 1) : chain[i].commit_ts <= ts
<1>1. Len(chain) \in Nat
  OBVIOUS
<1>2. \A n \in 1..Len(chain) : chain[n].commit_ts \in Nat
  BY ChainElement
<1>3. PICK m \in Newer : \A n \in Newer : m <= n
  <2>1. Newer \in SUBSET Nat
    BY <1>1
  <2>2. Len1 \in Newer
    BY <1>1
  <2>3. QED
    BY <2>1, <2>2, LeastNat
<1>4. First(m)
  <2>1. SUFFICES ASSUME NEW i \in 1..(m - 1)
                 PROVE  chain[i].commit_ts <= ts
    BY <1>3
  <2>2. i \in 1..Len(chain) /\ i \in 1..Len1 /\ ~(m <= i)
    BY <1>1, <1>3
  <2>3. i \notin Newer
    BY <1>3, <2>2
  <2>4. QED
    BY <1>2, <2>2, <2>3
<1>5. \E n \in 1..Len1 : First(n)
  BY <1>3, <1>4
<1> DEFINE c == CHOOSE n \in 1..Len1 : First(n)
<1>6. c \in 1..Len1 /\ First(c)
  BY <1>5, Zenon
<1>7. partition_point(chain, ts) = c - 1
  BY Zenon DEF partition_point
<1> HIDE DEF c
<1>8. QED
  BY <1>1, <1>6, <1>7 DEF IsPartition

\* ... and only one.
LEMMA PartitionUnique ==
    ASSUME NEW V, NEW chain \in Seq(VersionOf(V)), NEW ts \in Nat, NEW n,
           IsPartition(chain, ts, n)
    PROVE  partition_point(chain, ts) = n
<1>1. /\ IsPartition(chain, ts, partition_point(chain, ts))
      /\ Len(chain) \in Nat
  BY PartitionExists
<1>2. \A i \in 1..Len(chain) : chain[i].commit_ts \in Nat
  BY ChainElement
<1>3. \A a, b \in 0..Len(chain) :
          IsPartition(chain, ts, a) /\ IsPartition(chain, ts, b) => ~(a < b)
  <2>1. SUFFICES ASSUME NEW a \in 0..Len(chain), NEW b \in 0..Len(chain),
                        IsPartition(chain, ts, a), IsPartition(chain, ts, b),
                        a < b
                 PROVE  FALSE
    OBVIOUS
  <2>2. /\ a < Len(chain) /\ a + 1 \in 1..b
        /\ a + 1 \in 1..Len(chain)
    BY <1>1, <2>1
  <2>3. chain[a + 1].commit_ts > ts /\ chain[a + 1].commit_ts <= ts
    BY <2>1, <2>2 DEF IsPartition
  <2>4. QED
    BY <1>2, <2>2, <2>3
<1>4. n \in 0..Len(chain) /\ partition_point(chain, ts) \in 0..Len(chain)
  BY <1>1 DEF IsPartition
<1>5. QED
  BY <1>1, <1>3, <1>4

\* A read answers with a value some version has, or None.
LEMMA VisibleType ==
    ASSUME NEW V, None \in V, NEW chain \in Seq(VersionOf(V)), NEW ts \in Nat
    PROVE  visible_value(chain, ts) \in V
<1> DEFINE n == partition_point(chain, ts)
<1>1. n \in 0..Len(chain)
  BY PartitionExists DEF IsPartition
<1>2. \A i \in 1..Len(chain) : chain[i].value \in V
  BY ChainElement
<1> HIDE DEF n
<1>3. n # 0 => n \in 1..Len(chain)
  BY <1>1
<1>4. QED
  BY <1>2, <1>3 DEF visible_value, n

\* A key without versions has no value.
LEMMA EmptyVisible ==
    ASSUME NEW ts \in Nat
    PROVE  visible_value(<<>>, ts) = None
<1>1. <<>> \in Seq(VersionOf({None}))
  OBVIOUS
<1>2. visible_value(<<>>, ts) \in {None}
  BY <1>1, VisibleType
<1>3. QED
  BY <1>2

-----------------------------------------------------------------------------
(* try_commit *)

\* push: a version above every other one keeps the chain ascending.
LEMMA AppendAscending ==
    ASSUME NEW V, NEW chain \in Seq(VersionOf(V)), Ascending(chain),
           NEW v \in VersionOf(V),
           chain # <<>> => chain[Len(chain)].commit_ts < v.commit_ts
    PROVE  Ascending(Append(chain, v))
<1> DEFINE new == Append(chain, v)
<1>1. /\ Len(chain) \in Nat /\ Len(new) = Len(chain) + 1
      /\ \A i \in 1..Len(chain) : new[i] = chain[i]
      /\ new[Len(chain) + 1] = v
  BY AppendProperties
<1>2. SUFFICES ASSUME NEW i \in 1..Len(chain)
               PROVE  new[i].commit_ts < new[i + 1].commit_ts
  BY <1>1 DEF Ascending
<1>3. CASE i = Len(chain)
  <2>1. chain # <<>>
    BY <1>1, EmptySeq
  <2>2. QED
    BY <1>1, <1>3, <2>1
<1>4. CASE i # Len(chain)
  <2>1. i \in 1..(Len(chain) - 1) /\ i + 1 \in 1..Len(chain)
    BY <1>1, <1>4
  <2>2. QED
    BY <1>1, <2>1 DEF Ascending
<1>5. QED
  BY <1>3, <1>4

\* A reader below a new version does not see it.
LEMMA AppendInvisible ==
    ASSUME NEW V, NEW chain \in Seq(VersionOf(V)), NEW v \in VersionOf(V),
           NEW ts \in Nat, v.commit_ts > ts
    PROVE  visible_value(Append(chain, v), ts) = visible_value(chain, ts)
<1> DEFINE new == Append(chain, v)
           n == partition_point(chain, ts)
<1>1. /\ Len(chain) \in Nat /\ Len(new) = Len(chain) + 1
      /\ new \in Seq(VersionOf(V))
      /\ \A i \in 1..Len(chain) : new[i] = chain[i]
      /\ new[Len(chain) + 1] = v
  BY AppendProperties
<1>2. IsPartition(chain, ts, n)
  BY PartitionExists
<1> HIDE DEF n, new
<1>3. n \in 0..Len(chain)
  BY <1>2 DEF IsPartition
<1>4. IsPartition(new, ts, n)
  <2>1. n \in 0..Len(new)
    BY <1>1, <1>3
  <2>2. new[n + 1].commit_ts > ts
    <3>1. CASE n = Len(chain)
      BY <1>1, <3>1
    <3>2. CASE n # Len(chain)
      <4>1. n < Len(chain) /\ n + 1 \in 1..Len(chain)
        BY <1>1, <1>3, <3>2
      <4>2. QED
        BY <1>1, <1>2, <4>1 DEF IsPartition
    <3>3. QED
      BY <3>1, <3>2
  <2>3. \A i \in 1..n : new[i].commit_ts <= ts
    <3>1. \A i \in 1..n : i \in 1..Len(chain)
      BY <1>1, <1>3
    <3>2. QED
      BY <1>1, <1>2, <3>1 DEF IsPartition
  <2>4. QED
    BY <2>1, <2>2, <2>3 DEF IsPartition
<1>5. partition_point(new, ts) = n
  BY <1>1, <1>4, PartitionUnique
<1>6. n # 0 => new[n].value = chain[n].value
  BY <1>1, <1>3
<1>7. visible_value(new, ts) = visible_value(chain, ts)
  BY <1>5, <1>6 DEF visible_value, n
<1>8. QED
  BY <1>7 DEF new

\* A reader at or above everything sees the newest version.
LEMMA NewestVisible ==
    ASSUME NEW V, NEW chain \in Seq(VersionOf(V)), Ascending(chain),
           NEW ts \in Nat, chain # <<>>, chain[Len(chain)].commit_ts <= ts
    PROVE  visible_value(chain, ts) = chain[Len(chain)].value
<1>1. /\ Len(chain) \in Nat \ {0}
      /\ \A i \in 1..Len(chain) : chain[i].commit_ts \in Nat
  BY ChainElement, EmptySeq
<1>2. \A i \in 1..Len(chain) : chain[i].commit_ts <= ts
  <2>1. SUFFICES ASSUME NEW i \in 1..Len(chain), i # Len(chain)
                 PROVE  chain[i].commit_ts <= ts
    OBVIOUS
  <2>2. i < Len(chain) /\ Len(chain) \in 1..Len(chain)
    BY <1>1, <2>1
  <2>3. chain[i].commit_ts < chain[Len(chain)].commit_ts
    BY <2>2, AscendingPairs
  <2>4. QED
    BY <1>1, <2>2, <2>3
<1>3. IsPartition(chain, ts, Len(chain))
  BY <1>1, <1>2 DEF IsPartition
<1>4. partition_point(chain, ts) = Len(chain)
  BY <1>3, PartitionUnique
<1>5. QED
  BY <1>1, <1>4 DEF visible_value

-----------------------------------------------------------------------------
(* collect_garbage *)

\* What retain keeps before it looks for a lone tombstone.
Kept(chain, low) ==
    LET visible == partition_point(chain, low)
    IN  IF visible > 1 THEN SubSeq(chain, visible, Len(chain)) ELSE chain

\* kept is chain without its first d versions, and if that drops anything the
\* first one left is at or below low.
IsSuffix(kept, chain, d, low) ==
    /\ d \in 0..Len(chain)
    /\ Len(kept) = Len(chain) - d
    /\ \A i \in 1..Len(kept) : kept[i] = chain[i + d]
    /\ d # 0 => Len(kept) # 0 /\ kept[1].commit_ts <= low

\* retain, in terms of Kept.
LEMMA RetainKept ==
    ASSUME NEW chain, NEW low
    PROVE  retain(chain, low) =
             IF /\ Len(Kept(chain, low)) = 1
                /\ Kept(chain, low)[1].commit_ts <= low
                /\ Kept(chain, low)[1].value = None
             THEN <<>> ELSE Kept(chain, low)
BY Zenon DEF retain, Kept

\* The drain in collect_garbage removes a prefix.
LEMMA KeptIsSuffix ==
    ASSUME NEW V, NEW chain \in Seq(VersionOf(V)), NEW low \in Nat
    PROVE  /\ Kept(chain, low) \in Seq(VersionOf(V))
           /\ \E d \in Nat : IsSuffix(Kept(chain, low), chain, d, low)
<1> DEFINE n == partition_point(chain, low)
           kept == Kept(chain, low)
<1>1. /\ Len(chain) \in Nat
      /\ \A i \in 1..Len(chain) : chain[i] \in VersionOf(V)
  BY ChainElement
<1>2. IsPartition(chain, low, n)
  BY PartitionExists
<1>3. kept = IF n > 1 THEN SubSeq(chain, n, Len(chain)) ELSE chain
  BY DEF Kept
<1> HIDE DEF n, kept
<1>4. n \in 0..Len(chain)
  BY <1>2 DEF IsPartition
<1>5. CASE n > 1
  <2>1. n \in Int /\ Len(chain) \in Int /\ n <= Len(chain) /\ n \in 1..n
    BY <1>1, <1>4, <1>5
  <2>2. \A i \in n..Len(chain) : chain[i] \in VersionOf(V)
    BY <1>1, <1>4, <1>5
  <2>3. /\ kept \in Seq(VersionOf(V))
        /\ Len(kept) = Len(chain) - n + 1
        /\ \A i \in 1..(Len(chain) - n + 1) : kept[i] = chain[n + i - 1]
    BY <1>3, <1>5, <2>1, <2>2, SubSeqProperties
  <2>4. IsSuffix(kept, chain, n - 1, low)
    <3>1. n - 1 \in 0..Len(chain) /\ Len(kept) = Len(chain) - (n - 1)
      BY <1>1, <1>4, <1>5, <2>3
    <3>2. \A i \in 1..Len(kept) : kept[i] = chain[i + (n - 1)]
      <4>1. ASSUME NEW i \in 1..Len(kept)
            PROVE  kept[i] = chain[i + (n - 1)]
        <5>1. n + i - 1 = i + (n - 1) /\ i \in 1..(Len(chain) - n + 1)
          BY <2>1, <2>3
        <5>2. QED
          BY <2>3, <5>1
      <4>2. QED
        BY <4>1
    <3>3. Len(kept) # 0 /\ kept[1] = chain[n]
      BY <1>1, <2>1, <2>3
    <3>4. chain[n].commit_ts <= low
      BY <1>2, <2>1 DEF IsPartition
    <3>5. QED
      BY <3>1, <3>2, <3>3, <3>4 DEF IsSuffix
  <2>5. n - 1 \in Nat
    BY <1>4, <1>5
  <2>6. QED
    BY <2>3, <2>4, <2>5 DEF kept
<1>6. CASE ~(n > 1)
  <2>1. IsSuffix(kept, chain, 0, low)
    BY <1>1, <1>3, <1>6 DEF IsSuffix
  <2>2. QED
    BY <1>3, <1>6, <2>1 DEF kept
<1>7. QED
  BY <1>5, <1>6

\* A prefix may go if what follows it starts at or below low: a reader at or
\* above low finds the same version.
LEMMA SuffixVisible ==
    ASSUME NEW V, NEW chain \in Seq(VersionOf(V)),
           NEW kept \in Seq(VersionOf(V)), NEW low \in Nat, NEW d \in Nat,
           IsSuffix(kept, chain, d, low), Ascending(chain),
           NEW ts \in Nat, low <= ts
    PROVE  visible_value(kept, ts) = visible_value(chain, ts)
<1> DEFINE m == partition_point(kept, ts)
<1>1. /\ Len(chain) \in Nat /\ Len(kept) \in Nat
      /\ \A i \in 1..Len(chain) : chain[i].commit_ts \in Nat
      /\ \A i \in 1..Len(kept) : kept[i].commit_ts \in Nat
  BY ChainElement
<1>2. IsPartition(kept, ts, m)
  BY PartitionExists
<1> HIDE DEF m
<1>3. m \in 0..Len(kept) /\ d \in 0..Len(chain) /\ Len(kept) = Len(chain) - d
  BY <1>2 DEF IsPartition, IsSuffix
<1>4. \A i \in 1..Len(kept) : kept[i] = chain[i + d]
  BY DEF IsSuffix
<1>5. d # 0 => m # 0 /\ \A i \in 1..d : chain[i].commit_ts <= ts
  <2>1. SUFFICES ASSUME d # 0
                 PROVE  m # 0 /\ \A i \in 1..d : chain[i].commit_ts <= ts
    OBVIOUS
  <2>2. /\ 1 \in 1..Len(kept) /\ kept[1].commit_ts <= low
        /\ d + 1 \in 1..Len(chain) /\ kept[1] = chain[d + 1]
    BY <1>1, <1>3, <1>4, <2>1 DEF IsSuffix
  <2>3. kept[1].commit_ts <= ts /\ ~(kept[1].commit_ts > ts)
    BY <1>1, <2>2
  <2>4. m # 0
    <3>1. m = 0 => m < Len(kept) /\ m + 1 = 1
      BY <1>1, <2>2
    <3>2. QED
      BY <1>2, <2>3, <3>1 DEF IsPartition
  <2>5. ASSUME NEW i \in 1..d
        PROVE  chain[i].commit_ts <= ts
    <3>1. i \in 1..Len(chain) /\ i < d + 1
      BY <1>1, <1>3
    <3>2. chain[i].commit_ts < chain[d + 1].commit_ts
      BY <2>2, <3>1, AscendingPairs
    <3>3. QED
      BY <1>1, <2>2, <2>3, <3>1, <3>2
  <2>6. QED
    BY <2>4, <2>5
<1>6. IsPartition(chain, ts, m + d)
  <2>1. m + d \in 0..Len(chain)
    BY <1>1, <1>3
  <2>2. m + d < Len(chain) => chain[(m + d) + 1].commit_ts > ts
    <3>1. SUFFICES ASSUME m + d < Len(chain)
                   PROVE  chain[(m + d) + 1].commit_ts > ts
      OBVIOUS
    <3>2. m < Len(kept) /\ m + 1 \in 1..Len(kept) /\ (m + 1) + d = (m + d) + 1
      BY <1>1, <1>3, <3>1
    <3>3. QED
      BY <1>2, <1>4, <3>2 DEF IsPartition
  <2>3. ASSUME NEW i \in 1..(m + d)
        PROVE  chain[i].commit_ts <= ts
    <3>1. CASE i <= d
      BY <1>3, <1>5, <3>1
    <3>2. CASE ~(i <= d)
      <4>1. i - d \in 1..m /\ i - d \in 1..Len(kept) /\ (i - d) + d = i
        BY <1>1, <1>3, <3>2
      <4>2. QED
        BY <1>2, <1>4, <4>1 DEF IsPartition
    <3>3. QED
      BY <3>1, <3>2
  <2>4. QED
    BY <2>1, <2>2, <2>3 DEF IsPartition
<1>7. partition_point(chain, ts) = m + d
  BY <1>6, PartitionUnique
<1>8. CASE m = 0
  <2>1. m + d = 0
    BY <1>3, <1>5, <1>8
  <2>2. QED
    BY <1>7, <1>8, <2>1 DEF visible_value, m
<1>9. CASE m # 0
  <2>1. m + d # 0 /\ m \in 1..Len(kept)
    BY <1>1, <1>3, <1>9
  <2>2. kept[m].value = chain[m + d].value
    BY <1>4, <2>1
  <2>3. QED
    BY <1>7, <1>9, <2>1, <2>2 DEF visible_value, m
<1>10. QED
  BY <1>8, <1>9

\* A reader at or above the low watermark reads the same after the sweep.
LEMMA RetainVisible ==
    ASSUME NEW V, NEW chain \in Seq(VersionOf(V)), Ascending(chain),
           NEW low \in Nat, NEW ts \in Nat, low <= ts
    PROVE  visible_value(retain(chain, low), ts) = visible_value(chain, ts)
<1> DEFINE kept == Kept(chain, low)
           Lone == /\ Len(kept) = 1
                   /\ kept[1].commit_ts <= low
                   /\ kept[1].value = None
<1>1. /\ kept \in Seq(VersionOf(V))
      /\ \E d \in Nat : IsSuffix(kept, chain, d, low)
  BY KeptIsSuffix
<1>2. retain(chain, low) = IF Lone THEN <<>> ELSE kept
  BY RetainKept
<1> HIDE DEF kept
<1>3. visible_value(kept, ts) = visible_value(chain, ts)
  BY <1>1, SuffixVisible
<1>4. CASE Lone
  <2>1. kept[1].commit_ts \in Nat
    BY <1>1, <1>4, ChainElement
  <2>2. IsPartition(kept, ts, 1)
    BY <1>4, <2>1 DEF IsPartition
  <2>3. partition_point(kept, ts) = 1
    BY <1>1, <2>2, PartitionUnique
  <2>4. visible_value(kept, ts) = None
    BY <1>4, <2>3 DEF visible_value
  <2>5. <<>> \in Seq(VersionOf(V)) /\ Len(<<>>) = 0
    BY EmptySeq
  <2>6. IsPartition(<<>>, ts, 0)
    BY <2>5 DEF IsPartition
  <2>7. partition_point(<<>>, ts) = 0
    BY <2>5, <2>6, PartitionUnique
  <2>8. visible_value(<<>>, ts) = None
    BY <2>7 DEF visible_value
  <2>9. QED
    BY <1>2, <1>3, <1>4, <2>4, <2>8
<1>5. CASE ~Lone
  BY <1>2, <1>3, <1>5
<1>6. QED
  BY <1>4, <1>5

\* The sweep leaves an ascending chain, with the same newest version or, if
\* that was at or below the low watermark, perhaps with none; what it drops is
\* at or below the low watermark.
LEMMA RetainShape ==
    ASSUME NEW V, NEW chain \in Seq(VersionOf(V)), Ascending(chain),
           NEW low \in Nat
    PROVE  LET left == retain(chain, low)
           IN  /\ left \in Seq(VersionOf(V))
               /\ Ascending(left)
               /\ left # <<>> => /\ chain # <<>>
                                 /\ left[Len(left)] = chain[Len(chain)]
               /\ left = <<>> /\ chain # <<>> =>
                      chain[Len(chain)].commit_ts <= low
               /\ \A j \in 1..Len(left) : \E i \in 1..Len(chain) :
                      chain[i] = left[j]
               /\ \A i \in 1..Len(chain) : chain[i].commit_ts > low =>
                      \E j \in 1..Len(left) : left[j] = chain[i]
<1> DEFINE kept == Kept(chain, low)
           left == retain(chain, low)
           Lone == /\ Len(kept) = 1
                   /\ kept[1].commit_ts <= low
                   /\ kept[1].value = None
<1>1. /\ kept \in Seq(VersionOf(V))
      /\ \E d \in Nat : IsSuffix(kept, chain, d, low)
  BY KeptIsSuffix
<1>2. left = IF Lone THEN <<>> ELSE kept
  BY RetainKept
<1> HIDE DEF kept, left
<1>3. PICK d \in Nat : IsSuffix(kept, chain, d, low)
  BY <1>1
<1>4. /\ Len(chain) \in Nat /\ Len(kept) \in Nat
      /\ \A i \in 1..Len(chain) : chain[i].commit_ts \in Nat
  BY <1>1, ChainElement
<1>5. /\ d \in 0..Len(chain)
      /\ Len(kept) = Len(chain) - d
      /\ \A i \in 1..Len(kept) : kept[i] = chain[i + d] /\ i + d \in 1..Len(chain)
      /\ d # 0 => Len(kept) # 0 /\ kept[1].commit_ts <= low
  BY <1>3, <1>4 DEF IsSuffix
<1>6. kept # <<>> <=> Len(kept) # 0
  BY <1>1, EmptySeq
<1>7. chain # <<>> <=> Len(chain) # 0
  BY EmptySeq
<1>8. kept # <<>> => chain # <<>> /\ kept[Len(kept)] = chain[Len(chain)]
  <2>1. SUFFICES ASSUME Len(kept) # 0
                 PROVE  Len(chain) # 0 /\ kept[Len(kept)] = chain[Len(chain)]
    BY <1>6, <1>7
  <2>2. Len(kept) \in 1..Len(kept) /\ Len(kept) + d = Len(chain)
    BY <1>4, <1>5, <2>1
  <2>3. QED
    BY <1>4, <1>5, <2>1, <2>2
<1>9. kept = <<>> => chain = <<>>
  BY <1>4, <1>5, <1>6, <1>7
<1>10. Ascending(kept)
  <2>1. SUFFICES ASSUME NEW i \in 1..(Len(kept) - 1)
                 PROVE  kept[i].commit_ts < kept[i + 1].commit_ts
    BY DEF Ascending
  <2>2. /\ i \in 1..Len(kept) /\ i + 1 \in 1..Len(kept)
        /\ i + d \in 1..(Len(chain) - 1) /\ (i + 1) + d = (i + d) + 1
    BY <1>4, <1>5
  <2>3. QED
    BY <1>5, <2>2 DEF Ascending
<1>11. \A i \in 1..Len(chain) : chain[i].commit_ts > low =>
           i - d \in 1..Len(kept) /\ kept[i - d] = chain[i]
  <2>1. SUFFICES ASSUME NEW i \in 1..Len(chain), chain[i].commit_ts > low
                 PROVE  i - d \in 1..Len(kept) /\ kept[i - d] = chain[i]
    OBVIOUS
  <2>2. ~(i <= d)
    <3>1. SUFFICES ASSUME i <= d
                   PROVE  FALSE
      OBVIOUS
    <3>2. d # 0 /\ i < 1 + d
      BY <1>4, <1>5, <3>1
    <3>3. 1 \in 1..Len(kept) /\ kept[1].commit_ts <= low
      BY <1>4, <1>5, <3>2
    <3>4. kept[1] = chain[1 + d] /\ 1 + d \in 1..Len(chain)
      BY <1>5, <3>3
    <3>5. chain[i].commit_ts < chain[1 + d].commit_ts
      BY <3>2, <3>4, AscendingPairs
    <3>6. chain[i].commit_ts \in Nat /\ chain[1 + d].commit_ts \in Nat
      BY <1>4, <3>4
    <3>7. QED
      BY <2>1, <3>3, <3>4, <3>5, <3>6
  <2>3. i - d \in 1..Len(kept) /\ (i - d) + d = i
    BY <1>4, <1>5, <2>2
  <2>4. QED
    BY <1>5, <2>3
<1>12. CASE Lone
  <2>1. left = <<>> /\ Len(left) = 0 /\ left \in Seq(VersionOf(V))
    BY <1>2, <1>12, EmptySeq
  <2>2. kept # <<>> /\ 1 \in 1..Len(kept) /\ kept[1] = chain[Len(chain)]
    BY <1>6, <1>8, <1>12
  <2>3. Ascending(left)
    BY <2>1 DEF Ascending
  <2>4. ASSUME NEW i \in 1..Len(chain), chain[i].commit_ts > low
        PROVE  FALSE
    <3>1. i - d \in 1..Len(kept) /\ kept[i - d] = chain[i]
      BY <1>11, <2>4
    <3>2. i - d = 1
      BY <1>12, <3>1
    <3>3. chain[i].commit_ts \in Nat /\ chain[i].commit_ts <= low
      BY <1>4, <1>12, <3>1, <3>2
    <3>4. QED
      BY <2>4, <3>3
  <2>5. QED
    BY <1>12, <2>1, <2>2, <2>3, <2>4 DEF left
<1>13. CASE ~Lone
  <2>1. left = kept
    BY <1>2, <1>13
  <2>2. \A j \in 1..Len(kept) : \E i \in 1..Len(chain) : chain[i] = kept[j]
    BY <1>5
  <2>3. \A i \in 1..Len(chain) : chain[i].commit_ts > low =>
            \E j \in 1..Len(kept) : kept[j] = chain[i]
    BY <1>11
  <2>4. QED
    BY <1>1, <1>8, <1>9, <1>10, <2>1, <2>2, <2>3 DEF left
<1>14. QED
  BY <1>12, <1>13

=============================================================================
