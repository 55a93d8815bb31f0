----------------------------- MODULE NatLemmas -----------------------------
(* Facts about sets of natural numbers that several proofs use. *)
EXTENDS Naturals, FiniteSetsExt, WellFoundedInduction, TLAPS

\* The timestamps strictly between two others.
LEMMA Between ==
    \A a, b \in Nat : \A ts :
        ts \in (a + 1)..(b - 1) <=> ts \in Nat /\ a < ts /\ ts < b
OBVIOUS

\* A non-empty set of natural numbers has a least element.
LEMMA LeastNat ==
    ASSUME NEW S \in SUBSET Nat, S # {}
    PROVE  \E m \in S : \A k \in S : m <= k
<1>1. PICK m \in S : \A k \in S : ~(<<k, m>> \in OpToRel(<, Nat))
  BY NatLessThanWellFounded, WFMin, Zenon
<1>2. ASSUME NEW k \in S
      PROVE  m <= k
  <2>1. <<k, m>> \in Nat \X Nat /\ <<k, m>>[1] = k /\ <<k, m>>[2] = m
    OBVIOUS
  <2>2. k < m => <<k, m>> \in OpToRel(<, Nat)
    BY <2>1, Zenon DEF OpToRel
  <2>3. ~(k < m)
    BY <1>1, <2>2, Zenon
  <2>4. QED
    BY <2>3
<1>3. QED
  BY <1>2

\* Min of a non-empty set of naturals is its least element.
LEMMA MinNat ==
    ASSUME NEW S \in SUBSET Nat, S # {}
    PROVE  Min(S) \in S /\ \A k \in S : Min(S) <= k
BY LeastNat DEF Min

\* Bounded from above, it has a greatest element.
LEMMA GreatestNat ==
    ASSUME NEW S \in SUBSET Nat, S # {}, NEW b \in Nat, \A x \in S : x <= b
    PROVE  \E m \in S : \A x \in S : x <= m
<1> DEFINE D == {d \in Nat : b - d \in S}
<1>1. PICK y \in S : TRUE
  OBVIOUS
<1>2. b - y \in Nat /\ b - (b - y) = y
  BY <1>1
<1>3. b - y \in D
  BY <1>1, <1>2
<1>4. PICK d \in D : \A e \in D : d <= e
  BY <1>3, LeastNat
<1>5. ASSUME NEW x \in S
      PROVE  x <= b - d
  <2>1. b - x \in Nat /\ b - (b - x) = x
    OBVIOUS
  <2>2. b - x \in D
    BY <2>1
  <2>3. d <= b - x /\ d \in Nat
    BY <1>4, <2>2
  <2>4. QED
    BY <2>1, <2>3
<1>6. QED
  BY <1>4, <1>5

=============================================================================
