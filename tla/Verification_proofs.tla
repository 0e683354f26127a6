------------------------- MODULE Verification_proofs -------------------------
(***************************************************************************)
(* What is accepted for what it comes with is what it says it is: a root   *)
(* over the urn for any number of rows, a chain of certificates and a      *)
(* signed document however they are put together, a power computed in any  *)
(* of the three ways, and a ballot's proofs in any group of the code's     *)
(* form.                                                                   *)
(***************************************************************************)
EXTENDS Evidence, Exponentiation, BallotProofs, GroupArithmetic

----------------------------------------------------------------------------
(***************************************************************************)
(* The root over the urn.                                                  *)
(***************************************************************************)
LEMMA ASequence ==
    ASSUME NEW S, NEW s \in Seq(S)
    PROVE  /\ DOMAIN s = 1..Len(s) /\ Len(s) \in Nat
           /\ IsFiniteSet(DOMAIN s) /\ Cardinality(DOMAIN s) = Len(s)
           /\ \A i \in DOMAIN s : i \in Nat /\ i >= 1 /\ s[i] \in S
           /\ s = [i \in 1..Len(s) |-> s[i]]
<1>1. DOMAIN s = 1..Len(s) /\ Len(s) \in Nat
      /\ \A i \in DOMAIN s : i \in Nat /\ i >= 1 /\ s[i] \in S
    OBVIOUS
<1>2. IsFiniteSet(1..Len(s)) /\ Cardinality(1..Len(s)) = IF 1 > Len(s) THEN 0 ELSE Len(s) - 1 + 1
  <2>1. 1 \in Int /\ Len(s) \in Int
    BY <1>1
  <2> QED BY <2>1, FS_Interval
<1>3. Cardinality(1..Len(s)) = Len(s)
    BY <1>1, <1>2
<1>4. s = [i \in 1..Len(s) |-> s[i]]
  <2>1. PICK n \in Nat : s \in [1..n -> S]
    BY SeqDef
  <2>2. 1..n = 1..Len(s)
    BY <1>1, <2>1
  <2> QED BY <2>1, <2>2
<1> QED BY <1>1, <1>2, <1>3, <1>4

\* How often a leaf is in a list.
Times(leaves, leaf) == Cardinality({i \in DOMAIN leaves : leaves[i] = leaf})

----------------------------------------------------------------------------
(***************************************************************************)
(* The leaves in order.                                                    *)
(***************************************************************************)
LEMMA PlacesAreOrdered ==
    ASSUME NEW leaves \in Seq(Leaves), NEW i \in DOMAIN leaves, NEW j \in DOMAIN leaves,
           Precedes(leaves, i, j)
    PROVE  PlaceOf(leaves, i) < PlaceOf(leaves, j)
<1> DEFINE Before(k) == {m \in DOMAIN leaves : Precedes(leaves, m, k)}
<1>1. /\ DOMAIN leaves = 1..Len(leaves) /\ Len(leaves) \in Nat
      /\ \A k \in DOMAIN leaves : leaves[k] \in Leaves /\ HashOrder[leaves[k]] \in Nat
            /\ k \in Nat
    BY UrnTreeAssumption
<1>2. Before(i) \subseteq Before(j)
    BY <1>1 DEF Precedes
<1>3. i \in Before(j) /\ i \notin Before(i)
    BY <1>1 DEF Precedes
<1>4. IsFiniteSet(DOMAIN leaves) /\ IsFiniteSet(Before(i)) /\ IsFiniteSet(Before(j))
  <2>1. IsFiniteSet(1..Len(leaves))
    BY <1>1, FS_Interval
  <2>2. Before(i) \subseteq DOMAIN leaves /\ Before(j) \subseteq DOMAIN leaves
    OBVIOUS
  <2> QED BY <1>1, <2>1, <2>2, FS_Subset
<1> HIDE DEF Before
<1>5. /\ Cardinality(Before(i)) \in Nat /\ Cardinality(Before(j)) \in Nat
      /\ Cardinality(Before(i)) <= Cardinality(Before(j))
      /\ Cardinality(Before(i)) # Cardinality(Before(j))
    BY <1>2, <1>3, <1>4, FS_Subset, FS_CardinalityType
<1>6. PlaceOf(leaves, i) = Cardinality(Before(i)) + 1
         /\ PlaceOf(leaves, j) = Cardinality(Before(j)) + 1
    BY DEF PlaceOf, Before
<1> QED
    BY <1>5, <1>6

\* Of two leaves one comes first.
LEMMA OnePrecedes ==
    ASSUME NEW leaves \in Seq(Leaves), NEW i \in DOMAIN leaves, NEW j \in DOMAIN leaves, i # j
    PROVE  Precedes(leaves, i, j) \/ Precedes(leaves, j, i)
<1>1. i \in Nat /\ j \in Nat /\ leaves[i] \in Leaves /\ leaves[j] \in Leaves
    OBVIOUS
<1>2. HashOrder[leaves[i]] \in Nat /\ HashOrder[leaves[j]] \in Nat
    BY <1>1, UrnTreeAssumption
<1>3. CASE HashOrder[leaves[i]] = HashOrder[leaves[j]]
  <2>1. leaves[i] = leaves[j]
    BY <1>1, <1>3, UrnTreeAssumption
  <2> QED BY <1>1, <2>1 DEF Precedes
<1>4. CASE HashOrder[leaves[i]] # HashOrder[leaves[j]]
    BY <1>2, <1>4 DEF Precedes
<1> QED BY <1>3, <1>4

\* Every place is one leaf's.
LEMMA PlacesAreTaken ==
    ASSUME NEW leaves \in Seq(Leaves)
    PROVE  [i \in DOMAIN leaves |-> PlaceOf(leaves, i)]
              \in Bijection(DOMAIN leaves, DOMAIN leaves)
<1> DEFINE At == [i \in DOMAIN leaves |-> PlaceOf(leaves, i)]
<1>1. DOMAIN leaves = 1..Len(leaves) /\ Len(leaves) \in Nat /\ IsFiniteSet(DOMAIN leaves)
    BY FS_Interval
<1>2. ASSUME NEW i \in DOMAIN leaves PROVE PlaceOf(leaves, i) \in DOMAIN leaves
  <2> DEFINE Before == {m \in DOMAIN leaves : Precedes(leaves, m, i)}
  <2>1. Before \subseteq DOMAIN leaves \ {i} /\ Before \subseteq DOMAIN leaves /\ i \notin Before
    BY <1>1, UrnTreeAssumption DEF Precedes
  <2>2. IsFiniteSet(Before)
    BY <1>1, <2>1, FS_Subset
  <2> HIDE DEF Before
  <2>3. /\ Cardinality(Before) \in Nat /\ Cardinality(DOMAIN leaves) = Len(leaves)
        /\ Cardinality(Before) <= Len(leaves) /\ Cardinality(Before) # Len(leaves)
    <3>1. Cardinality(DOMAIN leaves) = Len(leaves)
        BY ASequence
    <3> QED BY <1>1, <2>1, <2>2, <3>1, FS_Subset, FS_CardinalityType
  <2>4. PlaceOf(leaves, i) = Cardinality(Before) + 1
    BY DEF PlaceOf, Before
  <2> QED
    BY <1>1, <2>3, <2>4
<1>3. ASSUME NEW i \in DOMAIN leaves, NEW j \in DOMAIN leaves, i # j
      PROVE  PlaceOf(leaves, i) # PlaceOf(leaves, j)
  <2>1. PlaceOf(leaves, i) \in Nat /\ PlaceOf(leaves, j) \in Nat
    BY <1>1, <1>2
  <2> QED
    BY <1>3, <2>1, OnePrecedes, PlacesAreOrdered
<1>4. At \in Injection(DOMAIN leaves, DOMAIN leaves)
    BY <1>2, <1>3 DEF Injection, IsInjective
<1>5. At \in Surjection(DOMAIN leaves, DOMAIN leaves)
  <2> HIDE DEF At
  <2> QED BY <1>1, <1>4, FS_Injection, Zenon
<1> QED
    BY <1>4, <1>5 DEF Bijection

\* What the sorted list is: the same leaves, each as often, none before one that
\* comes earlier.
LEMMA SortedIsSorted ==
    ASSUME NEW leaves \in Seq(Leaves)
    PROVE  /\ SortedLeaves(leaves) \in Seq(Leaves)
           /\ Len(SortedLeaves(leaves)) = Len(leaves)
           /\ \A k, m \in DOMAIN leaves :
                 k < m =>
                     HashOrder[SortedLeaves(leaves)[k]] <= HashOrder[SortedLeaves(leaves)[m]]
           /\ \A leaf \in Leaves : Times(SortedLeaves(leaves), leaf) = Times(leaves, leaf)
<1> DEFINE At == [i \in DOMAIN leaves |-> PlaceOf(leaves, i)]
           From == [k \in DOMAIN leaves |-> CHOOSE i \in DOMAIN leaves : PlaceOf(leaves, i) = k]
           sorted == SortedLeaves(leaves)
<1>1. DOMAIN leaves = 1..Len(leaves) /\ Len(leaves) \in Nat
      /\ \A i \in DOMAIN leaves : leaves[i] \in Leaves /\ HashOrder[leaves[i]] \in Nat
    BY UrnTreeAssumption
<1>2. /\ \A i \in DOMAIN leaves : PlaceOf(leaves, i) \in DOMAIN leaves
      /\ \A i, j \in DOMAIN leaves : PlaceOf(leaves, i) = PlaceOf(leaves, j) => i = j
      /\ \A k \in DOMAIN leaves : \E i \in DOMAIN leaves : PlaceOf(leaves, i) = k
  <2>1. At \in Bijection(DOMAIN leaves, DOMAIN leaves)
    BY PlacesAreTaken
  <2>2. /\ At \in [DOMAIN leaves -> DOMAIN leaves]
        /\ \A i, j \in DOMAIN leaves : At[i] = At[j] => i = j
        /\ \A k \in DOMAIN leaves : \E i \in DOMAIN leaves : At[i] = k
    BY <2>1 DEF Bijection, Injection, Surjection, IsInjective
  <2> QED BY <2>2
<1>3. ASSUME NEW k \in DOMAIN leaves
      PROVE  From[k] \in DOMAIN leaves /\ PlaceOf(leaves, From[k]) = k
    BY <1>2
<1>4. ASSUME NEW i \in DOMAIN leaves
      PROVE  From[PlaceOf(leaves, i)] = i
    BY <1>2, <1>3
<1>5. sorted = [k \in DOMAIN leaves |-> leaves[From[k]]]
    BY DEF SortedLeaves
<1>6. sorted \in Seq(Leaves) /\ Len(sorted) = Len(leaves)
  <2>1. sorted \in [1..Len(leaves) -> Leaves]
    BY <1>1, <1>3, <1>5
  <2> QED BY <1>1, <2>1
<1>7. ASSUME NEW k \in DOMAIN leaves, NEW m \in DOMAIN leaves, k < m
      PROVE  HashOrder[sorted[k]] <= HashOrder[sorted[m]]
  <2>1. ~Precedes(leaves, From[m], From[k])
    <3>1. From[k] \in DOMAIN leaves /\ From[m] \in DOMAIN leaves
        BY <1>3
    <3>2. PlaceOf(leaves, From[k]) = k /\ PlaceOf(leaves, From[m]) = m
        BY <1>3
    <3>3. Precedes(leaves, From[m], From[k]) => m < k
        BY <3>1, <3>2, PlacesAreOrdered
    <3>4. k \in Nat /\ m \in Nat
        BY <1>1
    <3> QED BY <1>7, <3>3, <3>4
  <2>2. From[m] # From[k]
    BY <1>1, <1>3, <1>7
  <2>3. Precedes(leaves, From[k], From[m])
    BY <1>3, <2>1, <2>2, OnePrecedes
  <2>4. sorted[k] = leaves[From[k]] /\ sorted[m] = leaves[From[m]]
    BY <1>5
  <2> QED
    BY <1>1, <1>3, <2>3, <2>4 DEF Precedes
<1>8. ASSUME NEW leaf \in Leaves
      PROVE  Times(sorted, leaf) = Times(leaves, leaf)
  <2> DEFINE A == {i \in DOMAIN leaves : leaves[i] = leaf}
             B == {k \in DOMAIN leaves : sorted[k] = leaf}
             f == [i \in A |-> PlaceOf(leaves, i)]
  <2>1. ASSUME NEW i \in A PROVE PlaceOf(leaves, i) \in B
    BY <1>2, <1>4, <1>5
  <2>2. ASSUME NEW k \in B PROVE From[k] \in A /\ f[From[k]] = k
    BY <1>3, <1>5
  <2>3. f \in Bijection(A, B)
    <3>1. f \in [A -> B]
        BY <2>1
    <3>2. \A i, j \in A : f[i] = f[j] => i = j
        BY <1>2
    <3>3. \A k \in B : \E i \in A : f[i] = k
        BY <2>2
    <3> QED BY <3>1, <3>2, <3>3, Zenon DEF Bijection, Injection, Surjection, IsInjective
  <2>4. IsFiniteSet(A)
    <3>1. IsFiniteSet(DOMAIN leaves)
        BY <1>1, FS_Interval
    <3> QED BY <3>1, FS_Subset
  <2> HIDE DEF A, B, f
  <2>5. ExistsBijection(A, B)
    BY <2>3 DEF ExistsBijection
  <2>6. Cardinality(A) = Cardinality(B)
    BY <2>4, <2>5, FS_Bijection
  <2>7. DOMAIN sorted = DOMAIN leaves
    BY <1>5
  <2> QED
    BY <2>6, <2>7 DEF A, B, Times
<1> QED
    BY <1>6, <1>7, <1>8

\* Two ordered lists that agree up to a place, where one has a leaf that the other
\* has none of from there on, differ in how often they have it.
LEMMA MoreOfIt ==
    ASSUME NEW a \in Seq(Leaves), NEW b \in Seq(Leaves), NEW k \in DOMAIN a,
           \A i \in 1..(k - 1) : i \in DOMAIN b /\ a[i] = b[i],
           \A i \in DOMAIN b : i >= k => b[i] # a[k]
    PROVE  Times(a, a[k]) # Times(b, a[k])
<1> DEFINE A == {i \in DOMAIN a : a[i] = a[k]}
           B == {i \in DOMAIN b : b[i] = a[k]}
<1>1. /\ DOMAIN a = 1..Len(a) /\ Len(a) \in Nat /\ DOMAIN b = 1..Len(b) /\ Len(b) \in Nat
      /\ k \in Nat /\ IsFiniteSet(DOMAIN a)
    BY ASequence
<1>2. B \subseteq A /\ k \in A /\ k \notin B /\ A \subseteq DOMAIN a
    BY <1>1
<1> HIDE DEF A, B
<1>3. IsFiniteSet(A)
    BY <1>1, <1>2, FS_Subset
<1>4. Cardinality(A) # Cardinality(B)
    BY <1>2, <1>3, FS_Subset
<1> QED
    BY <1>4 DEF A, B, Times

IsOrdered(leaves) ==
    \A k, m \in DOMAIN leaves : k < m => HashOrder[leaves[k]] <= HashOrder[leaves[m]]

\* An ordered list is told by how often it has each leaf.
LEMMA OrderedByCounts ==
    ASSUME NEW a \in Seq(Leaves), NEW b \in Seq(Leaves), IsOrdered(a), IsOrdered(b),
           \A leaf \in Leaves : Times(a, leaf) = Times(b, leaf)
    PROVE  a = b
<1> DEFINE Differ == {k \in DOMAIN a \cup DOMAIN b :
                         k \notin DOMAIN a \/ k \notin DOMAIN b \/ a[k] # b[k]}
<1>1. /\ DOMAIN a = 1..Len(a) /\ Len(a) \in Nat /\ DOMAIN b = 1..Len(b) /\ Len(b) \in Nat
      /\ \A i \in DOMAIN a : a[i] \in Leaves /\ HashOrder[a[i]] \in Nat
      /\ \A i \in DOMAIN b : b[i] \in Leaves /\ HashOrder[b[i]] \in Nat
    BY UrnTreeAssumption
<1>2. Differ = {}
  <2> SUFFICES ASSUME Differ # {} PROVE FALSE
    OBVIOUS
  <2>1. Differ \in SUBSET Nat
    BY <1>1
  <2>2. PICK k \in Differ : \A m \in Differ : k <= m
    BY <2>1, Smallest
  <2>3. k \in Nat /\ k >= 1
    BY <1>1
  <2>4. \A i \in 1..(k - 1) : i \in DOMAIN a /\ i \in DOMAIN b /\ a[i] = b[i]
    <3> SUFFICES ASSUME NEW i \in 1..(k - 1)
                 PROVE i \in DOMAIN a /\ i \in DOMAIN b /\ a[i] = b[i]
        OBVIOUS
    <3>1. i \in Nat /\ i >= 1 /\ i < k
        BY <2>3
    <3>2. i \notin Differ
        BY <2>2, <2>3, <3>1
    <3>3. i \in DOMAIN a \cup DOMAIN b
        BY <1>1, <2>3, <3>1
    <3> QED BY <3>2, <3>3
  <2>5. CASE k \notin DOMAIN a
    <3>1. k \in DOMAIN b /\ \A i \in DOMAIN a : ~(i >= k)
        BY <1>1, <2>2, <2>3, <2>5
    <3>2. Times(b, b[k]) # Times(a, b[k])
        BY <2>4, <3>1, MoreOfIt
    <3> QED BY <1>1, <3>1, <3>2
  <2>6. CASE k \notin DOMAIN b
    <3>1. k \in DOMAIN a /\ \A i \in DOMAIN b : ~(i >= k)
        BY <1>1, <2>2, <2>3, <2>6
    <3>2. Times(a, a[k]) # Times(b, a[k])
        BY <2>4, <3>1, MoreOfIt
    <3> QED BY <1>1, <3>1, <3>2
  <2>7. CASE k \in DOMAIN a /\ k \in DOMAIN b /\ HashOrder[a[k]] < HashOrder[b[k]]
    <3>1. \A i \in DOMAIN b : i >= k => HashOrder[b[k]] <= HashOrder[b[i]]
        BY <1>1, <2>7 DEF IsOrdered
    <3>2. \A i \in DOMAIN b : i >= k => b[i] # a[k]
        BY <1>1, <2>7, <3>1
    <3>3. Times(a, a[k]) # Times(b, a[k])
      <4> HIDE DEF Differ
      <4> QED BY <2>4, <2>7, <3>2, MoreOfIt
    <3> QED BY <1>1, <2>7, <3>3
  <2>8. CASE k \in DOMAIN a /\ k \in DOMAIN b /\ HashOrder[b[k]] < HashOrder[a[k]]
    <3>1. \A i \in DOMAIN a : i >= k => HashOrder[a[k]] <= HashOrder[a[i]]
        BY <1>1, <2>8 DEF IsOrdered
    <3>2. \A i \in DOMAIN a : i >= k => a[i] # b[k]
        BY <1>1, <2>8, <3>1
    <3>3. Times(b, b[k]) # Times(a, b[k])
      <4> HIDE DEF Differ
      <4> QED BY <2>4, <2>8, <3>2, MoreOfIt
    <3> QED BY <1>1, <2>8, <3>3
  <2>9. CASE k \in DOMAIN a /\ k \in DOMAIN b /\ a[k] # b[k]
    <3>1. HashOrder[a[k]] # HashOrder[b[k]]
        BY <1>1, <2>9, UrnTreeAssumption
    <3> QED BY <1>1, <2>7, <2>8, <2>9, <3>1
  <2> QED BY <2>2, <2>5, <2>6, <2>9
<1>3. DOMAIN a = DOMAIN b /\ \A i \in DOMAIN a : a[i] = b[i]
    BY <1>2
<1>4. Len(a) = Len(b)
  <2>1. Cardinality(DOMAIN a) = Len(a) /\ Cardinality(DOMAIN b) = Len(b)
    BY ASequence
  <2> QED BY <1>3, <2>1
<1> QED
    BY <1>3, <1>4

----------------------------------------------------------------------------
(***************************************************************************)
(* The levels of the tree.                                                 *)
(***************************************************************************)
LEMMA Halves ==
    ASSUME NEW n \in Nat
    PROVE  n \div 2 \in Nat /\ n % 2 \in {0, 1} /\ n = 2 * (n \div 2) + (n % 2)
    OBVIOUS

LEMMA HalfIsShorter ==
    ASSUME NEW k \in Nat, k >= 1, NEW most \in Int, k = 1 \/ k <= most + 1
    PROVE  /\ (k + 1) \div 2 \in Nat /\ (k + 1) \div 2 >= 1
           /\ (k + 1) \div 2 = 1 \/ (k + 1) \div 2 <= most
<1> DEFINE h == (k + 1) \div 2  r == (k + 1) % 2
<1>1. k + 1 \in Nat
    OBVIOUS
<1>2. h \in Nat /\ k + 1 = 2 * h + r /\ r \in {0, 1}
    BY <1>1, Halves
<1> HIDE DEF h, r
<1>3. h >= 1 /\ (h = 1 \/ h <= most)
    BY <1>2
<1> QED
    BY <1>2, <1>3 DEF h

LEMMA OddHasRoom ==
    ASSUME NEW n \in Nat, NEW k \in 1..n, k % 2 = 1
    PROVE  (k + 1) \div 2 \in 1..((n + 1) \div 2) /\ 2 * ((k + 1) \div 2) - 1 = k
<1> DEFINE i == (k + 1) \div 2  half == (n + 1) \div 2  r == (n + 1) % 2
           q == k \div 2  rest == (k + 1) % 2
<1>1. k \in Nat /\ k + 1 \in Nat /\ n + 1 \in Nat /\ k >= 1 /\ k <= n
    OBVIOUS
<1>2. /\ i \in Nat /\ q \in Nat /\ half \in Nat /\ r \in {0, 1} /\ rest \in {0, 1}
      /\ k = 2 * q + 1 /\ k + 1 = 2 * i + rest /\ n + 1 = 2 * half + r
    BY <1>1, Halves
<1> HIDE DEF i, half, r, q, rest
<1>3. i = q + 1
    BY <1>2
<1>4. 2 * i <= 2 * half + 1
    BY <1>1, <1>2, <1>3
<1>5. i <= half
    BY <1>2, <1>4
<1>6. i \in 1..half /\ 2 * i - 1 = k
    BY <1>2, <1>3, <1>5
<1> QED
    BY <1>6 DEF i, half

LEMMA LevelAboveIsHalf ==
    ASSUME NEW level, NEW n \in Nat, DOMAIN level = 1..n, Len(level) = n
    PROVE  /\ DOMAIN LevelAbove(level) = 1..((n + 1) \div 2)
           /\ LevelAbove(level) = [i \in 1..((n + 1) \div 2) |->
                  IF 2 * i <= n THEN NodeOf(level[2 * i - 1], level[2 * i])
                  ELSE level[2 * i - 1]]
    BY DEF LevelAbove

LEMMA OneLevelAbove ==
    ASSUME NEW a, NEW b, NEW n \in Nat, a = [i \in 1..n |-> a[i]], b = [i \in 1..n |-> b[i]],
           LevelAbove(a) = LevelAbove(b)
    PROVE  a = b
<1>1. Len(a) = n /\ Len(b) = n
    OBVIOUS
<1>2. ASSUME NEW i \in 1..((n + 1) \div 2)
      PROVE  (IF 2 * i <= n THEN NodeOf(a[2 * i - 1], a[2 * i]) ELSE a[2 * i - 1])
                 = (IF 2 * i <= n THEN NodeOf(b[2 * i - 1], b[2 * i]) ELSE b[2 * i - 1])
    BY <1>1 DEF LevelAbove
<1>3. ASSUME NEW k \in 1..n PROVE a[k] = b[k]
  <2>1. CASE k % 2 = 0
    <3> DEFINE i == k \div 2
    <3>1. i \in 1..((n + 1) \div 2) /\ 2 * i = k
      <4>1. k \in Nat /\ n + 1 \in Nat /\ k >= 1 /\ k <= n
        OBVIOUS
      <4>2. /\ i \in Nat /\ k = 2 * i + (k % 2)
            /\ (n + 1) \div 2 \in Nat /\ n + 1 = 2 * ((n + 1) \div 2) + ((n + 1) % 2)
            /\ (n + 1) % 2 \in {0, 1}
        BY <4>1, Halves
      <4> HIDE DEF i
      <4> DEFINE h == (n + 1) \div 2  r == (n + 1) % 2
      <4> HIDE DEF h, r
      <4>3. i \in Nat /\ k = 2 * i /\ h \in Nat /\ n + 1 = 2 * h + r /\ r \in {0, 1}
        BY <2>1, <4>2 DEF h, r
      <4>4. i \in 1..h
        BY <4>1, <4>3
      <4> QED BY <4>3, <4>4 DEF h
    <3> HIDE DEF i
    <3>2. NodeOf(a[2 * i - 1], a[2 * i]) = NodeOf(b[2 * i - 1], b[2 * i])
      <4>1. i \in 1..((n + 1) \div 2) /\ 2 * i <= n
        BY <3>1
      <4> QED BY <1>2, <4>1
    <3>3. a[2 * i] = b[2 * i]
        BY <3>2 DEF NodeOf
    <3> QED BY <3>1, <3>3
  <2>2. CASE k % 2 = 1
    <3> DEFINE i == (k + 1) \div 2
    <3>1. i \in 1..((n + 1) \div 2) /\ 2 * i - 1 = k
        BY <2>2, OddHasRoom
    <3> HIDE DEF i
    <3>2. CASE 2 * i <= n
      <4>1. NodeOf(a[2 * i - 1], a[2 * i]) = NodeOf(b[2 * i - 1], b[2 * i])
        BY <1>2, <3>1, <3>2
      <4> QED BY <3>1, <4>1 DEF NodeOf
    <3>3. CASE ~(2 * i <= n)
      <4>1. a[2 * i - 1] = b[2 * i - 1]
        BY <1>2, <3>1, <3>3
      <4> QED BY <3>1, <4>1
    <3> QED BY <3>2, <3>3
  <2> QED BY <2>1, <2>2
<1> QED
    BY <1>3

Levels(leaves) ==
    CHOOSE at : at = [n \in 0..Len(leaves) |-> IF n = 0 THEN leaves ELSE LevelAbove(at[n - 1])]

LEMMA LevelsExist ==
    ASSUME NEW leaves, NEW N \in Nat
    PROVE  \E at : at = [n \in 0..N |-> IF n = 0 THEN leaves ELSE LevelAbove(at[n - 1])]
<1> DEFINE Step(at, n) == IF n = 0 THEN leaves ELSE LevelAbove(at[n - 1])
           Bad == {m \in Nat : ~\E at : at = [n \in 0..m |-> Step(at, n)]}
<1>1. Bad = {}
  <2> SUFFICES ASSUME Bad # {} PROVE FALSE
    OBVIOUS
  <2>1. Bad \in SUBSET Nat
    OBVIOUS
  <2>2. PICK m \in Bad : \A k \in Bad : m <= k
    <3> HIDE DEF Bad
    <3> QED BY <2>1, Smallest
  <2>3. m \in Nat
    OBVIOUS
  <2>4. CASE m = 0
    <3> DEFINE at == [n \in 0..0 |-> leaves]
    <3>1. at = [n \in 0..m |-> Step(at, n)]
        BY <2>4
    <3> QED BY <3>1
  <2>5. CASE m # 0
    <3>1. m - 1 \in Nat /\ m - 1 \notin Bad
      <4> HIDE DEF Bad
      <4> QED BY <2>2, <2>3, <2>5
    <3>2. PICK f : f = [n \in 0..(m - 1) |-> Step(f, n)]
        BY <3>1
    <3> DEFINE at == [n \in 0..m |-> IF n = m THEN LevelAbove(f[m - 1]) ELSE f[n]]
    <3>3. ASSUME NEW n \in 0..m PROVE at[n] = Step(at, n)
      <4>1. CASE n = m
        <5>1. at[n] = LevelAbove(f[m - 1]) /\ at[m - 1] = f[m - 1]
            BY <2>3, <2>5, <4>1
        <5> QED BY <2>5, <4>1, <5>1
      <4>2. CASE n # m
        <5>1. n \in 0..(m - 1) /\ (n # 0 => n - 1 \in 0..m /\ n - 1 # m)
            BY <2>3, <4>2
        <5>2. at[n] = f[n] /\ f[n] = Step(f, n) /\ (n # 0 => at[n - 1] = f[n - 1])
            BY <3>2, <4>2, <5>1
        <5> QED BY <5>2
      <4> QED BY <4>1, <4>2
    <3>4. at = [n \in 0..m |-> Step(at, n)]
        BY <3>3
    <3> QED BY <3>4
  <2> QED BY <2>4, <2>5
<1> QED BY <1>1

\* Two lists of one length with one top are one list.
LEMMA TopTellsTheLeaves ==
    ASSUME NEW S, NEW a \in Seq(S), NEW b \in Seq(S), Len(a) = Len(b), a # <<>>,
           TopOf(a) = TopOf(b)
    PROVE  a = b
<1> DEFINE N == Len(a)
           up == Levels(a)
           down == Levels(b)
<1>1. N \in Nat /\ N >= 1 /\ Len(b) = N
    OBVIOUS
<1>0. a = [i \in 1..N |-> a[i]] /\ b = [i \in 1..N |-> b[i]]
  <2>1. a = [i \in 1..N |-> a[i]] /\ b = [i \in 1..Len(b) |-> b[i]]
    BY ASequence
  <2> QED BY <1>1, <2>1
<1>2. /\ up = [n \in 0..N |-> IF n = 0 THEN a ELSE LevelAbove(up[n - 1])]
      /\ down = [n \in 0..N |-> IF n = 0 THEN b ELSE LevelAbove(down[n - 1])]
  <2>1. /\ \E f : f = [n \in 0..N |-> IF n = 0 THEN a ELSE LevelAbove(f[n - 1])]
        /\ \E f : f = [n \in 0..N |-> IF n = 0 THEN b ELSE LevelAbove(f[n - 1])]
    BY <1>1, LevelsExist
  <2>2. /\ up = CHOOSE f : f = [n \in 0..N |-> IF n = 0 THEN a ELSE LevelAbove(f[n - 1])]
        /\ down = CHOOSE f : f = [n \in 0..N |-> IF n = 0 THEN b ELSE LevelAbove(f[n - 1])]
    BY <1>1 DEF Levels
  <2> HIDE DEF up, down
  <2> QED BY <2>1, <2>2
<1>3. TopOf(a) = up[N][1] /\ TopOf(b) = down[N][1]
    BY DEF TopOf, Levels
<1> HIDE DEF up, down
<1>4. /\ up[0] = a /\ down[0] = b
      /\ \A n \in 1..N : up[n] = LevelAbove(up[n - 1]) /\ down[n] = LevelAbove(down[n - 1])
  <2>1. \A n \in 0..N : /\ up[n] = (IF n = 0 THEN a ELSE LevelAbove(up[n - 1]))
                         /\ down[n] = (IF n = 0 THEN b ELSE LevelAbove(down[n - 1]))
    BY <1>2
  <2> QED BY <1>1, <2>1
<1> DEFINE Fits(n, k) == /\ up[n] = [i \in 1..k |-> up[n][i]]
              /\ down[n] = [i \in 1..k |-> down[n][i]]
                         /\ k >= 1 /\ (k = 1 \/ k <= N - n)
           Lost == {n \in 0..N : ~\E k \in Nat : Fits(n, k)}
\* A level is one list as long as the other, and shorter than the one below it.
<1>5. Lost = {}
  <2> SUFFICES ASSUME Lost # {} PROVE FALSE
    OBVIOUS
  <2>1. Lost \in SUBSET Nat
    BY <1>1
  <2>2. PICK n \in Lost : \A m \in Lost : n <= m
    <3> HIDE DEF Lost
    <3> QED BY <2>1, Smallest
  <2>3. n \in 0..N /\ n \in Nat
    BY <1>1
  <2>4. CASE n = 0
    <3>1. N - n = N
        BY <1>1, <2>4
    <3> HIDE DEF N
    <3>2. up[n] = a /\ down[n] = b
        BY <1>4, <2>4
    <3>3. up[n] = [i \in 1..N |-> up[n][i]] /\ down[n] = [i \in 1..N |-> down[n][i]]
        BY <1>0, <3>2, Zenon
    <3>4. Fits(n, N)
        BY <1>1, <3>1, <3>3
    <3> QED BY <1>1, <3>4
  <2>5. CASE n # 0
    <3>1. n - 1 \in 0..N /\ n - 1 \notin Lost /\ n \in 1..N
      <4> HIDE DEF Lost
      <4> QED BY <1>1, <2>2, <2>3, <2>5
    <3>2. PICK k \in Nat : Fits(n - 1, k)
        BY <3>1
    <3>3. up[n] = LevelAbove(up[n - 1]) /\ down[n] = LevelAbove(down[n - 1])
        BY <1>4, <3>1
    <3> DEFINE h == (k + 1) \div 2
    <3>4. /\ up[n] = [i \in 1..h |-> up[n][i]] /\ down[n] = [i \in 1..h |-> down[n][i]]
      <4>1. Len(up[n - 1]) = k /\ Len(down[n - 1]) = k
        BY <3>2
      <4> QED BY <3>3, <4>1 DEF LevelAbove
    <3>5. h \in Nat /\ h >= 1 /\ (h = 1 \/ h <= N - n)
      <4>1. k \in Nat /\ k >= 1 /\ (k = 1 \/ k <= N - (n - 1))
        BY <3>2
      <4>2. N - n \in Int /\ N - (n - 1) = (N - n) + 1
        BY <1>1, <2>3
      <4> HIDE DEF N, Lost
      <4> QED BY <4>1, <4>2, HalfIsShorter
    <3> HIDE DEF h
    <3>6. Fits(n, h)
        BY <3>4, <3>5
    <3> QED BY <3>5, <3>6
  <2> QED BY <2>4, <2>5
\* So they are the same on every level, from the top down.
<1> DEFINE Apart == {d \in 0..N : up[N - d] # down[N - d]}
<1>6. Apart = {}
  <2> SUFFICES ASSUME Apart # {} PROVE FALSE
    OBVIOUS
  <2>1. Apart \in SUBSET Nat
    BY <1>1
  <2>2. PICK d \in Apart : \A m \in Apart : d <= m
    <3> HIDE DEF Apart
    <3> QED BY <2>1, Smallest
  <2>3. d \in Nat /\ d <= N /\ N - d \in 0..N
    BY <1>1
  <2>4. PICK k \in Nat : Fits(N - d, k)
    BY <1>5, <2>3
  <2>5. CASE d = 0
    <3>1. k = 1 /\ N - d = N
        BY <1>1, <2>4, <2>5
    <3>2. up[N] = [i \in 1..1 |-> up[N][i]] /\ down[N] = [i \in 1..1 |-> down[N][i]]
        BY <2>4, <3>1
    <3>3. up[N][1] = down[N][1]
        BY <1>3
    <3>4. \A i \in 1..1 : up[N][i] = down[N][i]
        BY <3>3
    <3>5. up[N] = down[N]
        BY <3>2, <3>4
    <3> QED BY <3>1, <3>5
  <2>6. CASE d # 0
    <3>1. d - 1 \in 0..N /\ d - 1 \notin Apart /\ N - (d - 1) \in 1..N /\ N - (d - 1) - 1 = N - d
      <4> HIDE DEF Apart
      <4> QED BY <1>1, <2>2, <2>3, <2>6
    <3> DEFINE m == N - (d - 1)
    <3>2. up[m] = down[m]
        BY <3>1
    <3>3. up[m] = LevelAbove(up[N - d]) /\ down[m] = LevelAbove(down[N - d])
        BY <1>4, <3>1
    <3> HIDE DEF m
    <3>4. up[N - d] = down[N - d]
        BY <2>4, <3>2, <3>3, OneLevelAbove
    <3> QED BY <3>4
  <2> QED BY <2>5, <2>6
<1>7. up[N - N] = down[N - N] /\ N - N = 0
    BY <1>1, <1>6
<1> QED
    BY <1>4, <1>7

----------------------------------------------------------------------------
(***************************************************************************)
(* The root.                                                               *)
(***************************************************************************)
LeavesOf(rows) == [i \in DOMAIN rows |-> urnLeaf(rows[i])]

LEMMA LeavesAreTheRows ==
    ASSUME NEW rows \in Seq(Rows)
    PROVE  /\ LeavesOf(rows) \in Seq(Leaves) /\ Len(LeavesOf(rows)) = Len(rows)
           /\ \A row \in Rows : Times(LeavesOf(rows), urnLeaf(row)) = Copies(rows, row)
<1>1. DOMAIN rows = 1..Len(rows) /\ Len(rows) \in Nat /\ \A i \in DOMAIN rows : rows[i] \in Rows
    BY ASequence
<1>2. LeavesOf(rows) \in [1..Len(rows) -> Leaves]
    BY <1>1 DEF LeavesOf, Leaves
<1>3. LeavesOf(rows) \in Seq(Leaves) /\ Len(LeavesOf(rows)) = Len(rows)
    BY <1>1, <1>2
<1>4. ASSUME NEW row \in Rows PROVE Times(LeavesOf(rows), urnLeaf(row)) = Copies(rows, row)
  <2>1. \A r \in Rows : urnLeaf(r) = urnLeaf(row) => r = row
    BY DEF urnLeaf, Rows
  <2>2. {i \in DOMAIN LeavesOf(rows) : LeavesOf(rows)[i] = urnLeaf(row)}
           = {i \in DOMAIN rows : rows[i] = row}
    BY <1>1, <2>1 DEF LeavesOf
  <2> QED BY <2>2 DEF Times, Copies
<1> QED
    BY <1>3, <1>4

LEMMA SameCountsSameLeaves ==
    ASSUME NEW a \in Seq(Rows), NEW b \in Seq(Rows)
    PROVE  (\A row \in Rows : Copies(a, row) = Copies(b, row))
               <=> \A leaf \in Leaves : Times(LeavesOf(a), leaf) = Times(LeavesOf(b), leaf)
    BY LeavesAreTheRows DEF Leaves

LEMMA SortedTellsTheLeaves ==
    ASSUME NEW a \in Seq(Leaves), NEW b \in Seq(Leaves)
    PROVE  (\A leaf \in Leaves : Times(a, leaf) = Times(b, leaf))
              <=> SortedLeaves(a) = SortedLeaves(b)
<1>1. /\ SortedLeaves(a) \in Seq(Leaves) /\ SortedLeaves(b) \in Seq(Leaves)
      /\ IsOrdered(SortedLeaves(a)) /\ IsOrdered(SortedLeaves(b))
      /\ \A leaf \in Leaves : Times(SortedLeaves(a), leaf) = Times(a, leaf)
      /\ \A leaf \in Leaves : Times(SortedLeaves(b), leaf) = Times(b, leaf)
  <2>1. DOMAIN SortedLeaves(a) = DOMAIN a /\ DOMAIN SortedLeaves(b) = DOMAIN b
    BY DEF SortedLeaves
  <2> QED BY <2>1, SortedIsSorted DEF IsOrdered
<1> QED
    BY <1>1, OrderedByCounts

LEMMA RootTellsTheLeaves ==
    ASSUME NEW a \in Seq(Leaves), NEW b \in Seq(Leaves)
    PROVE  (merkleRoot(a) = merkleRoot(b)) <=> SortedLeaves(a) = SortedLeaves(b)
<1>1. /\ SortedLeaves(a) \in Seq(Leaves) /\ SortedLeaves(b) \in Seq(Leaves)
      /\ Len(SortedLeaves(a)) = Len(a) /\ Len(SortedLeaves(b)) = Len(b)
      /\ Len(a) \in Nat /\ Len(b) \in Nat
      /\ (Len(a) = 0 <=> a = <<>>) /\ (Len(b) = 0 <=> b = <<>>)
    BY SortedIsSorted
<1>2. \A top, other, m, n : Finalise(top, m) = Finalise(other, n) <=> top = other /\ m = n
    BY DEF Finalise
<1>3. ASSUME SortedLeaves(a) = SortedLeaves(b) PROVE merkleRoot(a) = merkleRoot(b)
    BY <1>1, <1>3 DEF merkleRoot
<1>4. ASSUME merkleRoot(a) = merkleRoot(b) PROVE SortedLeaves(a) = SortedLeaves(b)
  <2>1. CASE a = <<>>
    <3>1. b = <<>>
        BY <1>1, <1>2, <1>4, <2>1 DEF merkleRoot
    <3> QED BY <2>1, <3>1
  <2>2. CASE a # <<>>
    <3>1. b # <<>>
        BY <1>1, <1>2, <1>4, <2>2 DEF merkleRoot
    <3>2. TopOf(SortedLeaves(a)) = TopOf(SortedLeaves(b)) /\ Len(a) = Len(b)
        BY <1>2, <1>4, <2>2, <3>1 DEF merkleRoot
    <3>3. SortedLeaves(a) # <<>>
        BY <1>1, <2>2
    <3> QED BY <1>1, <3>2, <3>3, TopTellsTheLeaves
  <2> QED BY <2>1, <2>2
<1> QED
    BY <1>3, <1>4

LEMMA RootTellsTheRows ==
    ASSUME NEW a \in Seq(Rows), NEW b \in Seq(Rows)
    PROVE  (urnRootOf(a) = urnRootOf(b)) <=> \A row \in Rows : Copies(a, row) = Copies(b, row)
<1>1. LeavesOf(a) \in Seq(Leaves) /\ LeavesOf(b) \in Seq(Leaves)
    BY LeavesAreTheRows
<1>2. urnRootOf(a) = merkleRoot(LeavesOf(a)) /\ urnRootOf(b) = merkleRoot(LeavesOf(b))
    BY DEF urnRootOf, LeavesOf
<1> QED
    BY <1>1, <1>2, SameCountsSameLeaves, SortedTellsTheLeaves, RootTellsTheLeaves

\* The root over the urn is the same for the same rows in any order, and for no
\* others (urn-root.ts urnRootOf).
THEOREM RootIsAlwaysTheUrn == TreeSpec => [](TreeTypeOK /\ RootIsTheUrn)
<1>1. TreeInit => TreeTypeOK
    BY UrnTreeAssumption DEF TreeInit, TreeTypeOK
<1>2. TreeTypeOK /\ [Add]_treeVars => TreeTypeOK'
  <2> SUFFICES ASSUME TreeTypeOK, [Add]_treeVars PROVE TreeTypeOK'
    OBVIOUS
  <2>1. CASE Len(left) < MaxRows /\ (\E row \in Rows : left' = Append(left, row))
                /\ UNCHANGED right
    BY <2>1, UrnTreeAssumption DEF TreeTypeOK
  <2>2. CASE Len(right) < MaxRows /\ (\E row \in Rows : right' = Append(right, row))
                /\ UNCHANGED left
    BY <2>2, UrnTreeAssumption DEF TreeTypeOK
  <2>3. CASE UNCHANGED treeVars
    BY <2>3 DEF TreeTypeOK, treeVars
  <2> QED BY <2>1, <2>2, <2>3 DEF Add
<1>3. TreeTypeOK => TreeTypeOK /\ RootIsTheUrn
    BY RootTellsTheRows DEF TreeTypeOK, RootIsTheUrn
<1> QED
    BY <1>1, <1>2, <1>3, PTL DEF TreeSpec

----------------------------------------------------------------------------
(***************************************************************************)
(* The chain of certificates.                                              *)
(***************************************************************************)
----------------------------------------------------------------------------
(***************************************************************************)
(* Days.                                                                   *)
(***************************************************************************)
LEMMA LastDay ==
    ASSUME NEW S \in SUBSET Days, S # {}
    PROVE  Max(S) \in S /\ \A d \in S : d <= Max(S)
<1> DEFINE Bounds == {n \in Nat : \A d \in S : d <= n}
<1>1. Bounds \in SUBSET Nat /\ 9 \in Bounds
    BY DEF Days
<1>2. PICK n \in Bounds : \A m \in Bounds : n <= m
  <2> HIDE DEF Bounds
  <2> QED BY <1>1, Smallest
<1>3. n \in S
  <2> SUFFICES ASSUME n \notin S PROVE FALSE
    OBVIOUS
  <2>1. n \in Nat /\ \A d \in S : d \in Nat /\ d <= n /\ d # n
    BY <1>2 DEF Days
  <2>2. n >= 1
    BY <2>1
  <2>3. n - 1 \in Bounds
    BY <2>1, <2>2
  <2>4. n <= n - 1
    <3> HIDE DEF Bounds
    <3> QED BY <1>2, <2>3
  <2> QED BY <2>2, <2>4
<1>4. \A d \in S : n >= d
    BY <1>2 DEF Days
<1>5. \E x \in S : \A y \in S : x >= y
    BY <1>3, <1>4
<1> QED
    BY <1>5 DEF Max, Days

LEMMA FirstDay ==
    ASSUME NEW S \in SUBSET Days, S # {}
    PROVE  Min(S) \in S /\ \A d \in S : Min(S) <= d
<1>1. S \in SUBSET Nat
    BY DEF Days
<1>2. \E x \in S : \A y \in S : x <= y
    BY <1>1, Smallest
<1> QED
    BY <1>2 DEF Min

\* Periods have a day in common exactly when the last of their first days is not
\* after the first of their last.
LEMMA CommonDay ==
    ASSUME NEW S \in SUBSET (Days \X Days), S # {}
    PROVE  Latest(S) <= Earliest(S) <=> \E day \in Nat : \A p \in S : day \in p[1]..p[2]
<1> DEFINE Firsts == {p[1] : p \in S}
           Lasts == {p[2] : p \in S}
<1>1. Firsts \in SUBSET Days /\ Lasts \in SUBSET Days /\ Firsts # {} /\ Lasts # {}
    OBVIOUS
<1>2. /\ Max(Firsts) \in Firsts /\ \A d \in Firsts : d <= Max(Firsts)
      /\ Min(Lasts) \in Lasts /\ \A d \in Lasts : Min(Lasts) <= d
  <2> HIDE DEF Firsts, Lasts
  <2> QED BY <1>1, LastDay, FirstDay
<1>3. Latest(S) = Max(Firsts) /\ Earliest(S) = Min(Lasts)
    BY DEF Latest, Earliest
<1>4. \A p \in S : p[1] \in Firsts /\ p[2] \in Lasts /\ p[1] \in Nat /\ p[2] \in Nat
    BY DEF Days
<1>5. Max(Firsts) \in Nat /\ Min(Lasts) \in Nat
    BY <1>1, <1>2 DEF Days
<1> DEFINE latest == Max(Firsts)
           earliest == Min(Lasts)
<1>6. ASSUME latest <= earliest PROVE \A p \in S : latest \in p[1]..p[2]
  <2> SUFFICES ASSUME NEW p \in S PROVE latest \in p[1]..p[2]
    OBVIOUS
  <2>1. p[1] <= latest /\ earliest <= p[2] /\ p[1] \in Nat /\ p[2] \in Nat
    BY <1>2, <1>4
  <2> HIDE DEF Firsts, Lasts
  <2> QED BY <1>5, <1>6, <2>1
<1>7. ASSUME NEW day \in Nat, \A p \in S : day \in p[1]..p[2]
      PROVE  latest <= earliest
  <2>1. PICK p \in S : p[1] = latest
    BY <1>2
  <2>2. PICK q \in S : q[2] = earliest
    BY <1>2
  <2>3. p[1] <= day /\ day <= q[2]
    BY <1>4, <1>7
  <2> QED BY <1>5, <2>1, <2>2, <2>3
<1> QED
    BY <1>3, <1>5, <1>6, <1>7

----------------------------------------------------------------------------
(***************************************************************************)
(* The verdict, question by question.                                      *)
(***************************************************************************)
LEMMA RoomOfTheChain ==
    ASSUME NEW root, root.limit \in Nat, Len(chain) \in 2..4,
           \A i \in Intermediates : chain[i].limit \in Nat
    PROVE  (\A i \in Intermediates : RoomBelow(root)[i + 1] > 0)
               <=> (Len(chain) - 1 <= root.limit /\ \A i \in Intermediates : ~TooDeep(i))
<1> DEFINE n == Len(chain)
           Lower(room, i) == IF i > n THEN root.limit
                             ELSE IF room[i + 1] = 0 THEN 0
                             ELSE Lesser(room[i + 1] - 1, chain[i].limit)
           top == root.limit
           fourth == IF top = 0 THEN 0 ELSE Lesser(top - 1, chain[n].limit)
           third == IF fourth = 0 THEN 0 ELSE Lesser(fourth - 1, chain[n - 1].limit)
           second == IF third = 0 THEN 0 ELSE Lesser(third - 1, chain[n - 2].limit)
           known == [i \in 2..(n + 1) |-> IF i = n + 1 THEN top ELSE IF i = n THEN fourth
                                          ELSE IF i = n - 1 THEN third ELSE second]
<1>1. n = 2 \/ n = 3 \/ n = 4
    OBVIOUS
<1>2. known = [i \in 2..(n + 1) |-> Lower(known, i)]
  <2>1. ASSUME NEW i \in 2..(n + 1) PROVE known[i] = Lower(known, i)
    <3>1. CASE n = 2
        BY <3>1
    <3>2. CASE n = 3
        BY <3>2
    <3>3. CASE n = 4
        BY <3>3
    <3> QED BY <1>1, <3>1, <3>2, <3>3
  <2> QED BY <2>1
<1> DEFINE room == RoomBelow(root)
<1>3. room = [i \in 2..(n + 1) |-> Lower(room, i)]
    BY <1>2 DEF RoomBelow
<1> HIDE DEF known, room
<1>4. \A i \in 2..(n + 1) : room[i] = Lower(room, i)
    BY <1>3
<1>5. CASE n = 2
  <2>1. room[3] = root.limit
    BY <1>4, <1>5
  <2> QED
    BY <1>5, <2>1 DEF TooDeep, Intermediates, room
<1>6. CASE n = 3
  <2>1. room[4] = root.limit
           /\ room[3] = IF room[4] = 0 THEN 0 ELSE Lesser(room[4] - 1, chain[3].limit)
    BY <1>4, <1>6
  <2> QED
    BY <1>6, <2>1 DEF TooDeep, Intermediates, room, Lesser
<1>7. CASE n = 4
  <2>1. /\ room[5] = root.limit
        /\ room[4] = IF room[5] = 0 THEN 0 ELSE Lesser(room[5] - 1, chain[4].limit)
    BY <1>4, <1>7
  <2>2. room[3] = IF room[4] = 0 THEN 0 ELSE Lesser(room[4] - 1, chain[3].limit)
    BY <1>4, <1>7
  <2> QED
    BY <1>7, <2>1, <2>2 DEF TooDeep, Intermediates, room, Lesser
<1> QED
    BY <1>1, <1>5, <1>6, <1>7

\* A usage that is there once and allows something is one set of bits with that bit.
LEMMA OneUsage ==
    ASSUME NEW c, NEW bit, c.usage \in Usages
    PROVE  /\ (HasReadableUsage(c) /\ KeyUsageAllows(c, bit)) <=> Names(c, bit)
           /\ Names(c, "keyCertSign") /\ c.ca => CanActAsCa(c)
<1>1. IsFiniteSet(c.usage)
  <2>1. /\ IsFiniteSet({{}}) /\ IsFiniteSet({{"digitalSignature"}})
              /\ IsFiniteSet({{"keyCertSign"}})
        /\ IsFiniteSet({})
    BY FS_Singleton, FS_EmptySet
  <2>2. IsFiniteSet({{"digitalSignature"}} \cup {{"keyCertSign"}})
    BY <2>1, FS_AddElement
  <2>3. {{"digitalSignature"}} \cup {{"keyCertSign"}} = {{"digitalSignature"}, {"keyCertSign"}}
    OBVIOUS
  <2> QED BY <2>1, <2>2, <2>3 DEF Usages
<1> DEFINE single == \E b : c.usage = {b}
<1>2. HasReadableUsage(c) <=> (c.usage = {} \/ single)
  <2>1. Cardinality(c.usage) \in Nat
    BY <1>1, FS_CardinalityType
  <2>2. Cardinality(c.usage) = 0 <=> c.usage = {}
    BY <1>1, FS_EmptySet
  <2>3. Cardinality(c.usage) = 1 <=> single
    BY <1>1, FS_Singleton
  <2> HIDE DEF single
  <2> QED BY <2>1, <2>2, <2>3 DEF HasReadableUsage
<1> QED
    BY <1>2 DEF KeyUsageAllows, Names, CanActAsCa

\* An intermediate may issue certificates exactly when its extensions say so once.
LEMMA MayIssueIsNamed ==
    ASSUME NEW c \in Certificates
    PROVE  MayIssue(c) <=> c.ca /\ Names(c, "keyCertSign")
<1>1. c.usage \in Usages /\ c.ca \in BOOLEAN
    BY DEF Certificates
<1> QED
    BY <1>1, OneUsage DEF MayIssue, HasReadableConstraints

\* What checkChain asks of a chain of a legal length.
Passes(root) ==
    /\ chain[Len(chain)].issuer = RootKey /\ chain[Len(chain)].signer = RootKey
    /\ \A i \in Intermediates : MayIssue(chain[i]) /\ ~TooDeep(i)
    /\ Len(chain) - 1 <= root.limit
    /\ \A i \in 1 .. Len(chain) - 1 : IssuedBy(chain[i], i + 1, i + 1)
    /\ ~chain[1].ca /\ HasReadableUsage(chain[1]) /\ KeyUsageAllows(chain[1], "digitalSignature")
    /\ ValidDuring(root, window)
    /\ chain[1].persons = 1

LEMMA OkIsPassed ==
    ASSUME ChainTypeOK, chain # <<>>, chain[1].limit = NoLimit
    PROVE  CheckChain(window) = "ok"
               <=> (Len(chain) \in MIN_CHAIN_LENGTH .. MAX_CHAIN_LENGTH
                  /\ \E root \in roots : Passes(root))
<1> DEFINE n == Len(chain)
           Asked ==
             /\ n \in MIN_CHAIN_LENGTH .. MAX_CHAIN_LENGTH
             /\ Anchors # {}
             /\ ~\E i \in Intermediates : IssuedBy(chain[i], i, i)
             /\ ~\E i \in Intermediates : ~MayIssue(chain[i])
             /\ ~\E i \in Intermediates : TooDeep(i)
             /\ UsableAnchors # {}
             /\ ~\E i \in 1 .. n - 1 : ~IssuedBy(chain[i], i + 1, i + 1)
             /\ HasReadableConstraints(chain[1])
             /\ ~(chain[1].ca \/ CanActAsCa(chain[1]))
             /\ HasReadableUsage(chain[1])
             /\ KeyUsageAllows(chain[1], "digitalSignature")
             /\ ~\A root \in UsableAnchors : ~ValidDuring(root, window)
             /\ HasPersonalNumber(chain[1])
<1>1. CheckChain(window) = "ok" <=> Asked
  <2>1. FailingIntermediate # "ok"
    BY DEF FailingIntermediate
  <2> QED BY <2>1, Zenon DEF CheckChain
<1>2. n \in Nat /\ n >= 1 /\ \A i \in 1..n : chain[i] \in Certificates
    BY DEF ChainTypeOK
<1>3. ASSUME Asked PROVE n \in MIN_CHAIN_LENGTH .. MAX_CHAIN_LENGTH
                /\ \E root \in roots : Passes(root)
  <2>1. PICK root \in UsableAnchors : ValidDuring(root, window)
    BY <1>3
  <2>2. root \in roots /\ n - 1 <= root.limit /\ chain[n].issuer = RootKey
           /\ chain[n].signer = RootKey
    BY <2>1 DEF UsableAnchors, Anchors, IssuedBy
  <2> QED
    BY <1>3, <2>1, <2>2 DEF Passes, HasPersonalNumber
<1>4. ASSUME n \in MIN_CHAIN_LENGTH .. MAX_CHAIN_LENGTH, NEW root \in roots, Passes(root)
      PROVE  Asked
  <2>1. root \in Anchors /\ root \in UsableAnchors
    BY <1>4 DEF Passes, UsableAnchors, Anchors, IssuedBy
  <2>2. \A i \in Intermediates : chain[i].issuer # i
    <3> SUFFICES ASSUME NEW i \in Intermediates PROVE chain[i].issuer # i
        OBVIOUS
    <3>1. i \in Nat /\ i >= 2 /\ i <= n
        BY <1>2 DEF Intermediates
    <3>2. CASE i = n
        BY <1>4, <3>1, <3>2 DEF Passes, RootKey
    <3>3. CASE i # n
      <4>1. i \in 1..(n - 1)
        BY <1>2, <3>1, <3>3
      <4>2. chain[i].issuer = i + 1
        BY <1>4, <4>1 DEF Passes, IssuedBy
      <4> QED BY <3>1, <4>2
    <3> QED BY <3>2, <3>3
  <2>3. HasReadableConstraints(chain[1]) /\ ~CanActAsCa(chain[1])
    BY <1>4 DEF Passes, HasReadableConstraints, CanActAsCa
  <2> QED
    BY <1>4, <2>1, <2>2, <2>3 DEF Passes, HasPersonalNumber, IssuedBy
<1> QED
    BY <1>1, <1>3, <1>4

LEMMA PassedIsValidated ==
    ASSUME ChainTypeOK, chain # <<>>, window \in SignedDuring, NEW root \in roots
    PROVE  (Len(chain) \in MIN_CHAIN_LENGTH .. MAX_CHAIN_LENGTH /\ Passes(root))
              <=> PathHolds(root)
<1> DEFINE n == Len(chain)
<1>1. /\ n \in Nat /\ n >= 1 /\ DOMAIN chain = 1..n
      /\ \A i \in 1..n : /\ chain[i] \in Certificates
                          /\ chain[i].limit \in 0..NoLimit /\ chain[i].period \in Days \X Days
                          /\ chain[i].usage \in Usages /\ chain[i].ca \in BOOLEAN
  <2>1. n \in Nat /\ n >= 1 /\ DOMAIN chain = 1..n /\ \A i \in 1..n : chain[i] \in Certificates
    BY DEF ChainTypeOK
  <2>2. NoLimit \in 0..NoLimit /\ Always \in Days \X Days
    BY DEF NoLimit, Always, Days
  <2> QED BY <2>1, <2>2, ChainAssumption DEF Certificates
<1>2. root.limit \in 0..NoLimit /\ root.period \in Days \X Days
    BY ChainAssumption DEF ChainTypeOK
<1>3. window \in Days \X Days
    BY ChainAssumption
<1> SUFFICES ASSUME n \in 2..4 PROVE Passes(root) <=> PathHolds(root)
    BY DEF MIN_CHAIN_LENGTH, MAX_CHAIN_LENGTH, PathHolds
<1>4. ValidDuring(root, window)
          <=> \E day \in window[1]..window[2] :
                  /\ day \in root.period[1]..root.period[2]
                  /\ \A i \in DOMAIN chain : day \in chain[i].period[1]..chain[i].period[2]
  <2> DEFINE periods == {chain[i].period : i \in DOMAIN chain} \union {root.period, window}
  <2>1. periods \in SUBSET (Days \X Days) /\ periods # {}
    BY <1>1, <1>2, <1>3
  <2>2. ValidDuring(root, window) <=> Latest(periods) <= Earliest(periods)
    BY DEF ValidDuring
  <2>3. (\E day \in Nat : \A p \in periods : day \in p[1]..p[2])
            <=> \E day \in window[1]..window[2] :
                  /\ day \in root.period[1]..root.period[2]
                  /\ \A i \in DOMAIN chain : day \in chain[i].period[1]..chain[i].period[2]
    <3>1. \A day : (\A p \in periods : day \in p[1]..p[2])
                      <=> (/\ day \in window[1]..window[2]
                           /\ day \in root.period[1]..root.period[2]
                           /\ \A i \in DOMAIN chain :
                                 day \in chain[i].period[1]..chain[i].period[2])
        OBVIOUS
    <3>2. \A day \in window[1]..window[2] : day \in Nat
        BY <1>3 DEF Days
    <3> HIDE DEF periods
    <3> QED BY <3>1, <3>2
  <2> HIDE DEF periods
  <2> QED BY <2>1, <2>2, <2>3, CommonDay
<1>5. (\A i \in Intermediates : RoomBelow(root)[i + 1] > 0)
          <=> (n - 1 <= root.limit /\ \A i \in Intermediates : ~TooDeep(i))
  <2>1. root.limit \in Nat /\ \A i \in Intermediates : chain[i].limit \in Nat
    <3>1. \A i \in 1..n : chain[i].limit \in 0..NoLimit
        BY <1>1
    <3>2. \A i \in Intermediates : i \in 1..n
        BY <1>1 DEF Intermediates
    <3>3. \A limit \in 0..NoLimit : limit \in Nat
        BY DEF NoLimit
    <3> HIDE DEF n
    <3> QED BY <1>2, <3>1, <3>2, <3>3
  <2>2. n \in 2..4
    OBVIOUS
  <2> HIDE DEF n
  <2>3. Len(chain) \in 2..4
    BY <2>2 DEF n
  <2> QED BY <2>1, <2>3, RoomOfTheChain DEF n
<1>6. \A i \in Intermediates : MayIssue(chain[i])
         <=> chain[i].ca /\ Names(chain[i], "keyCertSign")
    BY <1>1, MayIssueIsNamed DEF Intermediates
<1>7. (HasReadableUsage(chain[1]) /\ KeyUsageAllows(chain[1], "digitalSignature"))
          <=> Names(chain[1], "digitalSignature")
    BY <1>1, OneUsage
<1>8. (\A i \in DOMAIN chain :
          LET above == IF i = n THEN RootKey ELSE i + 1
          IN chain[i].issuer = above /\ chain[i].signer = above)
          <=> (/\ chain[n].issuer = RootKey /\ chain[n].signer = RootKey
               /\ \A i \in 1 .. n - 1 : IssuedBy(chain[i], i + 1, i + 1))
  <2>1. DOMAIN chain = (1 .. n - 1) \cup {n} /\ n \notin 1 .. n - 1
    BY <1>1
  <2> QED BY <2>1 DEF IssuedBy
<1> QED
  <2>1. PathHolds(root) <=>
            /\ \A i \in DOMAIN chain :
                  LET above == IF i = n THEN RootKey ELSE i + 1
                  IN chain[i].issuer = above /\ chain[i].signer = above
            /\ \A i \in Intermediates : chain[i].ca /\ Names(chain[i], "keyCertSign")
            /\ \A i \in Intermediates : RoomBelow(root)[i + 1] > 0
            /\ ~chain[1].ca /\ Names(chain[1], "digitalSignature") /\ chain[1].persons = 1
            /\ \E day \in window[1]..window[2] :
                  /\ day \in root.period[1]..root.period[2]
                  /\ \A i \in DOMAIN chain : day \in chain[i].period[1]..chain[i].period[2]
    BY DEF PathHolds, MIN_CHAIN_LENGTH, MAX_CHAIN_LENGTH
  <2> QED
    BY <1>4, <1>5, <1>6, <1>7, <1>8, <2>1, Zenon DEF Passes

----------------------------------------------------------------------------
ChainIInv ==
    /\ ChainTypeOK
    /\ chain # <<>> => chain[1].limit = NoLimit /\ roots # {}
    /\ reason # "none" =>
          /\ chain # <<>>
          /\ \E during \in SignedDuring : window = during /\ reason = CheckChain(during)

LEMMA FlawedType ==
    ASSUME NEW c \in Certificates, NEW f \in Flawed(c)
    PROVE  f \in Certificates /\ f.subject = c.subject /\ f.limit = c.limit
<1>1. CASE \/ f = [c EXCEPT !.issuer = c.subject, !.signer = c.subject]
           \/ f = [c EXCEPT !.ca = ~c.ca]
    BY <1>1 DEF Certificates
<1>2. CASE \E key \in {Anybody, c.subject + 1, RootKey} \ {c.issuer} :
              f = [c EXCEPT !.signer = key]
  <2>1. PICK key \in {Anybody, c.subject + 1, RootKey} : f = [c EXCEPT !.signer = key]
    BY <1>2
  <2>2. key \in Nat
    BY DEF Certificates, Anybody, RootKey
  <2> QED BY <2>1, <2>2 DEF Certificates
<1>3. CASE \E u \in Usages : f = [c EXCEPT !.usage = u]
    BY <1>3 DEF Certificates
<1>4. CASE \E m \in 0 .. 2 : f = [c EXCEPT !.persons = m]
    BY <1>4 DEF Certificates
<1>5. CASE \E p \in Periods : f = [c EXCEPT !.period = p]
    BY <1>5 DEF Certificates
<1> QED
    BY <1>1, <1>2, <1>3, <1>4, <1>5 DEF Flawed

LEMMA CertificateType ==
    ASSUME NEW next \in Nat \ {0}, NEW issuer \in Nat, NEW limit \in Limits \union {NoLimit}
    PROVE  /\ Certificate(next, issuer, limit) \in Certificates
           /\ Certificate(next, issuer, limit).subject = next
           /\ Certificate(next, issuer, limit).limit = limit
    BY DEF Certificate, Certificates, Usages

LEMMA SameChainSameVerdict ==
    ASSUME chain' = chain, roots' = roots
    PROVE  \A during : CheckChain(during)' = CheckChain(during)
<1>1. Anchors' = Anchors /\ Intermediates' = Intermediates
    BY DEF Anchors, Intermediates
<1>2. UsableAnchors' = UsableAnchors
    BY <1>1 DEF UsableAnchors
<1>3. \A root, during : ValidDuring(root, during)' = ValidDuring(root, during)
    BY DEF ValidDuring
<1>4. \A i : TooDeep(i)' = TooDeep(i)
    BY DEF TooDeep
<1>5. FailingIntermediate' = FailingIntermediate
    BY <1>1 DEF FailingIntermediate
<1> QED
    BY <1>1, <1>2, <1>3, <1>4, <1>5 DEF CheckChain

LEMMA ChainStepKeeps ==
    ASSUME ChainIInv, [ChainNext]_chainVars
    PROVE  ChainIInv'
<1> USE DEF ChainIInv
<1>1. CASE LoadRoots
  <2>1. chain = <<>> /\ reason = "none" /\ chain' = chain /\ reason' = reason
    BY <1>1 DEF LoadRoots
  <2>2. ChainTypeOK'
    BY <1>1 DEF LoadRoots, ChainTypeOK
  <2> QED BY <2>1, <2>2
<1>2. CASE Extend
  <2> DEFINE next == Len(chain) + 1
  <2>1. next \in Nat \ {0} /\ RootKey \in Nat /\ next + 1 \in Nat
    BY DEF ChainTypeOK, RootKey
  <2>2. PICK issuer \in {next + 1, RootKey}, limit \in (IF next = 1 THEN {NoLimit} ELSE Limits) :
          LET c == Certificate(next, issuer, limit) IN
          \/ chain' = Append(chain, c) /\ UNCHANGED flaws
          \/ /\ flaws < MaxFlaws
             /\ \E f \in Flawed(c) : chain' = Append(chain, f)
             /\ flaws' = flaws + 1
    BY <1>2 DEF Extend
  <2>3. issuer \in Nat /\ limit \in Limits \union {NoLimit} /\ (next = 1 => limit = NoLimit)
    BY <2>1, <2>2
  <2>4. \E c \in Certificates : /\ chain' = Append(chain, c) /\ c.subject = next
                                /\ next = 1 => c.limit = NoLimit
    <3> DEFINE c == Certificate(next, issuer, limit)
    <3>1. c \in Certificates /\ c.subject = next /\ c.limit = limit
        BY <2>1, <2>3, CertificateType
    <3> HIDE DEF c, next
    <3>2. CASE chain' = Append(chain, c)
        BY <2>3, <3>1, <3>2
    <3>3. CASE \E f \in Flawed(c) : chain' = Append(chain, f)
        BY <2>3, <3>1, <3>3, FlawedType
    <3> QED BY <2>2, <3>2, <3>3 DEF c
  <2>5. flaws' \in 0 .. MaxFlaws
    BY <2>2, ChainAssumption DEF ChainTypeOK
  <2>6. PICK c \in Certificates : /\ chain' = Append(chain, c) /\ c.subject = next
                                  /\ next = 1 => c.limit = NoLimit
    BY <2>4
  <2> HIDE DEF next
  <2>7. /\ chain' \in Seq(Certificates) /\ Len(chain') = next /\ chain'[next] = c
        /\ \A i \in 1..Len(chain) : chain'[i] = chain[i]
        /\ DOMAIN chain' = 1..next /\ Len(chain) \in Nat
    <3>1. chain \in Seq(Certificates) /\ next = Len(chain) + 1
        BY DEF ChainTypeOK, next
    <3>2. chain' \in Seq(Certificates) /\ Len(chain') = Len(chain) + 1 /\ Len(chain) \in Nat
        BY <2>6, <3>1
    <3>3. DOMAIN chain' = 1..next /\ DOMAIN chain = 1..Len(chain)
        BY <3>1, <3>2
    <3>4. chain'[next] = c /\ \A i \in 1..Len(chain) : chain'[i] = chain[i]
        BY <2>6, <3>1
    <3> QED BY <3>1, <3>2, <3>3, <3>4
  <2>8. UNCHANGED <<roots, window, reason>> /\ reason = "none" /\ roots # {}
    BY <1>2 DEF Extend
  <2>9. \A i \in DOMAIN chain' : chain'[i].subject = i
    <3>1. next = Len(chain) + 1 /\ DOMAIN chain = 1..Len(chain)
             /\ \A i \in DOMAIN chain : chain[i].subject = i
        BY DEF next, ChainTypeOK
    <3>2. \A i \in 1..next : i \in 1..Len(chain) \/ i = next
        BY <2>7, <3>1
    <3> QED BY <2>6, <2>7, <3>1, <3>2
  <2>10. ChainTypeOK'
    BY <2>5, <2>7, <2>8, <2>9 DEF ChainTypeOK
  <2>11. chain'[1].limit = NoLimit
    <3>1. next = Len(chain) + 1 /\ (chain # <<>> => 1 \in 1..Len(chain))
             /\ (chain = <<>> => next = 1)
        BY DEF next, ChainTypeOK
    <3> QED BY <2>6, <2>7, <3>1
  <2> QED
    BY <2>8, <2>10, <2>11
<1>3. CASE VerifyChain
  <2>1. ChainTypeOK'
    BY <1>3 DEF VerifyChain, ChainTypeOK, CheckChain, FailingIntermediate
  <2>2. PICK during \in SignedDuring : window' = during /\ reason' = CheckChain(during)
    BY <1>3 DEF VerifyChain
  <2>3. CheckChain(during)' = CheckChain(during)
    BY <1>3, SameChainSameVerdict DEF VerifyChain
  <2> QED BY <1>3, <2>1, <2>2, <2>3 DEF VerifyChain
<1>4. CASE UNCHANGED chainVars
  <2>1. ChainTypeOK'
    BY <1>4 DEF chainVars, ChainTypeOK
  <2>2. \A during : CheckChain(during)' = CheckChain(during)
    BY <1>4, SameChainSameVerdict DEF chainVars
  <2> QED BY <1>4, <2>1, <2>2 DEF chainVars
<1> QED
    BY <1>1, <1>2, <1>3, <1>4 DEF ChainNext

\* A chain is accepted exactly when path validation accepts it, however it is put
\* together (certificate-chain.ts checkChain).
THEOREM PathIsAlwaysValidated == ChainSpec => [](ChainTypeOK /\ PathIsValidated)
<1>1. ChainInit => ChainIInv
    BY ChainAssumption DEF ChainInit, ChainIInv, ChainTypeOK
<1>2. ChainIInv /\ [ChainNext]_chainVars => ChainIInv'
    BY ChainStepKeeps
<1>3. ChainIInv => ChainTypeOK /\ PathIsValidated
    BY OkIsPassed, PassedIsValidated DEF ChainIInv, PathIsValidated
<1> QED
    BY <1>1, <1>2, <1>3, PTL DEF ChainSpec

----------------------------------------------------------------------------
(***************************************************************************)
(* The signed document.                                                    *)
(***************************************************************************)
Fields(d) ==
    d = [info |-> d.info, value |-> d.value, keyInfo |-> d.keyInfo, data |-> d.data,
         canonical |-> d.canonical, structured |-> d.structured]

\* What a person has signed stands in a document of BankID's.
IsSigned(s) ==
    \E person \in Persons, strong, withRoot \in BOOLEAN,
       content \in Contents, text \in Texts, service \in Services,
       function \in {"Signing", "Identification"} :
        LET data == Data(content, text, service, function)
        IN s = [person |-> person, data |-> data, strong |-> strong,
                document |-> Document(Delivered(person, strong, withRoot), data)]

\* Whatever it is put together of, the signature is a person's or made with a key of
\* one's own, and the certificates are a person's or begin with one's own leaf.
IsMade(d) ==
    /\ Fields(d)
    /\ (\E s \in signed : d.value = s.document.value) \/ d.value.key = <<OwnKey, TRUE>>
    /\ \/ \E s \in signed : d.keyInfo = s.document.keyInfo
       \/ \E person \in Persons :
             d.keyInfo = [id |-> "bidKeyInfo", certificates |-> <<OwnLeaf(person), Issuing>>]

DocumentIInv ==
    /\ DocumentTypeOK
    /\ IsFiniteSet(signed) /\ \A s \in signed : IsSigned(s)
    /\ document # NotYet => IsMade(document)
    /\ accepted # NotYet => document # NotYet /\ accepted = verifyBankIdSignature(document)

LEMMA RootIsTakenAway ==
    ASSUME NEW person, NEW strong, NEW withRoot \in BOOLEAN
    PROVE  /\ Delivered(person, strong, withRoot)[1] = Leaf(person, strong)
           /\ WithoutRoot(Delivered(person, strong, withRoot))
                 = <<Leaf(person, strong), Issuing>>
<1> DEFINE leaf == Leaf(person, strong)
<1>1. \A a, b, c : SubSeq(<<a, b, c>>, 1, 2) = <<a, b>>
  <2> SUFFICES ASSUME NEW a, NEW b, NEW c PROVE SubSeq(<<a, b, c>>, 1, 2) = <<a, b>>
    OBVIOUS
  <2> DEFINE s == <<a, b, c>>
             t == <<a, b>>
             S == {a, b, c}
  <2>1. s \in Seq(S) /\ t \in Seq(S) /\ Len(s) = 3 /\ Len(t) = 2
    OBVIOUS
  <2>2. s[1] = a /\ s[2] = b /\ t[1] = a /\ t[2] = b
    OBVIOUS
  <2> HIDE DEF s, t, S
  <2>2a. \A i \in 1..2 : s[i] \in S
    BY <2>2 DEF S
  <2>3. /\ SubSeq(s, 1, 2) \in Seq(S) /\ Len(SubSeq(s, 1, 2)) = 2
        /\ SubSeq(s, 1, 2)[1] = s[1] /\ SubSeq(s, 1, 2)[2] = s[2]
    BY <2>2a, SubSeqProperties
  <2>4. \A i \in 1..Len(t) : SubSeq(s, 1, 2)[i] = t[i]
    BY <2>1, <2>2, <2>3
  <2>5. SubSeq(s, 1, 2) = t
    BY <2>1, <2>3, <2>4, SeqEqual
  <2> QED BY <2>5 DEF s, t
<1>2. Issuing # TrustedRoot
    BY DEF Issuing, TrustedRoot
<1> HIDE DEF leaf
<1>3. WithoutRoot(<<leaf, Issuing>>) = <<leaf, Issuing>>
    BY <1>2 DEF WithoutRoot
<1>4. WithoutRoot(<<leaf, Issuing, TrustedRoot>>) = SubSeq(<<leaf, Issuing, TrustedRoot>>, 1, 2)
    BY DEF WithoutRoot
<1> QED
    BY <1>1, <1>3, <1>4 DEF Delivered, leaf

LEMMA SignedFields ==
    ASSUME NEW s, IsSigned(s)
    PROVE  /\ s.person \in Persons /\ s.strong \in BOOLEAN
           /\ s.data.id = "bidSignedData"
           /\ Fields(s.document)
           /\ s.document.value = [key |-> <<s.person, s.strong>>, over |-> s.document.info]
           /\ s.document.info = Info(s.data, s.document.keyInfo)
           /\ s.document.data = s.data /\ s.document.canonical /\ s.document.structured
           /\ s.document.keyInfo.id = "bidKeyInfo"
           /\ WithoutRoot(s.document.keyInfo.certificates)
                 = <<Leaf(s.person, s.strong), Issuing>>
<1>1. PICK person \in Persons, strong, withRoot \in BOOLEAN,
           content \in Contents, text \in Texts, service \in Services,
           function \in {"Signing", "Identification"} :
        LET data == Data(content, text, service, function)
        IN s = [person |-> person, data |-> data, strong |-> strong,
                document |-> Document(Delivered(person, strong, withRoot), data)]
    BY DEF IsSigned
<1> DEFINE data == Data(content, text, service, function)
           certificates == Delivered(person, strong, withRoot)
<1>2. s.person = person /\ s.strong = strong /\ s.data = data
         /\ s.document = Document(certificates, data)
    BY <1>1
<1>3. data.id = "bidSignedData"
    BY DEF Data
<1>4. certificates[1] = Leaf(person, strong)
         /\ WithoutRoot(certificates) = <<Leaf(person, strong), Issuing>>
    BY RootIsTakenAway
<1>5. Leaf(person, strong).key = <<person, strong>>
    BY DEF Leaf
<1> HIDE DEF data, certificates
<1>6. /\ Document(certificates, data).keyInfo
            = [id |-> "bidKeyInfo", certificates |-> certificates]
      /\ Document(certificates, data).info = Info(data, Document(certificates, data).keyInfo)
      /\ Document(certificates, data).value
             = [key |-> certificates[1].key, over |-> Document(certificates, data).info]
      /\ Document(certificates, data).data = data
      /\ Document(certificates, data).canonical /\ Document(certificates, data).structured
      /\ Fields(Document(certificates, data))
    BY DEF Document, Fields
<1> QED
    BY <1>2, <1>3, <1>4, <1>5, <1>6

\* What is read of a document is what the key in its leaf signed.
LEMMA AcceptedIsSigned ==
    ASSUME DocumentIInv, accepted.verdict = "ok"
    PROVE  ReadIsWhatWasSigned
<1> DEFINE d == document
           leaf == WithoutRoot(d.keyInfo.certificates)[1]
<1>1. accepted # NotYet
    BY DEF NotYet
<1>2. IsMade(d) /\ accepted = verifyBankIdSignature(d)
    BY <1>1 DEF DocumentIInv
<1>3. /\ IsProfile(d) /\ ReferencesHold(d) /\ ChainHolds(WithoutRoot(d.keyInfo.certificates))
      /\ leaf.key[2] /\ d.value.key = leaf.key /\ d.value.over = d.info /\ IsOwnService(d)
      /\ accepted = [verdict |-> "ok", person |-> leaf.person, content |-> d.data.content,
                     text |-> d.data.text]
    BY <1>2 DEF verifyBankIdSignature
<1>4. leaf.issuer = "issuing"
    BY <1>3 DEF ChainHolds
<1>5. PICK s \in signed : d.keyInfo = s.document.keyInfo
  <2>1. ASSUME NEW person \in Persons,
               d.keyInfo = [id |-> "bidKeyInfo", certificates |-> <<OwnLeaf(person), Issuing>>]
        PROVE  FALSE
    <3>1. d.keyInfo.certificates = <<OwnLeaf(person), Issuing>> /\ Issuing # TrustedRoot
        BY <2>1 DEF Issuing, TrustedRoot
    <3>2. leaf = OwnLeaf(person)
        BY <3>1 DEF WithoutRoot
    <3> HIDE DEF leaf
    <3>3. OwnLeaf(person).issuer = OwnKey
        BY DEF OwnLeaf
    <3> QED BY <1>4, <3>2, <3>3 DEF OwnKey
  <2> QED BY <1>2, <2>1 DEF IsMade
<1>6. s.person \in Persons /\ leaf = Leaf(s.person, s.strong)
  <2>1. /\ s.person \in Persons
        /\ WithoutRoot(s.document.keyInfo.certificates) = <<Leaf(s.person, s.strong), Issuing>>
    BY <1>5, SignedFields DEF DocumentIInv
  <2>2. WithoutRoot(d.keyInfo.certificates)[1] = Leaf(s.person, s.strong)
    BY <1>5, <2>1
  <2> QED BY <2>1, <2>2
<1>7. leaf.person = s.person /\ leaf.key = <<s.person, s.strong>>
    BY <1>6 DEF Leaf
<1> HIDE DEF leaf
<1>8. PICK t \in signed : d.value = t.document.value
  <2>1. \A p, q, r, t : <<p, q>> = <<r, t>> => p = r
    OBVIOUS
  <2>2. d.value.key = <<s.person, s.strong>>
    BY <1>3, <1>7
  <2>3. d.value.key # <<OwnKey, TRUE>>
    BY <1>6, <2>1, <2>2, DocumentAssumption
  <2> QED BY <1>2, <2>3 DEF IsMade
<1>9. /\ t.document.value = [key |-> <<t.person, t.strong>>, over |-> t.document.info]
      /\ t.document.info = Info(t.data, t.document.keyInfo)
    BY <1>8, SignedFields DEF DocumentIInv
<1>10. t.person = s.person /\ d.info = Info(t.data, t.document.keyInfo)
    BY <1>3, <1>7, <1>8, <1>9
<1>11. d.data = t.data
    BY <1>3, <1>10 DEF ReferencesHold, Info
<1> QED
    BY <1>3, <1>7, <1>8, <1>10, <1>11 DEF ReadIsWhatWasSigned, IsOwnService, IsProfile

LEMMA SignedIsAccepted ==
    ASSUME DocumentIInv
    PROVE  OwnSignatureIsAccepted
<1> SUFFICES ASSUME accepted # NotYet,
                    NEW s \in signed, s.document = document, s.strong, s.data.service = Own,
                    s.data.funcId = "Signing"
             PROVE  accepted.verdict = "ok"
    BY DEF OwnSignatureIsAccepted
<1> DEFINE d == document
           certificates == WithoutRoot(d.keyInfo.certificates)
<1>1. /\ d.value = [key |-> <<s.person, s.strong>>, over |-> d.info]
      /\ d.info = Info(d.data, d.keyInfo)
      /\ d.data = s.data /\ d.canonical /\ d.structured
      /\ d.keyInfo.id = "bidKeyInfo" /\ d.data.id = "bidSignedData"
      /\ certificates = <<Leaf(s.person, s.strong), Issuing>>
    BY SignedFields DEF DocumentIInv
<1>2. accepted = verifyBankIdSignature(d)
    BY DEF DocumentIInv
<1>3. IsCanonical(d) /\ IsProfile(d) /\ IsOwnService(d)
    BY <1>1 DEF IsCanonical, IsProfile, IsOwnService
<1>4. ReferencesHold(d)
    BY <1>1 DEF ReferencesHold, Info
<1>5. certificates[1].key = <<s.person, s.strong>> /\ ChainHolds(certificates)
  <2> HIDE DEF certificates
  <2>1. Len(certificates) = 2 /\ certificates[1] = Leaf(s.person, s.strong)
           /\ certificates[2] = Issuing
    BY <1>1
  <2>2. Leaf(s.person, s.strong).key = <<s.person, s.strong>>
           /\ Leaf(s.person, s.strong).issuer = "issuing"
    BY DEF Leaf
  <2> QED BY <2>1, <2>2 DEF ChainHolds
<1>6. /\ d.value.key = certificates[1].key /\ d.value.over = d.info
      /\ certificates[1].key[2]
  <2> DEFINE key == <<s.person, s.strong>>
  <2> HIDE DEF certificates
  <2>1. key[2]
    OBVIOUS
  <2>2. d.value = [key |-> key, over |-> d.info] /\ certificates[1].key = key
    BY <1>1, <1>5
  <2> HIDE DEF key
  <2>3. d.value.key = key /\ d.value.over = d.info
    BY <2>2
  <2> QED BY <2>1, <2>2, <2>3
<1> HIDE DEF certificates
<1> QED
    BY <1>2, <1>3, <1>4, <1>5, <1>6 DEF verifyBankIdSignature, certificates

\* What was made of parts stays so while more is signed.
LEMMA MadeStays ==
    ASSUME NEW d, IsMade(d), signed \subseteq signed'
    PROVE  IsMade(d)'
    BY DEF IsMade

LEMMA ReplacedIsMade ==
    ASSUME NEW d, NEW e, IsMade(d), \A s \in signed : IsSigned(s),
           \/ \E info : e = [d EXCEPT !.info = info]
           \/ \E s \in signed : \/ e = [d EXCEPT !.value = s.document.value]
                                \/ e = [d EXCEPT !.keyInfo = s.document.keyInfo]
           \/ \E data : e = [d EXCEPT !.data = data]
           \/ e = [d EXCEPT !.canonical = FALSE]
           \/ e = [d EXCEPT !.structured = FALSE]
    PROVE  IsMade(e)
<1>1. CASE \E info : e = [d EXCEPT !.info = info]
    BY <1>1 DEF IsMade, Fields
<1>2. CASE \E s \in signed : e = [d EXCEPT !.value = s.document.value]
    BY <1>2 DEF IsMade, Fields
<1>3. CASE \E s \in signed : e = [d EXCEPT !.keyInfo = s.document.keyInfo]
    BY <1>3 DEF IsMade, Fields
<1>4. CASE \E data : e = [d EXCEPT !.data = data]
    BY <1>4 DEF IsMade, Fields
<1>5. CASE e = [d EXCEPT !.canonical = FALSE]
    BY <1>5 DEF IsMade, Fields
<1>6. CASE e = [d EXCEPT !.structured = FALSE]
    BY <1>6 DEF IsMade, Fields
<1> QED
    BY <1>1, <1>2, <1>3, <1>4, <1>5, <1>6

LEMMA DocumentStepKeeps ==
    ASSUME DocumentIInv, [DocumentNext]_documentVars
    PROVE  DocumentIInv'
<1> USE DEF DocumentIInv
<1>1. CASE Sign
  <2>1. PICK s : IsSigned(s) /\ signed' = signed \cup {s}
    <3>1. PICK person \in Persons, content \in Contents, text \in Texts, service \in Services,
               function \in {"Signing", "Identification"}, strong, withRoot \in BOOLEAN :
            LET data == Data(content, text, service, function)
            IN signed' = signed \cup
                 {[person |-> person, data |-> data, strong |-> strong,
                   document |-> Document(Delivered(person, strong, withRoot), data)]}
      BY <1>1, Zenon DEF Sign
    <3> DEFINE data == Data(content, text, service, function)
               new == [person |-> person, data |-> data, strong |-> strong,
                       document |-> Document(Delivered(person, strong, withRoot), data)]
    <3>2. IsSigned(new)
      BY Zenon DEF IsSigned
    <3> QED BY <3>1, <3>2, Zenon
  <2>2. IsFiniteSet(signed') /\ Cardinality(signed') <= MaxSigned
    <3>1. IsFiniteSet(signed) /\ Cardinality(signed) < MaxSigned
      BY <1>1 DEF Sign
    <3>2. Cardinality(signed) \in Nat /\ IsFiniteSet(signed \cup {s})
      BY <3>1, FS_AddElement, FS_CardinalityType
    <3>3. \/ Cardinality(signed \cup {s}) = Cardinality(signed)
          \/ Cardinality(signed \cup {s}) = Cardinality(signed) + 1
      BY <3>1, FS_AddElement
    <3> QED BY <2>1, <3>1, <3>2, <3>3, DocumentAssumption
  <2>3. \A t \in signed' : IsSigned(t)'
    BY <2>1 DEF IsSigned
  <2> QED BY <1>1, <2>2, <2>3 DEF Sign, DocumentTypeOK
<1>2. CASE Arrives
  <2>1. document = NotYet /\ UNCHANGED <<signed, replaced, accepted>> /\ accepted = NotYet
    BY <1>2 DEF Arrives
  <2>2. PICK d : document' = d /\ IsMade(d)
    <3>1. CASE document' \in Documents
      <4>1. PICK s \in signed : document' = s.document
        BY <3>1 DEF Documents
      <4> QED BY <4>1, SignedFields DEF IsMade
    <3>2. CASE \E d \in Documents, person \in Persons :
                 document' = Document(<<OwnLeaf(person), Issuing>>, d.data)
      <4>1. PICK data : \E person \in Persons :
                    document' = Document(<<OwnLeaf(person), Issuing>>, data)
        BY <3>2
      <4>1a. PICK person \in Persons : document' = Document(<<OwnLeaf(person), Issuing>>, data)
        BY <4>1
      <4>2. <<OwnLeaf(person), Issuing>>[1].key = <<OwnKey, TRUE>>
        BY DEF OwnLeaf
      <4> DEFINE certificates == <<OwnLeaf(person), Issuing>>
      <4>3. IsMade(Document(certificates, data))
        <5>1. /\ Fields(Document(certificates, data))
              /\ Document(certificates, data).value.key = certificates[1].key
              /\ Document(certificates, data).keyInfo
                    = [id |-> "bidKeyInfo", certificates |-> certificates]
            BY DEF Document, Fields
        <5> QED BY <4>2, <5>1 DEF IsMade
      <4> QED BY <4>1a, <4>3
    <3> QED BY <1>2, <3>1, <3>2 DEF Arrives
  <2>3. IsMade(document') /\ IsMade(document)'
    BY <2>1, <2>2, MadeStays DEF IsMade
  <2>4. DOMAIN document' = {"info", "value", "keyInfo", "data", "canonical", "structured"}
    BY <2>3 DEF IsMade, Fields
  <2> QED BY <2>1, <2>3, <2>4 DEF DocumentTypeOK, IsSigned
<1>3. CASE Replace
  <2>1. document # NotYet /\ accepted = NotYet /\ UNCHANGED <<signed, accepted>>
           /\ replaced' \in 0..MaxParts
    BY <1>3, DocumentAssumption DEF Replace, DocumentTypeOK
  <2>2. PICK d : document' = d /\ IsMade(d)
    <3>1. \/ \E info : document' = [document EXCEPT !.info = info]
          \/ \E s \in signed : \/ document' = [document EXCEPT !.value = s.document.value]
                               \/ document' = [document EXCEPT !.keyInfo = s.document.keyInfo]
          \/ \E data : document' = [document EXCEPT !.data = data]
          \/ document' = [document EXCEPT !.canonical = FALSE]
          \/ document' = [document EXCEPT !.structured = FALSE]
      BY <1>3 DEF Replace, Documents
    <3> QED BY <2>1, <3>1, ReplacedIsMade
  <2>3. IsMade(document)'
    BY <2>1, <2>2 DEF IsMade
  <2>4. DOMAIN document' = {"info", "value", "keyInfo", "data", "canonical", "structured"}
    BY <2>2 DEF IsMade, Fields
  <2> QED BY <2>1, <2>3, <2>4 DEF DocumentTypeOK, IsSigned
<1>4. CASE VerifyDocument
  <2>1. /\ UNCHANGED <<signed, document, replaced>> /\ document # NotYet
        /\ accepted' = verifyBankIdSignature(document)
    BY <1>4 DEF VerifyDocument
  <2>2. verifyBankIdSignature(document)' = verifyBankIdSignature(document')
    OBVIOUS
  <2>3. verifyBankIdSignature(document).verdict \in {"ok", "bad"}
    BY DEF verifyBankIdSignature
  <2> QED BY <2>1, <2>2, <2>3 DEF DocumentTypeOK, IsSigned, IsMade
<1>5. CASE UNCHANGED documentVars
    BY <1>5 DEF documentVars, DocumentTypeOK, IsSigned, IsMade
<1> QED
    BY <1>1, <1>2, <1>3, <1>4, <1>5 DEF DocumentNext

\* What is accepted is what a person signed for us, and what was signed for us is
\* accepted (xmldsig.ts verifyBankIdSignature).
THEOREM ReadIsAlwaysWhatWasSigned ==
    DocumentSpec => [](DocumentTypeOK /\ ReadIsWhatWasSigned /\ OwnSignatureIsAccepted)
<1>1. DocumentInit => DocumentIInv
    BY FS_EmptySet, DocumentAssumption DEF DocumentInit, DocumentIInv, DocumentTypeOK, NotYet
<1>2. DocumentIInv /\ [DocumentNext]_documentVars => DocumentIInv'
    BY DocumentStepKeeps
<1>3. DocumentIInv => DocumentTypeOK /\ ReadIsWhatWasSigned /\ OwnSignatureIsAccepted
    BY AcceptedIsSigned, SignedIsAccepted DEF DocumentIInv, ReadIsWhatWasSigned
<1> QED
    BY <1>1, <1>2, <1>3, PTL DEF DocumentSpec


(***************************************************************************)
(* The evidence together.                                                  *)
(***************************************************************************)
\* What is accepted is what the evidence says, in every run of the verification of
\* chains, of signed documents and of roots together (certificate-chain.ts checkChain,
\* xmldsig.ts verifyBankIdSignature, urn-root.ts urnRootOf).
THEOREM EvidenceAlwaysHolds ==
    ChainSpec /\ DocumentSpec /\ TreeSpec => []EvidenceHolds
<1>1. (ChainTypeOK /\ PathIsValidated)
      /\ (DocumentTypeOK /\ ReadIsWhatWasSigned /\ OwnSignatureIsAccepted)
      /\ (TreeTypeOK /\ RootIsTheUrn) => EvidenceHolds
    BY DEF EvidenceHolds
<1> QED
    BY <1>1, PathIsAlwaysValidated, ReadIsAlwaysWhatWasSigned, RootIsAlwaysTheUrn, PTL

----------------------------------------------------------------------------
(***************************************************************************)
(* Tables.                                                                 *)
(***************************************************************************)
LEMMA LeftIs ==
    ASSUME NEW e \in Nat
    PROVE  /\ Left(e)[0] = e
           /\ \A w \in 0 .. Windows : Left(e)[w] \in Nat
           /\ \A w \in 1 .. Windows : Left(e)[w] = Left(e)[w - 1] \div Digits
<1> DEFINE step == [w \in Nat |-> [r \in Nat |-> r \div Digits]]
           Is(f) == f = [w \in 0 .. Windows |-> IF w = 0 THEN e ELSE f[w - 1] \div Digits]
<1>1. \A r \in Nat : r \div Digits \in Nat
    BY ExponentiationAssumption, RestOf
<1>2. step \in [Nat -> [Nat -> Nat]] /\ Windows \in Nat
    BY <1>1, ExponentiationAssumption
<1>3. PICK f \in [0 .. Windows -> Nat] :
            f[0] = e /\ \A w \in 1 .. Windows : f[w] = step[w][f[w - 1]]
  <2> HIDE DEF step
  <2>1. \A st \in [Nat -> [Nat -> Nat]] : \A n \in Nat : \E f \in [0 .. n -> Nat] :
           f[0] = e /\ \A w \in 1 .. n : f[w] = st[w][f[w - 1]]
    BY Iterated, Zenon
  <2>2. \A n \in Nat : \E f \in [0 .. n -> Nat] :
           f[0] = e /\ \A w \in 1 .. n : f[w] = step[w][f[w - 1]]
    BY <1>2, <2>1, Zenon
  <2> QED BY <1>2, <2>2, Zenon
<1>4. Is(f)
  <2>1. \A w \in 0 .. Windows : w # 0 => f[w - 1] \in Nat /\ w \in Nat /\ w \in 1 .. Windows
    BY <1>2
  <2>2. \A w \in 0 .. Windows : w # 0 => step[w][f[w - 1]] = f[w - 1] \div Digits
    BY <2>1
  <2> HIDE DEF step
  <2> QED BY <1>3, <2>1, <2>2
<1>5. Is(Left(e))
    BY <1>4 DEF Left
<1> DEFINE g == Left(e)
<1> HIDE DEF g
<1>6. \A w \in 0 .. Windows : g[w] = IF w = 0 THEN e ELSE g[w - 1] \div Digits
    BY <1>5 DEF g
<1>7. \A w \in 0 .. Windows : g[w] \in Nat
  <2> DEFINE Bad == {w \in 0 .. Windows : g[w] \notin Nat}
  <2> SUFFICES ASSUME Bad # {} PROVE FALSE
    OBVIOUS
  <2>1. Bad \in SUBSET Nat
    OBVIOUS
  <2> HIDE DEF Bad
  <2>2. PICK m \in Bad : \A k \in Bad : m <= k
    BY <2>1, Smallest
  <2>3. m \in 0 .. Windows /\ g[m] \notin Nat
    BY <2>2 DEF Bad
  <2>4. m # 0
    BY <1>6, <2>3
  <2>5. m - 1 \in 0 .. Windows /\ m - 1 \notin Bad
    BY <1>2, <2>2, <2>3, <2>4
  <2>6. g[m - 1] \in Nat
    BY <2>5 DEF Bad
  <2> QED BY <1>1, <1>6, <2>3, <2>4, <2>6
<1>8. /\ 0 \in 0 .. Windows
      /\ \A w \in 1 .. Windows : w \in 0 .. Windows /\ w # 0
    BY <1>2
<1> QED
    BY <1>6, <1>7, <1>8 DEF g

\* The base of the next window is the window's base to the number of digits.
LEMMA NextIsThePower ==
    ASSUME NEW b \in Residues
    PROVE  NextWindow(b) = Repeated(b, Digits) /\ NextWindow(b) \in Residues
<1>1. b \in Nat /\ Digits - 1 \in Nat /\ (Digits - 1) + 1 = Digits
    BY ExponentiationAssumption, Residue
<1>2. Repeated(b, (Digits - 1) + 1) = TimesMod(Repeated(b, Digits - 1), b)
    BY <1>1, PowerStep
<1>3. Pow(b, Digits - 1) = Repeated(b, Digits - 1)
    BY <1>1, PowIsThePower
<1>4. Repeated(b, Digits) \in Residues
    BY <1>1, PowerType, ExponentiationAssumption
<1> QED
    BY <1>1, <1>2, <1>3, <1>4 DEF NextWindow

LEMMA WindowBasesAre ==
    ASSUME NEW b \in Residues
    PROVE  /\ WindowBases(b)[0] = b
           /\ \A w \in 0 .. Windows : WindowBases(b)[w] \in Residues
           /\ \A w \in 1 .. Windows :
                 WindowBases(b)[w] = Repeated(WindowBases(b)[w - 1], Digits)
<1> DEFINE step == [w \in Nat |-> [c \in Nat |-> NextWindow(c)]]
           Is(f) == f = [w \in 0 .. Windows |-> IF w = 0 THEN b ELSE NextWindow(f[w - 1])]
<1>1. \A c \in Residues : NextWindow(c) \in Residues
    BY NextIsThePower
<1>2a. \A c \in Nat : NextWindow(c) \in Nat
  <2>1. \A c \in Nat : Pow(c, Digits - 1) \in Nat
    <3>1. Digits - 1 \in Nat
      BY ExponentiationAssumption
    <3> QED BY <3>1, PowIsThePower, PowerType
  <2> QED BY <2>1, TimesType, Residue DEF NextWindow
<1>2. step \in [Nat -> [Nat -> Nat]] /\ Windows \in Nat /\ b \in Nat
    BY <1>2a, ExponentiationAssumption, Residue
<1>3. PICK f \in [0 .. Windows -> Nat] :
            f[0] = b /\ \A w \in 1 .. Windows : f[w] = step[w][f[w - 1]]
  <2> HIDE DEF step
  <2>1. \A st \in [Nat -> [Nat -> Nat]] : \A n \in Nat : \E f \in [0 .. n -> Nat] :
           f[0] = b /\ \A w \in 1 .. n : f[w] = st[w][f[w - 1]]
    BY <1>2, Iterated, Zenon
  <2>2. \A n \in Nat : \E f \in [0 .. n -> Nat] :
           f[0] = b /\ \A w \in 1 .. n : f[w] = step[w][f[w - 1]]
    BY <1>2, <2>1, Zenon
  <2> QED BY <1>2, <2>2, Zenon
<1>4. Is(f)
  <2>1. \A w \in 0 .. Windows :
           w # 0 => f[w - 1] \in Nat /\ w \in Nat /\ w \in 1 .. Windows
    BY <1>2
  <2>2. \A w \in 0 .. Windows : w # 0 => step[w][f[w - 1]] = NextWindow(f[w - 1])
    BY <2>1
  <2> HIDE DEF step
  <2> QED BY <1>3, <2>1, <2>2
<1>5. Is(WindowBases(b))
    BY <1>4 DEF WindowBases
<1> DEFINE g == WindowBases(b)
<1> HIDE DEF g
<1>6. \A w \in 0 .. Windows : g[w] = IF w = 0 THEN b ELSE NextWindow(g[w - 1])
    BY <1>5 DEF g
<1>7. \A w \in 0 .. Windows : g[w] \in Residues
  <2> DEFINE Bad == {w \in 0 .. Windows : g[w] \notin Residues}
  <2> SUFFICES ASSUME Bad # {} PROVE FALSE
    OBVIOUS
  <2>1. Bad \in SUBSET Nat
    OBVIOUS
  <2> HIDE DEF Bad
  <2>2. PICK m \in Bad : \A k \in Bad : m <= k
    BY <2>1, Smallest
  <2>3. m \in 0 .. Windows /\ g[m] \notin Residues
    BY <2>2 DEF Bad
  <2>4. m # 0
    BY <1>6, <2>3
  <2>5. m - 1 \in 0 .. Windows /\ m - 1 \notin Bad
    BY <1>2, <2>2, <2>3, <2>4
  <2>6. g[m - 1] \in Residues
    BY <2>5 DEF Bad
  <2> QED BY <1>1, <1>6, <2>3, <2>4, <2>6
<1>8. ASSUME NEW w \in 1 .. Windows PROVE g[w] = Repeated(g[w - 1], Digits)
  <2>1. w \in 0 .. Windows /\ w # 0 /\ w - 1 \in 0 .. Windows
    BY <1>2
  <2>2. g[w - 1] \in Residues /\ g[w] = NextWindow(g[w - 1])
    BY <1>6, <1>7, <2>1
  <2> QED BY <2>2, NextIsThePower
<1>9. 0 \in 0 .. Windows
    BY <1>2
<1> QED
    BY <1>6, <1>7, <1>8, <1>9 DEF g

LEMMA TableIsThePower ==
    ASSUME NEW b \in Residues, NEW e \in Nat, InTable(e)
    PROVE  TablePow(b, e) = Repeated(b, e)
<1> DEFINE rest == Left(e)
           at == WindowBases(b)
           factor(w) == Pow(at[w - 1], rest[w - 1] % Digits)
           Is(f) == f = [w \in 0 .. Windows |-> IF w = 0 THEN 1
                                               ELSE TimesMod(f[w - 1], factor(w))]
<1>1. /\ rest[0] = e /\ \A w \in 0 .. Windows : rest[w] \in Nat
      /\ \A w \in 1 .. Windows : rest[w] = rest[w - 1] \div Digits
    BY LeftIs
<1>2. /\ at[0] = b /\ \A w \in 0 .. Windows : at[w] \in Residues
      /\ \A w \in 1 .. Windows : at[w] = Repeated(at[w - 1], Digits)
    BY WindowBasesAre
<1>3. Windows \in Nat /\ Digits \in Nat \ {0}
    BY ExponentiationAssumption
<1>4. rest[Windows] = 0
    BY DEF InTable
<1> HIDE DEF rest, at
<1>5. ASSUME NEW w \in 1 .. Windows
      PROVE  /\ w - 1 \in 0 .. Windows /\ w \in 0 .. Windows /\ w # 0
             /\ rest[w - 1] % Digits \in Nat
             /\ factor(w) = Repeated(at[w - 1], rest[w - 1] % Digits) /\ factor(w) \in Nat
  <2>1. w - 1 \in 0 .. Windows /\ w \in 0 .. Windows /\ w # 0
    BY <1>3
  <2>2. rest[w - 1] \in Nat /\ at[w - 1] \in Residues
    BY <1>1, <1>2, <2>1
  <2>3. rest[w - 1] % Digits \in Nat
    BY <1>3, <2>2, RestOf
  <2>4. at[w - 1] \in Nat
    BY <2>2, Residue
  <2> QED BY <2>1, <2>3, <2>4, PowIsThePower, PowerType
<1>6. \E f : Is(f)
  <2> DEFINE step == [w \in Nat |-> [r \in Nat |->
                          IF w \in 1 .. Windows THEN TimesMod(r, factor(w)) ELSE r]]
  <2> HIDE DEF factor
  <2>1. \A w \in 1 .. Windows : \A r \in Nat : TimesMod(r, factor(w)) \in Nat
    BY <1>5, TimesType, Residue
  <2>2. step \in [Nat -> [Nat -> Nat]]
    BY <2>1
  <2>3. PICK f \in [0 .. Windows -> Nat] :
            f[0] = 1 /\ \A w \in 1 .. Windows : f[w] = step[w][f[w - 1]]
    <3> HIDE DEF step
    <3>1. \A st \in [Nat -> [Nat -> Nat]] : \A n \in Nat : \E f \in [0 .. n -> Nat] :
             f[0] = 1 /\ \A w \in 1 .. n : f[w] = st[w][f[w - 1]]
      <4>1. 1 \in Nat
        OBVIOUS
      <4> QED BY <4>1, Iterated, Zenon
    <3>2. \A n \in Nat : \E f \in [0 .. n -> Nat] :
             f[0] = 1 /\ \A w \in 1 .. n : f[w] = step[w][f[w - 1]]
      BY <2>2, <3>1, Zenon
    <3> QED BY <1>3, <3>2, Zenon
  <2>4. \A w \in 0 .. Windows : w # 0 => w \in Nat /\ w \in 1 .. Windows /\ f[w - 1] \in Nat
    BY <1>3
  <2>5. \A w \in 0 .. Windows : w # 0 => step[w][f[w - 1]] = TimesMod(f[w - 1], factor(w))
    BY <2>4
  <2> HIDE DEF step
  <2>6. Is(f)
    BY <2>3, <2>4, <2>5
  <2> QED BY <2>6
<1> DEFINE built == CHOOSE f : Is(f)
<1>7. Is(built)
    BY <1>6
<1>8. TablePow(b, e) = built[Windows]
    BY DEF TablePow, rest, at
<1> HIDE DEF built, factor
<1>9. \A w \in 0 .. Windows : built[w] = IF w = 0 THEN 1 ELSE TimesMod(built[w - 1], factor(w))
    BY <1>7
\* What is rest to be multiplied, after every window.
<1> DEFINE Bad == {w \in 0 .. Windows :
                     ~(/\ built[w] \in Residues
                       /\ Repeated(b, e) = TimesMod(built[w], Repeated(at[w], rest[w])))}
<1>10. Bad = {}
  <2> SUFFICES ASSUME Bad # {} PROVE FALSE
    OBVIOUS
  <2>1. Bad \in SUBSET Nat
    OBVIOUS
  <2> HIDE DEF Bad
  <2>2. PICK m \in Bad : \A k \in Bad : m <= k
    BY <2>1, Smallest
  <2>3. /\ m \in 0 .. Windows
        /\ ~(/\ built[m] \in Residues
             /\ Repeated(b, e) = TimesMod(built[m], Repeated(at[m], rest[m])))
    BY <2>2 DEF Bad
  <2>4. b \in Nat
    BY Residue
  <2>5. m # 0
    <3>1. 0 \in 0 .. Windows
        BY <1>3
    <3>2. built[0] = 1
        BY <1>9, <3>1
    <3>3. TimesMod(1, Repeated(b, e)) = Repeated(b, e)
        BY <2>4, PowerType, TimesOne
    <3> QED BY <1>1, <1>2, <2>3, <3>2, <3>3, Residue
  <2> DEFINE k == m - 1
  <2>6. k \in 0 .. Windows /\ k \notin Bad /\ m \in 1 .. Windows
    BY <1>3, <2>2, <2>3, <2>5
  <2>7. built[k] \in Residues /\ Repeated(b, e) = TimesMod(built[k], Repeated(at[k], rest[k]))
    BY <2>6 DEF Bad
  <2>8. built[m] = TimesMod(built[k], factor(m))
    BY <1>9, <2>3, <2>5
  <2>9. /\ factor(m) = Repeated(at[k], rest[k] % Digits) /\ factor(m) \in Nat
        /\ rest[k] % Digits \in Nat
    BY <1>5, <2>6
  <2>10. at[m] = Repeated(at[k], Digits) /\ rest[m] = rest[k] \div Digits
    BY <1>1, <1>2, <2>6
  <2>11. at[k] \in Nat /\ rest[k] \in Nat /\ rest[m] \in Nat /\ built[k] \in Nat
            /\ Digits \in Nat
    BY <1>1, <1>2, <1>3, <2>3, <2>6, <2>7, Residue
  <2>12. rest[k] = (rest[k] % Digits) + Digits * rest[m] /\ Digits * rest[m] \in Nat
    <3>1. rest[k] = Digits * (rest[k] \div Digits) + (rest[k] % Digits)
        BY <1>3, <2>11, RestOf
    <3>2. Digits * rest[m] \in Nat
        BY <2>11
    <3> QED BY <2>9, <2>10, <3>1, <3>2
  <2> HIDE DEF k, at, rest
  <2>13. Repeated(at[k], (rest[k] % Digits) + Digits * rest[m])
           = TimesMod(Repeated(at[k], rest[k] % Digits), Repeated(at[k], Digits * rest[m]))
    <3>1. \A x, r, s \in Nat : Repeated(x, r + s) = TimesMod(Repeated(x, r), Repeated(x, s))
        BY PowerSum
    <3>2. at[k] \in Nat /\ rest[k] % Digits \in Nat /\ Digits * rest[m] \in Nat
        BY <2>9, <2>11, <2>12
    <3> QED BY <3>1, <3>2, Zenon
  <2>14. Repeated(Repeated(at[k], Digits), rest[m]) = Repeated(at[k], Digits * rest[m])
    <3>1. \A x, r, s \in Nat : Repeated(Repeated(x, r), s) = Repeated(x, r * s)
        BY PowerOfPower, Zenon
    <3>2. at[k] \in Nat /\ Digits \in Nat /\ rest[m] \in Nat
        BY <2>11
    <3> QED BY <3>1, <3>2, Zenon
  <2>15. Repeated(at[k], rest[k]) = TimesMod(factor(m), Repeated(at[m], rest[m]))
    BY <2>9, <2>10, <2>12, <2>13, <2>14
  <2>16. Repeated(at[m], rest[m]) \in Nat
    BY <2>10, <2>11, <2>14, <2>12, PowerType
  <2>17. Repeated(b, e) = TimesMod(TimesMod(built[k], factor(m)), Repeated(at[m], rest[m]))
    BY <2>7, <2>9, <2>11, <2>15, <2>16, TimesTogether
  <2>18. TimesMod(built[k], factor(m)) \in Residues
    BY <2>9, <2>11, TimesType
  <2> QED BY <2>3, <2>8, <2>17, <2>18
<1>11. /\ built[Windows] \in Residues
       /\ Repeated(b, e) = TimesMod(built[Windows], Repeated(at[Windows], rest[Windows]))
  <2>1. Windows \in 0 .. Windows
    BY <1>3
  <2> QED BY <1>10, <2>1
<1>12. Repeated(at[Windows], 0) = 1
  <2>1. Windows \in 0 .. Windows
    BY <1>3
  <2>2. at[Windows] \in Nat
    BY <1>2, <2>1, Residue
  <2> QED BY <2>2, RepeatedIs
<1> QED
    BY <1>4, <1>8, <1>11, <1>12, TimesOne

----------------------------------------------------------------------------
(***************************************************************************)
(* OpenSSL, and every way together.                                        *)
(***************************************************************************)
\* One step past 1 is the base, one step past P - 1 what is missing from it.
LEMMA StepPastTheEdges ==
    ASSUME NEW b \in 2 .. P - 2, NEW e \in Nat
    PROVE  /\ Repeated(b, e) = 1 => Repeated(b, e + 1) = b
           /\ Repeated(b, e) = P - 1 => Repeated(b, e + 1) = P - b
           /\ Repeated(b, e) = 0 => Repeated(b, e + 1) = 0
           /\ b # P - b /\ b \notin {0, 1, P - 1} /\ P - b \notin {0, 1, P - 1}
<1>1. b \in Nat /\ b \in Residues /\ P \in Nat \ {0}
    BY Residue DEF Residues
<1>2. Repeated(b, e + 1) = TimesMod(Repeated(b, e), b)
    BY <1>1, PowerStep
<1>3. TimesMod(1, b) = b
    BY <1>1, TimesOne
<1>4. TimesMod(P - 1, b) = P - b
  <2>1. b - 1 \in Nat /\ P - b \in 0 .. P - 1
    BY <1>1
  <2>2. (P - 1) * b = P * (b - 1) + (P - b)
    BY <1>1
  <2> HIDE DEF TimesMod
  <2>3. (P * (b - 1) + (P - b)) % P = P - b
    BY <1>1, <2>1, RestIs
  <2> QED BY <2>2, <2>3 DEF TimesMod
<1>5. TimesMod(0, b) = 0
  <2>1. 0 * b = 0
    BY <1>1
  <2>2. 0 % P = 0
    BY Residue
  <2> QED BY <2>1, <2>2 DEF TimesMod
<1>6. b # P - b
    BY GroupAssumption
<1>7. b \notin {0, 1, P - 1} /\ P - b \notin {0, 1, P - 1}
    BY <1>1
<1> QED
    BY <1>2, <1>3, <1>4, <1>5, <1>6, <1>7

LEMMA NativeIsThePower ==
    ASSUME NEW b \in Nat, NEW e \in Nat
    PROVE  NativePow(b, e) = Repeated(b, e)
<1>1. Pow(b, e) = Repeated(b, e)
    BY PowIsThePower
<1>2. CASE IsTrivial(b, e)
    BY <1>1, <1>2 DEF NativePow
<1>3. CASE ~IsTrivial(b, e)
  <2> DEFINE r == b % P
  <2>1. r \in Residues /\ r \notin {0, 1, P - 1} /\ P \in Nat
    BY <1>3, Residue DEF IsTrivial
  <2>2. r \in 2 .. P - 2 /\ r \in Nat
    BY <2>1 DEF Residues
  <2>3. Repeated(r, e) = Repeated(b, e)
    BY PowerOfRest
  <2>4. NativePow(b, e) = IF ComputeSecret(r, e) # Refused THEN ComputeSecret(r, e)
                          ELSE AfterRefusal(r, e)
    BY <1>3 DEF NativePow
  <2> HIDE DEF r
  <2>5. Pow(r, e) = Repeated(r, e) /\ Pow(r, e + 1) = Repeated(r, e + 1) /\ e + 1 \in Nat
    <3>1. e + 1 \in Nat
        OBVIOUS
    <3> QED BY <2>2, <3>1, PowIsThePower
  <2>6. CASE ComputeSecret(r, e) # Refused
    BY <2>3, <2>4, <2>5, <2>6 DEF ComputeSecret
  <2>7. CASE ComputeSecret(r, e) = Refused
    <3> DEFINE now == Repeated(r, e)
               next == Repeated(r, e + 1)
    <3>1. now \in {0, 1, P - 1}
        BY <2>5, <2>7 DEF ComputeSecret, Refused
    <3>2. /\ now = 1 => next = r
          /\ now = P - 1 => next = P - r
          /\ now = 0 => next = 0
          /\ r # P - r /\ r \notin {0, 1, P - 1} /\ P - r \notin {0, 1, P - 1}
        BY <2>2, StepPastTheEdges
    <3>3. ComputeSecret(r, e + 1) = IF next \in {1, P - 1} THEN 0 ELSE next
        BY <2>5 DEF ComputeSecret, Refused
    <3>4. now \in Residues
        BY <2>2, PowerType
    <3>5. Pow(r, e) = now
        BY <2>5
    <3> HIDE DEF now, next
    <3>6. CASE now = 1
      <4>1. ComputeSecret(r, e + 1) = r
        BY <3>2, <3>3, <3>6
      <4>2. AfterRefusal(r, e) = 1
        BY <3>2, <4>1 DEF AfterRefusal
      <4> QED BY <2>3, <2>4, <2>7, <3>6, <4>2 DEF now
    <3>7. CASE now = P - 1
      <4>1. ComputeSecret(r, e + 1) = P - r
        BY <3>2, <3>3, <3>7
      <4>2. AfterRefusal(r, e) = P - 1
        BY <3>2, <4>1 DEF AfterRefusal
      <4> QED BY <2>3, <2>4, <2>7, <3>7, <4>2 DEF now
    <3>8. CASE now = 0
      <4>1. ComputeSecret(r, e + 1) = 0
        BY <3>2, <3>3, <3>8
      <4>2. AfterRefusal(r, e) = now
        BY <3>2, <3>5, <4>1 DEF AfterRefusal
      <4> QED BY <2>3, <2>4, <2>7, <4>2 DEF now
    <3> QED BY <3>1, <3>6, <3>7, <3>8
  <2> QED BY <2>6, <2>7
<1> QED BY <1>2, <1>3

LEMMA BrowserIsThePower ==
    ASSUME PowTypeOK, NEW b \in Nat, NEW e \in Nat
    PROVE  BrowserPow(b, e) = Repeated(b, e)
<1>1. FixedBases \subseteq Residues
  <2>1. G \in Residues
    BY Residue DEF G, Residues
  <2>2. publicKeyBase \in Residues
    BY Residue DEF PowTypeOK, Residues
  <2> QED BY <2>1, <2>2 DEF FixedBases
<1>2. CASE b \in FixedBases /\ InTable(e)
    BY <1>1, <1>2, TableIsThePower DEF BrowserPow
<1>3. CASE ~(b \in FixedBases /\ InTable(e))
    BY <1>3, PowIsThePower DEF BrowserPow
<1> QED BY <1>2, <1>3

\* Whatever was called before and on whichever side, a power is the power
\* (fixed-base.ts, native-exponentiation.ts, group.ts modPow).
THEOREM PowersAlwaysAgree == PowSpec => [](PowTypeOK /\ PowersAgree)
<1> DEFINE IInv == PowTypeOK /\ PowersAgree
<1>1. PowInit => IInv
  <2> SUFFICES ASSUME PowInit PROVE IInv
    OBVIOUS
  <2>1. result = [base |-> 0, exponent |-> 0, value |-> 1]
    BY DEF PowInit
  <2>2. Repeated(0, 0) = 1
    BY RepeatedIs
  <2>3. PowersAgree
    BY <2>1, <2>2 DEF PowersAgree
  <2>4. PowTypeOK
    <3>1. server \in BOOLEAN /\ odd = 0 /\ reported = FALSE /\ publicKeyBase = 0 /\ tables = {}
        BY DEF PowInit
    <3>2. reported = (odd > 0)
      <4>1. ~(odd > 0)
        BY <3>1
      <4>2. (odd > 0) = FALSE
        BY <4>1
      <4> QED BY <3>1, <4>2
    <3>3. result \in [base : Nat, exponent : Nat, value : Nat] /\ tables \subseteq FixedBases
        BY <2>1, <3>1
    <3>4. odd \in 0 .. MaxOdd /\ publicKeyBase \in {0} \cup 2 .. (P - 1)
        BY <3>1, ExponentiationAssumption
    <3> QED BY <3>1, <3>2, <3>3, <3>4 DEF PowTypeOK
  <2> QED BY <2>3, <2>4
<1>2. IInv /\ [PowNext]_powVars => IInv'
  <2> SUFFICES ASSUME PowTypeOK, PowersAgree, [PowNext]_powVars PROVE IInv'
    OBVIOUS
  <2>1. ASSUME NEW base \in Bases, UseFixedBase(base) PROVE IInv'
    <3>1. PowersAgree'
        BY <2>1 DEF UseFixedBase, PowersAgree
    <3>2. publicKeyBase' \in 2 .. P - 1 /\ publicKeyBase' = base
        BY <2>1 DEF UseFixedBase
    <3>3. tables' \subseteq FixedBases'
        BY <2>1, <3>2 DEF UseFixedBase, PowTypeOK, FixedBases
    <3>4. PowTypeOK'
        BY <2>1, <3>2, <3>3 DEF UseFixedBase, PowTypeOK
    <3> QED BY <3>1, <3>4
  <2>2. ASSUME NEW base \in Bases, NEW exponent \in Exponents
        PROVE base \in Nat /\ exponent \in Nat
    BY GroupAssumption DEF Bases, Exponents
  <2>3. ASSUME NEW base \in Bases, NEW exponent \in Exponents, ModPowCall(base, exponent)
        PROVE  IInv'
    <3> DEFINE value == IF server THEN NativePow(base, exponent) ELSE BrowserPow(base, exponent)
    <3>1. base \in Nat /\ exponent \in Nat
        BY <2>2
    <3>2. value = Repeated(base, exponent) /\ value \in Nat
        BY <3>1, NativeIsThePower, BrowserIsThePower, PowerType
    <3>3. /\ result' = [base |-> base, exponent |-> exponent, value |-> value]
          /\ tables' \in {tables, tables \cup {base}}
          /\ (tables' # tables => base \in FixedBases)
          /\ UNCHANGED <<server, publicKeyBase, odd, reported>>
        BY <2>3 DEF ModPowCall
    <3> HIDE DEF value
    <3>4. PowersAgree'
        BY <3>2, <3>3 DEF PowersAgree
    <3>5. tables' \subseteq FixedBases'
        BY <3>3 DEF PowTypeOK, FixedBases
    <3>6. PowTypeOK'
        BY <3>1, <3>2, <3>3, <3>5 DEF PowTypeOK
    <3> QED BY <3>4, <3>6
  <2>4. ASSUME NEW base \in Bases, NEW exponent \in Exponents, FallBack(base, exponent)
        PROVE  IInv'
    <3>1. base \in Nat /\ exponent \in Nat /\ base % P \in Nat
        BY <2>2, Residue
    <3>2. Pow(base % P, exponent) = Repeated(base, exponent) /\ Repeated(base, exponent) \in Nat
        BY <3>1, PowIsThePower, PowerOfRest, PowerType
    <3>3. /\ result' = [base |-> base, exponent |-> exponent, value |-> Repeated(base, exponent)]
          /\ odd < MaxOdd /\ odd' = odd + 1 /\ reported' = TRUE
          /\ UNCHANGED <<server, publicKeyBase, tables>>
        BY <2>4, <3>2 DEF FallBack
    <3>4. PowersAgree'
        BY <3>3 DEF PowersAgree
    <3>5. tables' \subseteq FixedBases'
        BY <3>3 DEF PowTypeOK, FixedBases
    <3>6. odd \in 0 .. MaxOdd /\ server \in BOOLEAN /\ publicKeyBase \in {0} \cup 2 .. (P - 1)
        BY DEF PowTypeOK
    <3>7. odd' \in 0 .. MaxOdd /\ odd' > 0
        BY <3>3, <3>6, ExponentiationAssumption
    <3>8. reported' = (odd' > 0)
        BY <3>3, <3>7
    <3>9. result' \in [base : Nat, exponent : Nat, value : Nat]
        BY <3>1, <3>2, <3>3
    <3>10. PowTypeOK'
        BY <3>3, <3>5, <3>6, <3>7, <3>8, <3>9 DEF PowTypeOK
    <3> QED BY <3>4, <3>10
  <2>5. CASE UNCHANGED powVars
    BY <2>5 DEF powVars, PowTypeOK, PowersAgree, FixedBases
  <2> QED BY <2>1, <2>3, <2>4, <2>5 DEF PowNext
<1> QED
    BY <1>1, <1>2, PTL DEF PowSpec

----------------------------------------------------------------------------
(***************************************************************************)
(* A ballot's proofs.                                                      *)
(***************************************************************************)
----------------------------------------------------------------------------
(***************************************************************************)
(* One option's proof.                                                     *)
(***************************************************************************)
LEMMA Key ==
    /\ PrivateKey \in Nat /\ OfOrder(G) /\ OfOrder(PublicKey)
    /\ G \in Nat /\ PublicKey \in Nat
    /\ PublicKey = Repeated(G, PrivateKey)
<1>1. PrivateKey \in Nat
    BY BallotAssumption, DrawnAre
<1>2. PublicKey = Repeated(G, PrivateKey)
    BY <1>1, Order, PowIsThePower DEF PublicKey
<1> QED
    BY <1>1, <1>2, Order, OrderOfPower

LEMMA ShiftBack ==
    ASSUME NEW v \in Residues
    PROVE  Shifted(TimesMod(v, G)) = v
<1>1. v \in Nat /\ G \in Nat /\ G_INVERSE \in Nat /\ TimesMod(G, G_INVERSE) = 1
    BY Order, Residue
<1>2. TimesMod(TimesMod(v, G), G_INVERSE) = TimesMod(v, TimesMod(G, G_INVERSE))
    BY <1>1, TimesTogether
<1> QED
    BY <1>1, <1>2, TimesOne DEF Shifted

\* And the other way: what is shifted is G times the shifted.
LEMMA ShiftForth ==
    ASSUME NEW v \in Residues
    PROVE  TimesMod(Shifted(v), G) = v /\ Shifted(v) \in Residues
<1>1. v \in Nat /\ G \in Nat /\ G_INVERSE \in Nat /\ TimesMod(G, G_INVERSE) = 1
    BY Order, Residue
<1>2. TimesMod(TimesMod(v, G_INVERSE), G) = TimesMod(v, TimesMod(G_INVERSE, G))
    BY <1>1, TimesTogether
<1>3. TimesMod(G_INVERSE, G) = TimesMod(G, G_INVERSE)
    BY <1>1, TimesType
<1> QED
    BY <1>1, <1>2, <1>3, TimesOne, TimesType DEF Shifted

LEMMA ShiftedOfOrder ==
    ASSUME NEW v, OfOrder(v)
    PROVE  OfOrder(Shifted(v))
    BY Order, OrderOfProduct DEF Shifted

\* What a ciphertext of 0 or 1 is.
LEMMA EncryptIs ==
    ASSUME NEW n \in Nat, NEW message \in {0, 1}
    PROVE  LET c == Encrypt(PublicKey, message, n) IN
           /\ c = [c1 |-> c.c1, c2 |-> c.c2]
           /\ c.c1 = Repeated(G, n) /\ OfOrder(c.c1) /\ OfOrder(c.c2)
           /\ c.c2 = TimesMod(Repeated(PublicKey, n), Repeated(G, message))
           /\ message = 0 => c.c2 = Repeated(PublicKey, n)
           /\ message = 1 => Shifted(c.c2) = Repeated(PublicKey, n)
<1> DEFINE c == Encrypt(PublicKey, message, n)
<1>1. /\ Pow(G, n) = Repeated(G, n) /\ Pow(PublicKey, n) = Repeated(PublicKey, n)
      /\ Pow(G, message) = Repeated(G, message) /\ message \in Nat
  <2>1. message \in Nat
    OBVIOUS
  <2> QED BY <2>1, Key, PowIsThePower
<1>2. /\ OfOrder(Repeated(G, n)) /\ OfOrder(Repeated(PublicKey, n))
      /\ OfOrder(Repeated(G, message))
    BY <1>1, Key, OrderOfPower
<1>3. /\ c.c1 = Repeated(G, n) /\ c = [c1 |-> c.c1, c2 |-> c.c2]
      /\ c.c2 = TimesMod(Repeated(PublicKey, n), Repeated(G, message))
    BY <1>1 DEF Encrypt
<1> HIDE DEF c
<1>4. OfOrder(c.c2)
    BY <1>2, <1>3, OrderOfProduct
<1>5. Repeated(PublicKey, n) \in Residues
    BY <1>2 DEF OfOrder
<1>6. message = 0 => c.c2 = Repeated(PublicKey, n)
  <2>1. Repeated(G, 0) = 1
    BY Key, RepeatedIs
  <2> QED BY <1>3, <1>5, <2>1, TimesOne
<1>7. message = 1 => Shifted(c.c2) = Repeated(PublicKey, n)
  <2>1. Repeated(G, 1) = G
    BY Key, PowerOne DEF OfOrder
  <2> QED BY <1>3, <1>5, <2>1, ShiftBack
<1> QED
    BY <1>2, <1>3, <1>4, <1>6, <1>7 DEF c

LEMMA MadeBackwards ==
    ASSUME NEW c1, NEW target, OfOrder(c1), OfOrder(target),
           NEW challenge \in Drawn, NEW response \in Drawn
    PROVE  BranchHolds(c1, target, Simulated(target, c1, challenge, response),
                       challenge, response)
<1>1. /\ challenge \in Nat /\ challenge \in 0 .. Q /\ Q - challenge \in Nat /\ response \in Nat
      /\ c1 \in Nat /\ target \in Nat
    BY DrawnAre, Residue DEF OfOrder
<1>2. /\ Pow(G, response) = Repeated(G, response)
      /\ Pow(PublicKey, response) = Repeated(PublicKey, response)
      /\ Pow(c1, Q - challenge) = Repeated(c1, Q - challenge)
      /\ Pow(target, Q - challenge) = Repeated(target, Q - challenge)
      /\ Pow(c1, challenge) = Repeated(c1, challenge)
      /\ Pow(target, challenge) = Repeated(target, challenge)
    BY <1>1, Key, PowIsThePower
<1>3. Repeated(G, response) \in Residues /\ Repeated(PublicKey, response) \in Residues
    BY <1>1, Key, PowerType
<1>4. /\ TimesMod(TimesMod(Repeated(G, response), Repeated(c1, Q - challenge)),
                  Repeated(c1, challenge)) = Repeated(G, response)
      /\ TimesMod(TimesMod(Repeated(PublicKey, response), Repeated(target, Q - challenge)),
                  Repeated(target, challenge)) = Repeated(PublicKey, response)
    BY <1>1, <1>3, OrderBack
<1> QED
    BY <1>2, <1>4 DEF BranchHolds, Simulated

LEMMA Answered ==
    ASSUME NEW n \in Nat, NEW w \in Nat, NEW h \in Nat
    PROVE  BranchHolds(Repeated(G, n), Repeated(PublicKey, n), Commitment(w), h, (w + h * n) % Q)
<1> DEFINE r == (w + h * n) % Q
<1>1. /\ r \in Nat
      /\ Repeated(G, r) = TimesMod(Repeated(G, w), Repeated(Repeated(G, n), h))
      /\ Repeated(PublicKey, r)
           = TimesMod(Repeated(PublicKey, w), Repeated(Repeated(PublicKey, n), h))
  <2>1. \A a : OfOrder(a) =>
           r \in Nat /\ Repeated(a, r) = TimesMod(Repeated(a, w), Repeated(Repeated(a, n), h))
    BY OrderAnswer
  <2> HIDE DEF r
  <2> QED BY <2>1, Key
<1> HIDE DEF r
<1>2. Repeated(G, n) \in Nat /\ Repeated(PublicKey, n) \in Nat
    BY Key, PowerType
<1>3. /\ Pow(G, r) = Repeated(G, r) /\ Pow(PublicKey, r) = Repeated(PublicKey, r)
      /\ Pow(G, w) = Repeated(G, w) /\ Pow(PublicKey, w) = Repeated(PublicKey, w)
      /\ Pow(Repeated(G, n), h) = Repeated(Repeated(G, n), h)
      /\ Pow(Repeated(PublicKey, n), h) = Repeated(Repeated(PublicKey, n), h)
    BY <1>1, <1>2, Key, PowIsThePower
<1>4. BranchHolds(Repeated(G, n), Repeated(PublicKey, n), Commitment(w), h, r)
    BY <1>1, <1>3 DEF BranchHolds, Commitment
<1> QED
    BY <1>4 DEF r

\* The challenge that is left, and the one that was made up, are the hash's.
LEMMA ChallengesMeet ==
    ASSUME NEW c \in Scalars, NEW made \in Drawn
    PROVE  /\ (Q + c - made) % Q \in Nat
           /\ (((Q + c - made) % Q) + made) % Q = c
           /\ (made + ((Q + c - made) % Q)) % Q = c
<1>1. Q \in Nat \ {0} /\ c \in 0 .. Q - 1 /\ made \in 1 .. Q - 1
    BY Order DEF Scalars, Drawn
<1>2. CASE c >= made
  <2>1. c - made \in 0 .. Q - 1 /\ Q * 1 + (c - made) = Q + c - made
    BY <1>1, <1>2
  <2>2. (Q + c - made) % Q = c - made
    BY <1>1, <2>1, RestIs
  <2>3. (Q * 0 + c) % Q = c /\ Q * 0 + c = c
    BY <1>1, RestIs
  <2> QED BY <1>1, <1>2, <2>2, <2>3
<1>3. CASE c < made
  <2>1. Q + c - made \in 0 .. Q - 1 /\ Q * 0 + (Q + c - made) = Q + c - made
    BY <1>1, <1>3
  <2>2. (Q + c - made) % Q = Q + c - made
    BY <1>1, <2>1, RestIs
  <2>3. (Q * 1 + c) % Q = c /\ Q * 1 + c = Q + c
    BY <1>1, RestIs
  <2>4. (Q + c - made) + made = Q + c /\ made + (Q + c - made) = Q + c
    BY <1>1
  <2> QED BY <1>1, <1>3, <2>2, <2>3, <2>4
<1> QED
    BY <1>1, <1>2, <1>3

\* A proof that the page finishes holds, for a 0 and for a 1.
LEMMA FinishedHolds ==
    ASSUME NEW message \in {0, 1}, NEW nonce \in Drawn, NEW w \in Drawn, NEW made \in Drawn,
           NEW response \in Drawn, NEW c \in Scalars, NEW proof,
           NEW ciphertext, ciphertext = Encrypt(PublicKey, message, nonce),
           NEW fake,
           fake = Simulated(SimulatedTarget(message, ciphertext.c2), ciphertext.c1,
                            made, response),
           proof.branches = Branches(message, Commitment(w), fake),
           proof.challenges = Branches(message, (Q + c - made) % Q, made),
           proof.responses = Branches(message, (w + ((Q + c - made) % Q) * nonce) % Q, response)
    PROVE  ZeroOrOneHolds(ciphertext, proof, c)
<1> DEFINE h == (Q + c - made) % Q
           answer == (w + h * nonce) % Q
<1>1. nonce \in Nat /\ w \in Nat /\ made \in Nat /\ h \in Nat
    BY DrawnAre, ChallengesMeet
<1>2. (h + made) % Q = c /\ (made + h) % Q = c
    BY ChallengesMeet
<1>3. /\ ciphertext.c1 = Repeated(G, nonce) /\ OfOrder(ciphertext.c1) /\ OfOrder(ciphertext.c2)
      /\ message = 0 => ciphertext.c2 = Repeated(PublicKey, nonce)
      /\ message = 1 => Shifted(ciphertext.c2) = Repeated(PublicKey, nonce)
    BY <1>1, EncryptIs
<1>4. BranchHolds(Repeated(G, nonce), Repeated(PublicKey, nonce), Commitment(w), h, answer)
    BY <1>1, Answered
<1> HIDE DEF h
<1>5. OfOrder(SimulatedTarget(message, ciphertext.c2))
    BY <1>3, ShiftedOfOrder DEF SimulatedTarget
<1>6. BranchHolds(ciphertext.c1, SimulatedTarget(message, ciphertext.c2), fake, made, response)
    BY <1>3, <1>5, MadeBackwards
<1>7. /\ proof.branches = Branches(message, Commitment(w), fake)
      /\ proof.challenges = Branches(message, h, made)
      /\ proof.responses = Branches(message, answer, response)
    BY DEF h
<1> HIDE DEF answer
<1>8. CASE message = 0
  <2>1. /\ proof.branches[1] = Commitment(w) /\ proof.branches[2] = fake
        /\ proof.challenges[1] = h /\ proof.challenges[2] = made
        /\ proof.responses[1] = answer /\ proof.responses[2] = response
    BY <1>7, <1>8 DEF Branches
  <2>2. SimulatedTarget(message, ciphertext.c2) = Shifted(ciphertext.c2)
    BY <1>8 DEF SimulatedTarget
  <2> QED
    BY <1>2, <1>3, <1>4, <1>6, <1>8, <2>1, <2>2 DEF ZeroOrOneHolds, ChallengesAddUp
<1>9. CASE message = 1
  <2>1. /\ proof.branches[1] = fake /\ proof.branches[2] = Commitment(w)
        /\ proof.challenges[1] = made /\ proof.challenges[2] = h
        /\ proof.responses[1] = response /\ proof.responses[2] = answer
    BY <1>7, <1>9 DEF Branches
  <2>2. SimulatedTarget(message, ciphertext.c2) = ciphertext.c2
    BY <1>9 DEF SimulatedTarget
  <2> QED
    BY <1>2, <1>3, <1>4, <1>6, <1>9, <2>1, <2>2 DEF ZeroOrOneHolds, ChallengesAddUp
<1> QED
    BY <1>8, <1>9

----------------------------------------------------------------------------
(***************************************************************************)
(* The sum.                                                                *)
(***************************************************************************)
LEMMA NoncesAre ==
    ASSUME NEW n \in Nat, Len(begun) = n, \A i \in 1 .. n : begun[i].nonce \in Nat
    PROVE  \E f \in [0 .. n -> Nat] :
              /\ f[0] = 0 /\ \A i \in 1 .. n : f[i] = f[i - 1] + begun[i].nonce
              /\ Nonces = f[n]
<1> DEFINE step == [i \in Nat |-> [r \in Nat |-> IF i \in 1 .. n THEN r + begun[i].nonce ELSE r]]
           Is(f) == f = [i \in 0 .. n |-> IF i = 0 THEN 0 ELSE f[i - 1] + begun[i].nonce]
<1>1. step \in [Nat -> [Nat -> Nat]]
  <2>1. \A i \in 1 .. n : \A r \in Nat : r + begun[i].nonce \in Nat
    OBVIOUS
  <2> QED BY <2>1
<1>2. PICK f \in [0 .. n -> Nat] : f[0] = 0 /\ \A i \in 1 .. n : f[i] = step[i][f[i - 1]]
  <2> HIDE DEF step
  <2>1. \A st \in [Nat -> [Nat -> Nat]] : \A m \in Nat : \E f \in [0 .. m -> Nat] :
           f[0] = 0 /\ \A w \in 1 .. m : f[w] = st[w][f[w - 1]]
    <3>1. 0 \in Nat
        OBVIOUS
    <3> QED BY <3>1, Iterated, Zenon
  <2>2. \A m \in Nat : \E f \in [0 .. m -> Nat] :
           f[0] = 0 /\ \A w \in 1 .. m : f[w] = step[w][f[w - 1]]
    BY <1>1, <2>1, Zenon
  <2> QED BY <2>2, Zenon
<1>3. \A i \in 1 .. n : f[i] = f[i - 1] + begun[i].nonce
  <2>1. \A i \in 1 .. n : f[i - 1] \in Nat /\ i \in Nat
    OBVIOUS
  <2>2. \A i \in 1 .. n : step[i][f[i - 1]] = f[i - 1] + begun[i].nonce
    BY <2>1
  <2> HIDE DEF step
  <2> QED BY <1>2, <2>2
<1> HIDE DEF step
<1>4. Is(f)
  <2>1. \A i \in 0 .. n : i # 0 => i \in 1 .. n
    OBVIOUS
  <2> QED BY <1>2, <1>3, <2>1
<1> DEFINE total == CHOOSE h : Is(h)
<1>5. Is(total)
    BY <1>4
<1>6. Nonces = total[n]
    BY DEF Nonces
<1> HIDE DEF total
<1>7. \A i \in 0 .. n : total[i] = IF i = 0 THEN 0 ELSE total[i - 1] + begun[i].nonce
    BY <1>5
<1> DEFINE Bad == {i \in 0 .. n : total[i] # f[i]}
<1>8. Bad = {}
  <2> SUFFICES ASSUME Bad # {} PROVE FALSE
    OBVIOUS
  <2>1. Bad \in SUBSET Nat
    OBVIOUS
  <2> HIDE DEF Bad
  <2>2. PICK m \in Bad : \A k \in Bad : m <= k
    BY <2>1, Smallest
  <2>3. m \in 0 .. n /\ total[m] # f[m]
    BY <2>2 DEF Bad
  <2>4. m # 0
    BY <1>2, <1>7, <2>3
  <2>5. m - 1 \in 0 .. n /\ m - 1 \notin Bad /\ m \in 1 .. n
    BY <2>2, <2>3, <2>4
  <2>6. total[m - 1] = f[m - 1]
    BY <2>5 DEF Bad
  <2> QED BY <1>3, <1>7, <2>3, <2>4, <2>5, <2>6
<1>9. total[n] = f[n]
  <2>1. n \in 0 .. n
    OBVIOUS
  <2> QED BY <1>8, <2>1
<1> QED
    BY <1>2, <1>3, <1>6, <1>9

\* How many options of the first i the page has given a 1.
Ones(i) == IF Choice <= i THEN 1 ELSE 0

LEMMA ProductIs ==
    ASSUME NEW n \in Nat, NEW list, Len(list) = n, NEW nonce \in [1 .. n -> Nat],
           \A i \in 1 .. n : list[i] = Encrypt(PublicKey, Message(i), nonce[i]),
           NEW f \in [0 .. n -> Nat], f[0] = 0, \A i \in 1 .. n : f[i] = f[i - 1] + nonce[i]
    PROVE  Product(list) = [c1 |-> Repeated(G, f[n]),
                            c2 |-> TimesMod(Repeated(PublicKey, f[n]), Repeated(G, Ones(n)))]
<1> DEFINE up(i) == [c1 |-> Repeated(G, f[i]),
                     c2 |-> TimesMod(Repeated(PublicKey, f[i]), Repeated(G, Ones(i)))]
           Is(h) == h = [i \in 0 .. n |-> IF i = 0 THEN NoVotes ELSE Multiply(h[i - 1], list[i])]
<1>1. Choice \in Nat /\ Choice >= 1
    BY BallotAssumption
<1>2. up(0) = NoVotes
  <2>1. Ones(0) = 0
    BY <1>1 DEF Ones
  <2>2. Repeated(G, 0) = 1 /\ Repeated(PublicKey, 0) = 1 /\ TimesMod(1, 1) = 1
    BY Key, RepeatedIs, Residue, TimesOne
  <2> QED BY <2>1, <2>2 DEF NoVotes
<1>3. ASSUME NEW i \in 1 .. n PROVE Multiply(up(i - 1), list[i]) = up(i)
  <2> DEFINE b == f[i - 1]
             e == nonce[i]
             o == Ones(i - 1)
             m == Message(i)
             c == list[i]
  <2>1. /\ i - 1 \in 0 .. n /\ i \in 0 .. n /\ b \in Nat /\ e \in Nat /\ f[i] = b + e
        /\ o \in Nat /\ m \in {0, 1} /\ m \in Nat /\ o + m = Ones(i)
    BY <1>1 DEF Ones, Message
  <2>2. /\ c.c1 = Repeated(G, e) /\ c.c2 = TimesMod(Repeated(PublicKey, e), Repeated(G, m))
    <3>1. c = Encrypt(PublicKey, m, e)
        OBVIOUS
    <3> HIDE DEF c, m, e
    <3> QED BY <2>1, <3>1, EncryptIs
  <2>3. up(i - 1) = [c1 |-> Repeated(G, b),
                     c2 |-> TimesMod(Repeated(PublicKey, b), Repeated(G, o))]
    OBVIOUS
  <2>4. up(i) = [c1 |-> Repeated(G, b + e),
                 c2 |-> TimesMod(Repeated(PublicKey, b + e), Repeated(G, o + m))]
    BY <2>1
  <2>5. Multiply(up(i - 1), c)
          = [c1 |-> TimesMod(Repeated(G, b), c.c1),
             c2 |-> TimesMod(TimesMod(Repeated(PublicKey, b), Repeated(G, o)), c.c2)]
    BY <2>3 DEF Multiply
  <2> HIDE DEF b, e, o, m, c, up
  <2>6. /\ Repeated(G, b + e) = TimesMod(Repeated(G, b), Repeated(G, e))
        /\ Repeated(PublicKey, b + e)
             = TimesMod(Repeated(PublicKey, b), Repeated(PublicKey, e))
        /\ Repeated(G, o + m) = TimesMod(Repeated(G, o), Repeated(G, m))
    <3>1. \A a \in Nat : \A j, k \in Nat :
             Repeated(a, j + k) = TimesMod(Repeated(a, j), Repeated(a, k))
        BY PowerSum
    <3>2. /\ b \in Nat /\ e \in Nat /\ o \in Nat /\ m \in Nat
          /\ G \in Nat /\ PublicKey \in Nat
        BY <2>1, Key
    <3>3. Repeated(G, b + e) = TimesMod(Repeated(G, b), Repeated(G, e))
        BY <3>1, <3>2, Zenon
    <3>4. Repeated(PublicKey, b + e) = TimesMod(Repeated(PublicKey, b), Repeated(PublicKey, e))
        BY <3>1, <3>2, Zenon
    <3>5. Repeated(G, o + m) = TimesMod(Repeated(G, o), Repeated(G, m))
        BY <3>1, <3>2, Zenon
    <3> QED BY <3>3, <3>4, <3>5
  <2>7. /\ Repeated(PublicKey, b) \in Nat /\ Repeated(PublicKey, e) \in Nat
        /\ Repeated(G, o) \in Nat /\ Repeated(G, m) \in Nat
    BY <2>1, Key, PowerType
  <2>8. TimesMod(TimesMod(Repeated(PublicKey, b), Repeated(G, o)),
                 TimesMod(Repeated(PublicKey, e), Repeated(G, m)))
          = TimesMod(TimesMod(Repeated(PublicKey, b), Repeated(PublicKey, e)),
                     TimesMod(Repeated(G, o), Repeated(G, m)))
    BY <2>7, TimesCrossed
  <2>9. Multiply(up(i - 1), c) = up(i)
    BY <2>2, <2>4, <2>5, <2>6, <2>8
  <2> QED BY <2>9 DEF c
<1> HIDE DEF up
<1>4. Is([i \in 0 .. n |-> up(i)])
  <2> DEFINE g == [i \in 0 .. n |-> up(i)]
  <2>1. \A i \in 0 .. n : g[i] = up(i) /\ (i # 0 => g[i - 1] = up(i - 1) /\ i \in 1 .. n)
    OBVIOUS
  <2>2. \A i \in 0 .. n : up(i) = IF i = 0 THEN NoVotes ELSE Multiply(g[i - 1], list[i])
    BY <1>2, <1>3, <2>1
  <2> QED BY <2>2
<1> DEFINE h == CHOOSE g : Is(g)
<1>5. Is(h)
    BY <1>4
<1>6. Product(list) = h[n]
    BY DEF Product
<1> HIDE DEF h
<1>7. \A i \in 0 .. n : h[i] = IF i = 0 THEN NoVotes ELSE Multiply(h[i - 1], list[i])
    BY <1>5
<1> DEFINE Bad == {i \in 0 .. n : h[i] # up(i)}
<1>8. Bad = {}
  <2> SUFFICES ASSUME Bad # {} PROVE FALSE
    OBVIOUS
  <2>1. Bad \in SUBSET Nat
    OBVIOUS
  <2> HIDE DEF Bad
  <2>2. PICK m \in Bad : \A k \in Bad : m <= k
    BY <2>1, Smallest
  <2>3. m \in 0 .. n /\ h[m] # up(m)
    BY <2>2 DEF Bad
  <2>4. m # 0
    BY <1>2, <1>7, <2>3
  <2>5. m - 1 \in 0 .. n /\ m - 1 \notin Bad /\ m \in 1 .. n
    BY <2>2, <2>3, <2>4
  <2>6. h[m - 1] = up(m - 1)
    BY <2>5 DEF Bad
  <2> QED BY <1>3, <1>7, <2>3, <2>4, <2>5, <2>6
<1>9. h[n] = up(n)
  <2>1. n \in 0 .. n
    OBVIOUS
  <2> QED BY <1>8, <2>1
<1> QED
    BY <1>6, <1>9 DEF up

\* The proof of the sum holds, over the nonces' sum.
LEMMA SumIsProved ==
    ASSUME NEW n \in Nat, NEW product, NEW w \in Drawn, NEW c \in Scalars, NEW proof,
           product.c1 = Repeated(G, n), Shifted(product.c2) = Repeated(PublicKey, n),
           proof.commitment = Commitment(w), proof.challenge = c,
           proof.response = (w + c * (n % Q)) % Q
    PROVE  SumHolds(product, proof, c)
<1>1. w \in Nat /\ c \in Nat /\ n % Q \in Nat
    BY DrawnAre, Key, OrderRest
<1>2. /\ Repeated(G, n % Q) = Repeated(G, n)
      /\ Repeated(PublicKey, n % Q) = Repeated(PublicKey, n)
    BY Key, OrderRest
<1> DEFINE m == n % Q
<1>3. BranchHolds(Repeated(G, m), Repeated(PublicKey, m), Commitment(w), c, (w + c * m) % Q)
  <2> HIDE DEF m
  <2>1. m \in Nat
    BY <1>1 DEF m
  <2> QED BY <1>1, <2>1, Answered
<1> QED
    BY <1>2, <1>3 DEF SumHolds

----------------------------------------------------------------------------
(***************************************************************************)
(* Two answers to the same commitments.                                    *)
(***************************************************************************)
LEMMA BranchTwice ==
    ASSUME NEW c1, NEW target, OfOrder(c1), OfOrder(target),
           NEW commitment, commitment.a \in Residues, commitment.b \in Residues,
           NEW e1 \in Scalars, NEW e2 \in Scalars, e1 # e2,
           NEW r1 \in Scalars, NEW r2 \in Scalars,
           BranchHolds(c1, target, commitment, e1, r1),
           BranchHolds(c1, target, commitment, e2, r2)
    PROVE  target = Repeated(c1, PrivateKey)
<1> DEFINE x == PrivateKey
           y == Repeated(c1, x)
           a == Repeated(commitment.a, x)
           b == commitment.b
<1>1. /\ x \in Nat /\ c1 \in Nat /\ target \in Nat /\ commitment.a \in Nat /\ b \in Nat
      /\ b \in Residues
    BY Key, Residue DEF OfOrder
<1>2. OfOrder(y) /\ y \in Nat /\ a \in Nat /\ a \in Residues
    BY <1>1, OrderOfPower, PowerType
<1>3. ASSUME NEW e \in Scalars, NEW r \in Scalars, BranchHolds(c1, target, commitment, e, r)
      PROVE  /\ TimesMod(a, Repeated(y, e)) = TimesMod(b, Repeated(target, e))
             /\ OfOrder(a) /\ OfOrder(b)
  <2>1. e \in Nat /\ r \in Nat /\ e \in 0 .. Q
    BY DrawnAre
  <2>2. /\ Pow(G, r) = Repeated(G, r) /\ Pow(PublicKey, r) = Repeated(PublicKey, r)
        /\ Pow(c1, e) = Repeated(c1, e) /\ Pow(target, e) = Repeated(target, e)
    BY <1>1, <2>1, Key, PowIsThePower
  <2>3. /\ Repeated(G, r) = TimesMod(commitment.a, Repeated(c1, e))
        /\ Repeated(PublicKey, r) = TimesMod(b, Repeated(target, e))
    BY <1>3, <2>2 DEF BranchHolds
  <2>4. Repeated(PublicKey, r) = Repeated(Repeated(G, r), x)
    BY <2>1, Key, PowersChange
  <2>5. Repeated(c1, e) \in Nat
    BY <1>1, <2>1, PowerType
  <2>6. Repeated(TimesMod(commitment.a, Repeated(c1, e)), x)
          = TimesMod(Repeated(commitment.a, x), Repeated(Repeated(c1, e), x))
    BY <1>1, <2>5, PowerOfProduct
  <2>7. Repeated(Repeated(c1, e), x) = Repeated(Repeated(c1, x), e)
    BY <1>1, <2>1, PowersChange
  <2>8. Repeated(PublicKey, r) = TimesMod(a, Repeated(y, e))
    BY <2>3, <2>4, <2>6, <2>7
  <2>9. OfOrder(Repeated(PublicKey, r))
    BY <2>1, Key, OrderOfPower
  <2> HIDE DEF a, b, y, x
  <2>10. OfOrder(a)
    BY <1>2, <2>1, <2>8, <2>9, FactorOfOrder
  <2>11. OfOrder(b)
    BY <1>1, <2>1, <2>3, <2>9, FactorOfOrder
  <2> QED BY <2>3, <2>8, <2>10, <2>11
<1>4. /\ TimesMod(a, Repeated(y, e1)) = TimesMod(b, Repeated(target, e1))
      /\ TimesMod(a, Repeated(y, e2)) = TimesMod(b, Repeated(target, e2))
      /\ OfOrder(a) /\ OfOrder(b)
    BY <1>3
<1> HIDE DEF a, b, y, x
<1> DEFINE y1 == Repeated(y, e1)
           y2 == Repeated(y, e2)
           t1 == Repeated(target, e1)
           t2 == Repeated(target, e2)
<1>5. /\ y1 \in Nat /\ y2 \in Nat /\ t1 \in Nat /\ t2 \in Nat
  <2>1. e1 \in Nat /\ e2 \in Nat
    BY DrawnAre
  <2> QED BY <1>1, <1>2, <2>1, PowerType
<1>6. TimesMod(a, y1) = TimesMod(b, t1) /\ TimesMod(a, y2) = TimesMod(b, t2)
    BY <1>4
<1> HIDE DEF y1, y2, t1, t2
\* What the two equations say of each other, without the commitments.
<1>7. TimesMod(y1, t2) = TimesMod(t1, y2)
  <2>1. TimesMod(TimesMod(a, y1), TimesMod(b, t2)) = TimesMod(TimesMod(a, b), TimesMod(y1, t2))
    BY <1>1, <1>2, <1>5, TimesCrossed
  <2>2. TimesMod(TimesMod(b, t1), TimesMod(a, y2)) = TimesMod(TimesMod(b, a), TimesMod(t1, y2))
    BY <1>1, <1>2, <1>5, TimesCrossed
  <2>3. TimesMod(b, a) = TimesMod(a, b)
    BY <1>1, <1>2, TimesType
  <2>4. OfOrder(TimesMod(a, b))
    BY <1>4, OrderOfProduct
  <2>5. TimesMod(y1, t2) \in Residues /\ TimesMod(t1, y2) \in Residues
    BY <1>5, TimesType
  <2>6. TimesMod(TimesMod(a, b), TimesMod(y1, t2)) = TimesMod(TimesMod(a, b), TimesMod(t1, y2))
    BY <1>6, <2>1, <2>2, <2>3
  <2> QED BY <2>4, <2>5, <2>6, Cancel
<1>8. CASE e1 > e2
    BY <1>2, <1>7, <1>8, SameFromTwo DEF y1, y2, t1, t2, y, x
<1>9. CASE e2 > e1
  <2>1. TimesMod(y2, t1) = TimesMod(t2, y1)
    BY <1>5, <1>7, TimesType
  <2> QED BY <1>2, <1>9, <2>1, SameFromTwo DEF y1, y2, t1, t2, y, x
<1> QED
  <2>1. e1 \in Nat /\ e2 \in Nat
    BY DrawnAre
  <2> QED BY <1>8, <1>9, <2>1

Ciphertexts == [c1 : Elements, c2 : Elements]

\* Who can answer two challenges has encrypted a 0 or a 1.
LEMMA TwoAnswers ==
    ASSUME NEW ciphertext \in Ciphertexts,
           InSubgroup(ciphertext.c1), InSubgroup(ciphertext.c2),
           NEW first \in CommitmentPairs, NEW second \in CommitmentPairs,
           NEW p, NEW q, p.branches = <<first, second>>, q.branches = <<first, second>>,
           p.challenges \in [1 .. 2 -> Scalars], p.responses \in [1 .. 2 -> Scalars],
           q.challenges \in [1 .. 2 -> Scalars], q.responses \in [1 .. 2 -> Scalars],
           NEW c \in Scalars, NEW d \in Scalars, c # d,
           ZeroOrOneHolds(ciphertext, p, c), ZeroOrOneHolds(ciphertext, q, d)
    PROVE  Opened(PrivateKey, ciphertext) \in {1, G}
<1>1. ASSUME NEW v \in Elements, InSubgroup(v) PROVE OfOrder(v)
  <2>1. v \in Nat /\ v \in Residues /\ Q - 1 \in Nat /\ (Q - 1) + 1 = Q
    BY Order, Residue DEF Elements, Residues
  <2>2. Repeated(v, (Q - 1) + 1) = TimesMod(Repeated(v, Q - 1), v)
    BY <2>1, PowerStep
  <2>3. Pow(v, Q - 1) = Repeated(v, Q - 1)
    BY <2>1, PowIsThePower
  <2> QED BY <1>1, <2>1, <2>2, <2>3 DEF InSubgroup, TimesMod, OfOrder
<1> DEFINE c1 == ciphertext.c1
           c2 == ciphertext.c2
           s == Shifted(c2)
<1>2. OfOrder(c1) /\ OfOrder(c2) /\ OfOrder(s)
  <2>1. c1 \in Elements /\ c2 \in Elements
    BY DEF Ciphertexts
  <2> QED BY <1>1, <2>1, ShiftedOfOrder
<1>3. \A pair \in CommitmentPairs : pair.a \in Residues /\ pair.b \in Residues
    BY Residue DEF CommitmentPairs, Elements, Residues
<1>4. /\ BranchHolds(c1, c2, first, p.challenges[1], p.responses[1])
      /\ BranchHolds(c1, s, second, p.challenges[2], p.responses[2])
      /\ BranchHolds(c1, c2, first, q.challenges[1], q.responses[1])
      /\ BranchHolds(c1, s, second, q.challenges[2], q.responses[2])
  <2>1. p.branches[1] = first /\ p.branches[2] = second
    OBVIOUS
  <2>2. q.branches[1] = first /\ q.branches[2] = second
    OBVIOUS
  <2> QED BY <2>1, <2>2 DEF ZeroOrOneHolds
<1>5. /\ (p.challenges[1] + p.challenges[2]) % Q = c
      /\ (q.challenges[1] + q.challenges[2]) % Q = d
    BY DEF ZeroOrOneHolds, ChallengesAddUp
<1>6. /\ p.challenges[1] \in Scalars /\ p.challenges[2] \in Scalars
      /\ q.challenges[1] \in Scalars /\ q.challenges[2] \in Scalars
      /\ p.responses[1] \in Scalars /\ p.responses[2] \in Scalars
      /\ q.responses[1] \in Scalars /\ q.responses[2] \in Scalars
    OBVIOUS
<1> DEFINE k == Pow(c1, PrivateKey)
<1>7. k = Repeated(c1, PrivateKey) /\ OfOrder(k)
  <2>1. c1 \in Nat /\ PrivateKey \in Nat
    BY <1>2, Key, Residue DEF OfOrder
  <2> QED BY <1>2, <2>1, PowIsThePower, OrderOfPower
<1>8. Opened(PrivateKey, ciphertext) = TimesMod(c2, Repeated(k, Q - 1))
  <2>1. k \in Nat /\ Q - 1 \in Nat
    BY <1>7, Order, Residue DEF OfOrder
  <2> QED BY <2>1, PowIsThePower DEF Opened
<1> HIDE DEF c1, c2, s, k
<1>9. Repeated(k, Q - 1) \in Nat /\ TimesMod(k, Repeated(k, Q - 1)) = 1 /\ k \in Nat
  <2>1. k \in Nat /\ Q - 1 \in Nat /\ (Q - 1) + 1 = Q
    BY <1>7, Order, Residue DEF OfOrder
  <2>2. Repeated(k, (Q - 1) + 1) = TimesMod(Repeated(k, Q - 1), k) /\ Repeated(k, Q - 1) \in Nat
    BY <2>1, PowerStep, PowerType
  <2>3. TimesMod(k, Repeated(k, Q - 1)) = TimesMod(Repeated(k, Q - 1), k)
    BY <2>1, <2>2, TimesType
  <2> QED BY <1>7, <2>1, <2>2, <2>3 DEF OfOrder
<1>10. CASE p.challenges[1] # q.challenges[1]
  <2>1. c2 = k
    <3> DEFINE e1 == p.challenges[1]
               e2 == q.challenges[1]
               r1 == p.responses[1]
               r2 == q.responses[1]
    <3>1. /\ e1 \in Scalars /\ e2 \in Scalars /\ r1 \in Scalars /\ r2 \in Scalars /\ e1 # e2
          /\ BranchHolds(c1, c2, first, e1, r1) /\ BranchHolds(c1, c2, first, e2, r2)
        BY <1>4, <1>6, <1>10
    <3> HIDE DEF e1, e2, r1, r2
    <3> QED BY <1>2, <1>3, <1>7, <3>1, BranchTwice
  <2> QED BY <1>8, <1>9, <2>1
<1>11. CASE p.challenges[2] # q.challenges[2]
  <2>1. s = k
    <3> DEFINE e1 == p.challenges[2]
               e2 == q.challenges[2]
               r1 == p.responses[2]
               r2 == q.responses[2]
    <3>1. /\ e1 \in Scalars /\ e2 \in Scalars /\ r1 \in Scalars /\ r2 \in Scalars /\ e1 # e2
          /\ BranchHolds(c1, s, second, e1, r1) /\ BranchHolds(c1, s, second, e2, r2)
        BY <1>4, <1>6, <1>11
    <3> HIDE DEF e1, e2, r1, r2
    <3> QED BY <1>2, <1>3, <1>7, <3>1, BranchTwice
  <2>2. TimesMod(k, G) = c2
    BY <1>2, <2>1, ShiftForth DEF s, OfOrder
  <2>3. G \in Nat /\ G \in Residues
    BY Order DEF OfOrder
  <2>4. TimesMod(k, G) = TimesMod(G, k)
    BY <1>9, <2>3, TimesType
  <2>5. TimesMod(TimesMod(G, k), Repeated(k, Q - 1))
           = TimesMod(G, TimesMod(k, Repeated(k, Q - 1)))
    BY <1>9, <2>3, TimesTogether
  <2>6. TimesMod(G, 1) = G
    BY <2>3, TimesOne
  <2> QED BY <1>8, <1>9, <2>2, <2>4, <2>5, <2>6
<1> QED
    BY <1>5, <1>10, <1>11

----------------------------------------------------------------------------
(***************************************************************************)
(* The invariant.                                                          *)
(***************************************************************************)
Pairs == [a : Residues, b : Residues]
BegunProofs ==
    [nonce : Drawn, w : Drawn, challenge : Drawn, response : Drawn, fake : Pairs]

OptionTranscript(ballot, i) ==
    Transcript("zero-or-one", ballot, i, ciphertexts, components[i].branches)
SumTranscript(ballot) == Transcript("sum", ballot, 0, ciphertexts, <<sum[1].commitment>>)

\* Every ciphertext is its option's, every finished proof holds for what the
\* oracle has answered and will always answer.
PageIInv ==
    /\ ciphertexts \in Seq([c1 : Residues, c2 : Residues]) /\ begun \in Seq(BegunProofs)
    /\ Len(begun) = Len(ciphertexts) /\ Len(ciphertexts) <= Options
    /\ \A i \in 1 .. Len(ciphertexts) :
          /\ ciphertexts[i] = Encrypt(PublicKey, Message(i), begun[i].nonce)
          /\ begun[i].fake = Simulated(SimulatedTarget(Message(i), ciphertexts[i].c2),
                                       ciphertexts[i].c1, begun[i].challenge, begun[i].response)
    /\ components = <<>> \/ Len(ciphertexts) = Options
    /\ components \in Seq([branches : Seq(Pairs), challenges : Seq(Nat), responses : Seq(Nat)])
    /\ Len(components) <= Len(ciphertexts)
    /\ \A i \in 1 .. Len(components) :
          /\ OptionTranscript(Made, i) \in DOMAIN oracle
          /\ ZeroOrOneHolds(ciphertexts[i], components[i], oracle[OptionTranscript(Made, i)])
    /\ sum # <<>> =>
          /\ Len(components) = Options
          /\ SumTranscript(Made) \in DOMAIN oracle
          /\ SumHolds(Product(ciphertexts), sum[1], oracle[SumTranscript(Made)])

\* Unless by chance, the oracle has been asked for the ballot's own place only.
ServerIInv ==
    /\ verdict \in {"none", "rejected", "accepted"}
    /\ verified \in 0 .. Options + 1
    /\ verdict = "none" => verified <= Options
    /\ verdict # "none" => verified > 0 /\ sum # <<>>
    /\ ~byChance => \A t \in DOMAIN oracle : t[2] = Made
    /\ ~byChance /\ verified > 0 => place = Made
    /\ HonestIsAccepted

\* Every challenge that is answered has answers.
ClaimIInv ==
    /\ answered \subseteq Scalars
    /\ answered # {} => claim # <<>>
    /\ claim # <<>> =>
          /\ claim[1].ciphertext \in Ciphertexts
          /\ InSubgroup(claim[1].ciphertext.c1) /\ InSubgroup(claim[1].ciphertext.c2)
          /\ \E first, second \in CommitmentPairs : claim[1].branches = <<first, second>>
    /\ \A c \in answered : \E challenges, responses \in [1 .. 2 -> Scalars] :
          ZeroOrOneHolds(claim[1].ciphertext,
              [branches |-> claim[1].branches, challenges |-> challenges,
               responses |-> responses], c)

BallotIInv == PageIInv /\ ServerIInv /\ ClaimIInv

LEMMA AtLeastTwo ==
    ASSUME NEW S, S \subseteq Scalars, Cardinality(S) > 1
    PROVE  \E c \in S, d \in S : c # d
<1>1. IsFiniteSet(Scalars)
  <2>1. 0 \in Int /\ Q - 1 \in Int
    BY Order
  <2> QED BY <2>1, FS_Interval DEF Scalars
<1>2. IsFiniteSet(S)
    BY <1>1, FS_Subset
<1>3. CASE S = {}
    BY <1>3, FS_EmptySet
<1>4. CASE S # {}
  <2>1. PICK c \in S : TRUE
    BY <1>4
  <2>2. S # {c}
    <3>1. Cardinality({c}) = 1
        BY FS_Singleton
    <3> QED BY <3>1
  <2> QED BY <2>1, <2>2
<1> QED
    BY <1>3, <1>4

LEMMA BallotInvariants ==
    ASSUME BallotIInv
    PROVE  ProofsHold
<1>1. ProofTypeOK
    BY DEF BallotIInv, PageIInv, ServerIInv, ClaimIInv, ProofTypeOK
<1>2. HonestIsAccepted
    BY DEF BallotIInv, ServerIInv
<1>3. StaysWhereItWasMade
    BY DEF BallotIInv, ServerIInv, StaysWhereItWasMade
<1>4. OnlyVotesAreProved
  <2> SUFFICES ASSUME Cardinality(answered) > 1
               PROVE  Opened(PrivateKey, claim[1].ciphertext) \in {1, G}
    BY DEF OnlyVotesAreProved
  <2>1. PICK c \in answered, d \in answered : c # d
    BY AtLeastTwo DEF BallotIInv, ClaimIInv
  <2>2. /\ claim[1].ciphertext \in Ciphertexts /\ c \in Scalars /\ d \in Scalars
        /\ InSubgroup(claim[1].ciphertext.c1) /\ InSubgroup(claim[1].ciphertext.c2)
    BY <2>1 DEF BallotIInv, ClaimIInv
  <2>3. PICK first \in CommitmentPairs, second \in CommitmentPairs :
              claim[1].branches = <<first, second>>
    BY <2>1 DEF BallotIInv, ClaimIInv
  <2>4. PICK ch1 \in [1 .. 2 -> Scalars], re1 \in [1 .. 2 -> Scalars] :
              ZeroOrOneHolds(claim[1].ciphertext,
                 [branches |-> claim[1].branches, challenges |-> ch1, responses |-> re1], c)
    BY <2>1, Zenon DEF BallotIInv, ClaimIInv
  <2>5. PICK ch2 \in [1 .. 2 -> Scalars], re2 \in [1 .. 2 -> Scalars] :
              ZeroOrOneHolds(claim[1].ciphertext,
                 [branches |-> claim[1].branches, challenges |-> ch2, responses |-> re2], d)
    BY <2>1, Zenon DEF BallotIInv, ClaimIInv
  <2> DEFINE p == [branches |-> claim[1].branches, challenges |-> ch1, responses |-> re1]
             q == [branches |-> claim[1].branches, challenges |-> ch2, responses |-> re2]
  <2>6. /\ p.branches = <<first, second>> /\ p.challenges = ch1 /\ p.responses = re1
        /\ q.branches = <<first, second>> /\ q.challenges = ch2 /\ q.responses = re2
    BY <2>3
  <2>7. ZeroOrOneHolds(claim[1].ciphertext, p, c) /\ ZeroOrOneHolds(claim[1].ciphertext, q, d)
    BY <2>4, <2>5
  <2> HIDE DEF p, q
  <2>8. /\ p.challenges \in [1 .. 2 -> Scalars] /\ p.responses \in [1 .. 2 -> Scalars]
        /\ q.challenges \in [1 .. 2 -> Scalars] /\ q.responses \in [1 .. 2 -> Scalars]
    BY <2>6
  <2> QED BY <2>1, <2>2, <2>6, <2>7, <2>8, TwoAnswers
<1> QED
    BY <1>1, <1>2, <1>3, <1>4 DEF ProofsHold

----------------------------------------------------------------------------
(***************************************************************************)
(* The steps.                                                              *)
(***************************************************************************)
LEMMA Asked ==
    ASSUME NEW t, NEW c, Asks(t, c)
    PROVE  /\ DOMAIN oracle' = DOMAIN oracle \cup {t} /\ oracle'[t] = c
           /\ \A u \in DOMAIN oracle : u \in DOMAIN oracle' /\ oracle'[u] = oracle[u]
           /\ t \in DOMAIN oracle => c = oracle[t]
<1>1. CASE t \in DOMAIN oracle
    BY <1>1 DEF Asks
<1>2. CASE t \notin DOMAIN oracle
  <2>1. oracle' = [u \in DOMAIN oracle \cup {t} |-> IF u = t THEN c ELSE oracle[u]]
    BY <1>2 DEF Asks
  <2> QED BY <1>2, <2>1
<1> QED
    BY <1>1, <1>2

\* What the oracle is asked later takes nothing back.
LEMMA PageStays ==
    ASSUME PageIInv, UNCHANGED <<ciphertexts, begun, components, sum>>,
           \A u \in DOMAIN oracle : u \in DOMAIN oracle' /\ oracle'[u] = oracle[u]
    PROVE  PageIInv'
<1>1. ASSUME NEW ballot, NEW i PROVE OptionTranscript(ballot, i)' = OptionTranscript(ballot, i)
    BY DEF OptionTranscript, Transcript
<1>2. ASSUME NEW ballot PROVE SumTranscript(ballot)' = SumTranscript(ballot)
    BY DEF SumTranscript, Transcript
<1>3. \A i \in 1 .. Len(components) :
          /\ OptionTranscript(Made, i) \in DOMAIN oracle'
          /\ ZeroOrOneHolds(ciphertexts[i], components[i], oracle'[OptionTranscript(Made, i)])
    BY DEF PageIInv
<1>4. sum # <<>> =>
          /\ Len(components) = Options
          /\ SumTranscript(Made) \in DOMAIN oracle'
          /\ SumHolds(Product(ciphertexts), sum[1], oracle'[SumTranscript(Made)])
    BY DEF PageIInv
<1>5. /\ \A i \in 1 .. Len(components)' :
          /\ OptionTranscript(Made, i)' \in DOMAIN oracle'
          /\ ZeroOrOneHolds(ciphertexts'[i], components'[i], oracle'[OptionTranscript(Made, i)'])
      /\ sum' # <<>> =>
          /\ Len(components)' = Options
          /\ SumTranscript(Made)' \in DOMAIN oracle'
          /\ SumHolds(Product(ciphertexts'), sum'[1], oracle'[SumTranscript(Made)'])
    BY <1>1, <1>2, <1>3, <1>4
<1> QED
    BY <1>5 DEF PageIInv

LEMMA ClaimStays ==
    ASSUME ClaimIInv, UNCHANGED <<claim, answered>>
    PROVE  ClaimIInv'
    BY DEF ClaimIInv

LEMMA MessageIs == \A i : Message(i) \in {0, 1}
    BY DEF Message

LEMMA BallotInit ==
    ASSUME ProofInit
    PROVE  BallotIInv
<1>1. PageIInv
    BY BallotAssumption DEF ProofInit, PageIInv
<1>2. ServerIInv
    BY BallotAssumption DEF ProofInit, ServerIInv, HonestIsAccepted
<1>3. ClaimIInv
    BY DEF ProofInit, ClaimIInv
<1> QED
    BY <1>1, <1>2, <1>3 DEF BallotIInv

LEMMA EncryptOptionKeeps ==
    ASSUME BallotIInv, EncryptOption
    PROVE  BallotIInv'
<1> USE DEF BallotIInv
<1> DEFINE i == Len(ciphertexts) + 1
<1>1. /\ i <= Options
      /\ UNCHANGED <<components, sum, oracle, place, verified, verdict, byChance, claim,
            answered>>
    BY DEF EncryptOption
<1>2. PICK nonce \in Drawn, made \in Drawn, response \in Drawn, w \in Drawn :
          LET c == Encrypt(PublicKey, Message(i), nonce) IN
           /\ ciphertexts' = Append(ciphertexts, c)
           /\ begun' = Append(begun,
                 [nonce |-> nonce, w |-> w, challenge |-> made, response |-> response,
                  fake |-> Simulated(SimulatedTarget(Message(i), c.c2), c.c1, made, response)])
    BY Zenon DEF EncryptOption
<1> DEFINE c == Encrypt(PublicKey, Message(i), nonce)
           fake == Simulated(SimulatedTarget(Message(i), c.c2), c.c1, made, response)
           p == [nonce |-> nonce, w |-> w, challenge |-> made, response |-> response,
              fake |-> fake]
           n == Len(ciphertexts)
<1>3. ciphertexts' = Append(ciphertexts, c) /\ begun' = Append(begun, p)
    BY <1>2
<1>4. c \in [c1 : Residues, c2 : Residues] /\ OfOrder(c.c1) /\ OfOrder(c.c2)
  <2>1. nonce \in Nat /\ Message(i) \in {0, 1}
    BY DrawnAre, MessageIs
  <2>2. /\ c = [c1 |-> c.c1, c2 |-> c.c2] /\ OfOrder(c.c1) /\ OfOrder(c.c2)
    BY <2>1, EncryptIs
  <2> HIDE DEF c
  <2>3. c.c1 \in Residues /\ c.c2 \in Residues
    BY <2>2 DEF OfOrder
  <2>4. [c1 |-> c.c1, c2 |-> c.c2] \in [c1 : Residues, c2 : Residues]
    BY <2>3
  <2> QED BY <2>2, <2>4
<1>5. p \in BegunProofs
  <2> DEFINE target == SimulatedTarget(Message(i), c.c2)
  <2>1. OfOrder(target)
    <3> HIDE DEF c
    <3> QED BY <1>4, ShiftedOfOrder DEF SimulatedTarget
  <2> HIDE DEF c, target
  <2>2. /\ response \in Nat /\ made \in Nat /\ Q - made \in Nat /\ c.c1 \in Nat /\ target \in Nat
    BY <1>4, <2>1, DrawnAre, Residue DEF OfOrder
  <2>3. /\ Pow(G, response) \in Nat /\ Pow(PublicKey, response) \in Nat
        /\ Pow(c.c1, Q - made) \in Nat /\ Pow(target, Q - made) \in Nat
    <3>1. \A a, e \in Nat : Pow(a, e) \in Nat
        BY PowIsThePower, PowerType
    <3> QED BY <2>2, <3>1, Key
  <2>4. Simulated(target, c.c1, made, response) \in Pairs
    BY <2>3, TimesType DEF Simulated, Pairs
  <2>5. fake \in Pairs
    BY <2>4 DEF target
  <2> HIDE DEF fake
  <2> QED BY <2>5 DEF BegunProofs
<1>6. /\ n \in Nat /\ i = n + 1 /\ components = <<>> /\ sum = <<>>
      /\ ciphertexts \in Seq([c1 : Residues, c2 : Residues]) /\ begun \in Seq(BegunProofs)
      /\ Len(begun) = n
  <2>1. n \in Nat /\ ciphertexts \in Seq([c1 : Residues, c2 : Residues])
    BY DEF PageIInv
  <2>2. n # Options
    BY <1>1, <2>1, BallotAssumption
  <2>3. components = <<>>
    BY <2>2 DEF PageIInv
  <2>4. Len(components) # Options
    BY <2>3, BallotAssumption
  <2> QED BY <2>1, <2>3, <2>4 DEF PageIInv
<1> HIDE DEF c, fake, p
<1>7. /\ Len(ciphertexts') = n + 1 /\ Len(begun') = n + 1
      /\ \A j \in 1 .. n : ciphertexts'[j] = ciphertexts[j] /\ begun'[j] = begun[j]
      /\ ciphertexts'[n + 1] = c /\ begun'[n + 1] = p
      /\ ciphertexts' \in Seq([c1 : Residues, c2 : Residues]) /\ begun' \in Seq(BegunProofs)
  <2> HIDE DEF n, i
  <2>1. /\ n \in Nat /\ Len(ciphertexts) = n /\ Len(begun) = n
        /\ ciphertexts \in Seq([c1 : Residues, c2 : Residues]) /\ begun \in Seq(BegunProofs)
    BY <1>6 DEF n
  <2> DEFINE C == [c1 : Residues, c2 : Residues]
  <2>2. ciphertexts \in Seq(C) /\ c \in C
    BY <1>4, <2>1
  <2> HIDE DEF C
  <2>3. /\ Len(Append(ciphertexts, c)) = n + 1 /\ Append(ciphertexts, c) \in Seq(C)
        /\ \A j \in 1 .. n : Append(ciphertexts, c)[j] = ciphertexts[j]
        /\ Append(ciphertexts, c)[n + 1] = c
    BY <2>1, <2>2
  <2>4. /\ Len(Append(begun, p)) = n + 1 /\ Append(begun, p) \in Seq(BegunProofs)
        /\ \A j \in 1 .. n : Append(begun, p)[j] = begun[j]
        /\ Append(begun, p)[n + 1] = p
    BY <1>5, <2>1
  <2> QED BY <1>3, <2>3, <2>4 DEF C
<1>8. /\ p.nonce = nonce /\ p.challenge = made /\ p.response = response /\ p.fake = fake
    BY DEF p
<1>9. \A j \in 1 .. Len(ciphertexts') :
          /\ ciphertexts'[j] = Encrypt(PublicKey, Message(j), begun'[j].nonce)
          /\ begun'[j].fake = Simulated(SimulatedTarget(Message(j), ciphertexts'[j].c2),
                                       ciphertexts'[j].c1, begun'[j].challenge,
                                      begun'[j].response)
  <2> SUFFICES ASSUME NEW j \in 1 .. n + 1
               PROVE  /\ ciphertexts'[j] = Encrypt(PublicKey, Message(j), begun'[j].nonce)
                      /\ begun'[j].fake = Simulated(
                             SimulatedTarget(Message(j), ciphertexts'[j].c2),
                            ciphertexts'[j].c1, begun'[j].challenge, begun'[j].response)
    BY <1>7
  <2>1. CASE j = n + 1
    BY <1>6, <1>7, <1>8, <2>1 DEF c, fake
  <2>2. CASE j # n + 1
    <3>1. j \in 1 .. n
        BY <1>6, <2>2
    <3>2. /\ ciphertexts[j] = Encrypt(PublicKey, Message(j), begun[j].nonce)
          /\ begun[j].fake = Simulated(SimulatedTarget(Message(j), ciphertexts[j].c2),
                                ciphertexts[j].c1, begun[j].challenge, begun[j].response)
        BY <3>1 DEF PageIInv
    <3>3. ciphertexts'[j] = ciphertexts[j] /\ begun'[j] = begun[j]
        BY <1>7, <3>1
    <3> HIDE DEF n
    <3> QED BY <3>2, <3>3
  <2> QED BY <2>1, <2>2
<1>10. PageIInv'
  <2>1. components' = <<>> /\ sum' = <<>> /\ Len(components') = 0
    BY <1>1, <1>6
  <2> QED BY <1>1, <1>6, <1>7, <1>9, <2>1 DEF PageIInv
<1>11. ServerIInv'
  <2>1. verdict = "none"
    BY <1>6 DEF ServerIInv
  <2> QED BY <1>1, <2>1 DEF ServerIInv, HonestIsAccepted
<1> QED
    BY <1>1, <1>10, <1>11, ClaimStays

LEMMA FinishProofKeeps ==
    ASSUME BallotIInv, FinishProof
    PROVE  BallotIInv'
<1> USE DEF BallotIInv
<1> DEFINE n == Len(components)
           i == Len(components) + 1
           message == Message(i)
           p == begun[i]
           branches == Branches(message, Commitment(p.w), p.fake)
           t == Transcript("zero-or-one", Made, i, ciphertexts, branches)
<1>1. /\ Len(ciphertexts) = Options /\ i <= Options
      /\ UNCHANGED <<ciphertexts, begun, sum, place, verified, verdict, byChance, claim,
            answered>>
    BY DEF FinishProof
<1>2. PICK c \in Scalars :
          /\ Asks(t, c)
          /\ components' = Append(components,
               [branches |-> branches,
                challenges |-> Branches(message, (Q + c - p.challenge) % Q, p.challenge),
                responses |-> Branches(message,
                                 (p.w + ((Q + c - p.challenge) % Q) * p.nonce) % Q, p.response)])
    BY Zenon DEF FinishProof
<1> DEFINE proof ==
               [branches |-> branches,
                challenges |-> Branches(message, (Q + c - p.challenge) % Q, p.challenge),
                responses |-> Branches(message,
                                 (p.w + ((Q + c - p.challenge) % Q) * p.nonce) % Q, p.response)]
<1>3. components' = Append(components, proof)
    BY <1>2
<1>4. /\ n \in Nat /\ i = n + 1 /\ i \in 1 .. Len(ciphertexts) /\ i \in 1 .. Len(begun)
      /\ n # Options
      /\ components \in Seq([branches : Seq(Pairs), challenges : Seq(Nat), responses : Seq(Nat)])
    BY <1>1, BallotAssumption DEF PageIInv
<1>5. sum = <<>>
    BY <1>4 DEF PageIInv
<1>6. /\ p \in BegunProofs /\ message \in {0, 1}
      /\ ciphertexts[i] = Encrypt(PublicKey, message, p.nonce)
      /\ p.fake = Simulated(SimulatedTarget(message, ciphertexts[i].c2),
                            ciphertexts[i].c1, p.challenge, p.response)
    BY <1>4, MessageIs DEF PageIInv
<1>7. /\ p.nonce \in Drawn /\ p.w \in Drawn /\ p.challenge \in Drawn /\ p.response \in Drawn
      /\ p.fake \in Pairs
    BY <1>6 DEF BegunProofs
<1>8. /\ proof.branches = Branches(message, Commitment(p.w), p.fake)
      /\ proof.challenges = Branches(message, (Q + c - p.challenge) % Q, p.challenge)
      /\ proof.responses = Branches(message,
                              (p.w + ((Q + c - p.challenge) % Q) * p.nonce) % Q, p.response)
    OBVIOUS
<1>9. proof \in [branches : Seq(Pairs), challenges : Seq(Nat), responses : Seq(Nat)]
  <2> DEFINE h == (Q + c - p.challenge) % Q
             answer == (p.w + h * p.nonce) % Q
  <2>1. h \in Nat /\ p.w \in Nat /\ p.nonce \in Nat /\ p.challenge \in Nat /\ p.response \in Nat
    BY <1>7, ChallengesMeet, DrawnAre
  <2>2. answer \in Nat
    <3> HIDE DEF h
    <3> QED BY <2>1, Key, OrderAnswer
  <2>3. Commitment(p.w) \in Pairs
    <3>1. \A a, e \in Nat : Pow(a, e) \in Residues
        BY PowIsThePower, PowerType
    <3> QED BY <2>1, <3>1, Key DEF Commitment, Pairs
  <2>4. \A m \in {0, 1} : \A S : \A u, v \in S : Branches(m, u, v) \in Seq(S)
    BY DEF Branches
  <2>5. branches \in Seq(Pairs)
    BY <1>6, <1>7, <2>3, <2>4
  <2>6. Branches(message, h, p.challenge) \in Seq(Nat)
    <3> HIDE DEF h
    <3> QED BY <1>6, <2>1, <2>4
  <2>7. Branches(message, answer, p.response) \in Seq(Nat)
    <3> HIDE DEF answer
    <3> QED BY <1>6, <2>1, <2>2, <2>4
  <2> HIDE DEF branches
  <2> QED BY <2>5, <2>6, <2>7
<1> HIDE DEF proof
<1>10. ZeroOrOneHolds(ciphertexts[i], proof, c)
  <2> HIDE DEF message, p
  <2> QED BY <1>6, <1>7, <1>8, FinishedHolds
<1>11. /\ DOMAIN oracle' = DOMAIN oracle \cup {t} /\ oracle'[t] = c
       /\ \A u \in DOMAIN oracle : u \in DOMAIN oracle' /\ oracle'[u] = oracle[u]
    BY <1>2, Asked
<1>12. /\ Len(components') = n + 1
       /\ \A j \in 1 .. n : components'[j] = components[j]
       /\ components'[n + 1] = proof
       /\ components' \in Seq([branches : Seq(Pairs), challenges : Seq(Nat),
                               responses : Seq(Nat)])
  <2> DEFINE S == [branches : Seq(Pairs), challenges : Seq(Nat), responses : Seq(Nat)]
  <2>1. components \in Seq(S) /\ proof \in S /\ Len(components) = n
    BY <1>4, <1>9
  <2> HIDE DEF S, n
  <2>2. /\ Len(Append(components, proof)) = n + 1 /\ Append(components, proof) \in Seq(S)
        /\ \A j \in 1 .. n : Append(components, proof)[j] = components[j]
        /\ Append(components, proof)[n + 1] = proof
    BY <2>1
  <2> QED BY <1>3, <2>2 DEF S
<1>13. \A j \in 1 .. Len(components') :
          /\ OptionTranscript(Made, j)' \in DOMAIN oracle'
          /\ ZeroOrOneHolds(ciphertexts'[j], components'[j], oracle'[OptionTranscript(Made, j)'])
  <2> SUFFICES ASSUME NEW j \in 1 .. n + 1
               PROVE  /\ OptionTranscript(Made, j)' \in DOMAIN oracle'
                      /\ ZeroOrOneHolds(ciphertexts'[j], components'[j],
                                        oracle'[OptionTranscript(Made, j)'])
    BY <1>12
  <2>1. OptionTranscript(Made, j)'
          = Transcript("zero-or-one", Made, j, ciphertexts, components'[j].branches)
    BY <1>1 DEF OptionTranscript, Transcript
  <2>2. CASE j = n + 1
    <3>1. components'[j] = proof /\ OptionTranscript(Made, j)' = t
        BY <1>8, <1>12, <2>1, <2>2
    <3> HIDE DEF t
    <3> QED BY <1>1, <1>4, <1>10, <1>11, <2>2, <3>1
  <2>3. CASE j # n + 1
    <3>1. j \in 1 .. n
        BY <1>4, <2>3
    <3>2. components'[j] = components[j]
             /\ OptionTranscript(Made, j)' = OptionTranscript(Made, j)
        BY <1>12, <2>1, <3>1 DEF OptionTranscript
    <3>3. /\ OptionTranscript(Made, j) \in DOMAIN oracle
          /\ ZeroOrOneHolds(ciphertexts[j], components[j], oracle[OptionTranscript(Made, j)])
        BY <3>1 DEF PageIInv
    <3> HIDE DEF t
    <3> QED BY <1>1, <1>11, <3>2, <3>3
  <2> QED BY <2>2, <2>3
<1> HIDE DEF t
<1>14. PageIInv'
  <2> HIDE DEF proof
  <2> QED BY <1>1, <1>4, <1>5, <1>12, <1>13 DEF PageIInv
<1>15. ServerIInv'
  <2>1. t[2] = Made
    BY DEF t, Transcript
  <2>2. ~byChance' => \A u \in DOMAIN oracle' : u[2] = Made
    BY <1>1, <1>11, <2>1 DEF ServerIInv
  <2> QED BY <1>1, <2>2 DEF ServerIInv, HonestIsAccepted
<1> QED
    BY <1>1, <1>14, <1>15, ClaimStays

LEMMA ProveSumKeeps ==
    ASSUME BallotIInv, ProveSum
    PROVE  BallotIInv'
<1> USE DEF BallotIInv
<1>1. /\ Len(components) = Options /\ sum = <<>>
      /\ UNCHANGED <<ciphertexts, begun, components, place, verified, verdict, byChance, claim,
                     answered>>
    BY DEF ProveSum
<1>2. PICK w \in Drawn, c \in Scalars :
          /\ Asks(Transcript("sum", Made, 0, ciphertexts, <<Commitment(w)>>), c)
          /\ sum' = <<[commitment |-> Commitment(w), challenge |-> c,
                       response |-> (w + c * (Nonces % Q)) % Q]>>
    BY Zenon DEF ProveSum
<1> DEFINE t == Transcript("sum", Made, 0, ciphertexts, <<Commitment(w)>>)
           proof == [commitment |-> Commitment(w), challenge |-> c,
                     response |-> (w + c * (Nonces % Q)) % Q]
           n == Options
<1>3. n \in Nat /\ Len(ciphertexts) = n /\ Len(begun) = n /\ begun \in Seq(BegunProofs)
    BY <1>1, BallotAssumption DEF PageIInv
<1>4. \A j \in 1 .. n : begun[j] \in BegunProofs /\ begun[j].nonce \in Nat
  <2>1. \A j \in 1 .. n : begun[j] \in BegunProofs
    BY <1>3
  <2> QED BY <2>1, DrawnAre DEF BegunProofs
<1>5. PICK f \in [0 .. n -> Nat] :
              /\ f[0] = 0 /\ \A j \in 1 .. n : f[j] = f[j - 1] + begun[j].nonce
              /\ Nonces = f[n]
    BY <1>3, <1>4, NoncesAre
<1> DEFINE nonce == [j \in 1 .. n |-> begun[j].nonce]
<1>6. nonce \in [1 .. n -> Nat] /\ \A j \in 1 .. n : nonce[j] = begun[j].nonce
    BY <1>4
<1>7. \A j \in 1 .. n : ciphertexts[j] = Encrypt(PublicKey, Message(j), begun[j].nonce)
    BY <1>3 DEF PageIInv
<1> DEFINE product == Product(ciphertexts)
           total == f[n]
<1>8. product = [c1 |-> Repeated(G, total),
                 c2 |-> TimesMod(Repeated(PublicKey, total), Repeated(G, Ones(n)))]
  <2>1. /\ \A j \in 1 .. n : ciphertexts[j] = Encrypt(PublicKey, Message(j), nonce[j])
        /\ \A j \in 1 .. n : f[j] = f[j - 1] + nonce[j]
    BY <1>5, <1>6, <1>7
  <2>2. n \in Nat /\ Len(ciphertexts) = n /\ nonce \in [1 .. n -> Nat]
        /\ f \in [0 .. n -> Nat] /\ f[0] = 0
    BY <1>3, <1>5, <1>6
  <2> HIDE DEF nonce, n
  <2> QED BY <2>1, <2>2, ProductIs
<1>9. total \in Nat /\ Nonces = total
    BY <1>3, <1>5
<1> HIDE DEF product, total
<1>10. product.c1 = Repeated(G, total) /\ Shifted(product.c2) = Repeated(PublicKey, total)
  <2>1. Ones(n) = 1
    BY BallotAssumption DEF Ones
  <2>2. Repeated(G, 1) = G /\ Repeated(PublicKey, total) \in Residues
    BY <1>9, Key, PowerOne, PowerType DEF OfOrder
  <2>3. product.c1 = Repeated(G, total)
        /\ product.c2 = TimesMod(Repeated(PublicKey, total), G)
    BY <1>8, <2>1, <2>2
  <2> QED BY <2>2, <2>3, ShiftBack
<1>11. SumHolds(product, proof, c)
  <2>1. /\ proof.commitment = Commitment(w) /\ proof.challenge = c
        /\ proof.response = (w + c * (total % Q)) % Q
    BY <1>9
  <2> HIDE DEF proof
  <2> QED BY <1>9, <1>10, <2>1, SumIsProved
<1>12. /\ DOMAIN oracle' = DOMAIN oracle \cup {t} /\ oracle'[t] = c
       /\ \A u \in DOMAIN oracle : u \in DOMAIN oracle' /\ oracle'[u] = oracle[u]
    BY <1>2, Asked
<1>13. sum' = <<proof>> /\ sum'[1] = proof /\ proof.commitment = Commitment(w)
    BY <1>2
<1> HIDE DEF proof
<1>14. SumTranscript(Made)' = t
    BY <1>1, <1>13 DEF SumTranscript, Transcript
<1>15. \A j \in 1 .. Len(components') :
          /\ OptionTranscript(Made, j)' \in DOMAIN oracle'
          /\ ZeroOrOneHolds(ciphertexts'[j], components'[j], oracle'[OptionTranscript(Made, j)'])
  <2> SUFFICES ASSUME NEW j \in 1 .. Len(components)
               PROVE  /\ OptionTranscript(Made, j)' \in DOMAIN oracle'
                      /\ ZeroOrOneHolds(ciphertexts'[j], components'[j],
                                        oracle'[OptionTranscript(Made, j)'])
    BY <1>1
  <2>1. OptionTranscript(Made, j)' = OptionTranscript(Made, j)
    BY <1>1 DEF OptionTranscript, Transcript
  <2>2. /\ OptionTranscript(Made, j) \in DOMAIN oracle
        /\ ZeroOrOneHolds(ciphertexts[j], components[j], oracle[OptionTranscript(Made, j)])
    BY DEF PageIInv
  <2> HIDE DEF t
  <2> QED BY <1>1, <1>12, <2>1, <2>2
<1>16. SumTranscript(Made)' \in DOMAIN oracle'
       /\ SumHolds(Product(ciphertexts'), sum'[1], oracle'[SumTranscript(Made)'])
  <2> HIDE DEF t
  <2> QED BY <1>1, <1>11, <1>12, <1>13, <1>14 DEF product
<1>17. PageIInv'
  <2> HIDE DEF t
  <2> QED BY <1>1, <1>15, <1>16 DEF PageIInv
<1>18. ServerIInv'
  <2>1. t[2] = Made
    BY DEF t, Transcript
  <2> HIDE DEF t
  <2>2. ~byChance' => \A u \in DOMAIN oracle' : u[2] = Made
    BY <1>1, <1>12, <2>1 DEF ServerIInv
  <2>3. verdict = "none" /\ sum' # <<>>
    BY <1>1, <1>13 DEF ServerIInv
  <2> QED BY <1>1, <2>2, <2>3 DEF ServerIInv, HonestIsAccepted
<1> QED
    BY <1>1, <1>17, <1>18, ClaimStays

\* What one check does, whatever it checks.
LEMMA CheckedKeeps ==
    ASSUME PageIInv, ServerIInv, verdict = "none", sum # <<>>,
           NEW holds \in BOOLEAN, NEW t, t[2] = place, NEW c, Asks(t, c), Checked(holds, t),
           place = Made /\ ElementsHold(ciphertexts) => holds,
           UNCHANGED <<ciphertexts, begun, components, sum, place>>
    PROVE  PageIInv' /\ ServerIInv'
<1>1. /\ DOMAIN oracle' = DOMAIN oracle \cup {t}
      /\ \A u \in DOMAIN oracle : u \in DOMAIN oracle' /\ oracle'[u] = oracle[u]
    BY Asked
<1>2. PageIInv'
    BY <1>1, PageStays
<1>3. verified \in 0 .. Options /\ verified' = verified + 1 /\ Options \in Nat
    BY BallotAssumption DEF ServerIInv, Checked
<1>4. verdict' = IF ~holds THEN "rejected" ELSE IF verified = Options THEN "accepted" ELSE "none"
    BY DEF Checked
<1>5. /\ verdict' \in {"none", "rejected", "accepted"}
      /\ verdict' = "none" => verified # Options
      /\ verdict' = "rejected" => ~holds
    BY <1>4
<1>6. ~byChance' => ~byChance /\ t \in DOMAIN oracle
    BY DEF Checked
<1>7. ~byChance' => (\A u \in DOMAIN oracle' : u[2] = Made) /\ place' = Made
    BY <1>1, <1>6 DEF ServerIInv
<1>8. HonestIsAccepted'
  <2>1. ElementsHold(ciphertexts)' = ElementsHold(ciphertexts)
    BY DEF ElementsHold
  <2>2. verdict' = "rejected" => place # Made \/ ~ElementsHold(ciphertexts)
    BY <1>5
  <2> QED BY <2>1, <2>2 DEF HonestIsAccepted
<1>9. verified' \in 0 .. Options + 1 /\ verified' > 0
      /\ (verdict' = "none" => verified' <= Options)
    BY <1>3, <1>5
<1>10. ServerIInv'
    BY <1>5, <1>7, <1>8, <1>9 DEF ServerIInv
<1> QED
    BY <1>2, <1>10

LEMMA VerifyBallotKeeps ==
    ASSUME BallotIInv, VerifyBallot
    PROVE  BallotIInv'
<1> USE DEF BallotIInv
<1> DEFINE i == verified + 1
<1>1. /\ sum # <<>> /\ verdict = "none"
      /\ UNCHANGED <<ciphertexts, begun, components, sum, place, claim, answered>>
    BY DEF VerifyBallot
<1> DEFINE ofOption == OptionTranscript(place, i)
           optionHolds(c) == ElementsHold(ciphertexts)
                               /\ ZeroOrOneHolds(ciphertexts[i], components[i], c)
           sumHolds(c) == SumHolds(Product(ciphertexts), sum[1], c)
<1>2. PICK c \in Scalars :
          \/ verified < Options /\ Asks(ofOption, c) /\ Checked(optionHolds(c), ofOption)
          \/ verified = Options /\ Asks(SumTranscript(place), c)
               /\ Checked(sumHolds(c), SumTranscript(place))
    BY Zenon DEF VerifyBallot, OptionTranscript, SumTranscript
<1>3. verified \in 0 .. Options /\ Options \in Nat /\ Len(components) = Options
    BY <1>1, BallotAssumption DEF ServerIInv, PageIInv
<1>4. CASE /\ verified < Options /\ Asks(ofOption, c) /\ Checked(optionHolds(c), ofOption)
  <2>1. i \in 1 .. Len(components)
    BY <1>3, <1>4
  <2>2. ASSUME place = Made, ElementsHold(ciphertexts) PROVE optionHolds(c)
    <3>1. /\ OptionTranscript(Made, i) \in DOMAIN oracle
          /\ ZeroOrOneHolds(ciphertexts[i], components[i], oracle[OptionTranscript(Made, i)])
        BY <2>1 DEF PageIInv
    <3>2. c = oracle[OptionTranscript(Made, i)]
        BY <1>4, <2>2, <3>1, Asked
    <3> QED BY <2>2, <3>1, <3>2
  <2>3. ofOption[2] = place
    BY DEF OptionTranscript, Transcript
  <2>4. optionHolds(c) \in BOOLEAN
    BY DEF ElementsHold, ZeroOrOneHolds, ChallengesAddUp
  <2> DEFINE holds == optionHolds(c)
             t == ofOption
  <2>5. /\ holds \in BOOLEAN /\ t[2] = place /\ Asks(t, c) /\ Checked(holds, t)
        /\ place = Made /\ ElementsHold(ciphertexts) => holds
    BY <1>4, <2>2, <2>3, <2>4
  <2> HIDE DEF holds, t, optionHolds, ofOption
  <2>6. PageIInv' /\ ServerIInv'
    BY <1>1, <2>5, CheckedKeeps
  <2> QED BY <1>1, <2>6, ClaimStays
<1>5. CASE /\ verified = Options /\ Asks(SumTranscript(place), c)
           /\ Checked(sumHolds(c), SumTranscript(place))
  <2>1. ASSUME place = Made PROVE sumHolds(c)
    <3>1. /\ SumTranscript(Made) \in DOMAIN oracle
          /\ SumHolds(Product(ciphertexts), sum[1], oracle[SumTranscript(Made)])
        BY <1>1 DEF PageIInv
    <3>2. c = oracle[SumTranscript(Made)]
        BY <1>5, <2>1, <3>1, Asked
    <3> QED BY <3>1, <3>2
  <2>2. SumTranscript(place)[2] = place
    BY DEF SumTranscript, Transcript
  <2>3. sumHolds(c) \in BOOLEAN
    BY DEF SumHolds
  <2> DEFINE holds == sumHolds(c)
             t == SumTranscript(place)
  <2>4. /\ holds \in BOOLEAN /\ t[2] = place /\ Asks(t, c) /\ Checked(holds, t)
        /\ place = Made /\ ElementsHold(ciphertexts) => holds
    BY <1>5, <2>1, <2>2, <2>3
  <2> HIDE DEF holds, t, sumHolds
  <2>5. PageIInv' /\ ServerIInv'
    BY <1>1, <2>4, CheckedKeeps
  <2> QED BY <1>1, <2>5, ClaimStays
<1> QED
    BY <1>2, <1>4, <1>5

LEMMA MoveToKeeps ==
    ASSUME BallotIInv, NEW b \in Places, MoveTo(b)
    PROVE  BallotIInv'
<1>1. PageIInv'
    BY PageStays DEF MoveTo, BallotIInv
<1>2. ClaimIInv'
    BY ClaimStays DEF MoveTo, BallotIInv
<1>3. ServerIInv'
    BY DEF MoveTo, BallotIInv, ServerIInv, HonestIsAccepted
<1> QED
    BY <1>1, <1>2, <1>3 DEF BallotIInv

LEMMA ClaimKeeps ==
    ASSUME BallotIInv, Claim
    PROVE  BallotIInv'
<1>1. /\ claim = <<>>
      /\ UNCHANGED <<ciphertexts, begun, components, sum, oracle, place, verified, verdict,
                     byChance, answered>>
    BY DEF Claim
<1>2. PICK c \in Ciphertexts, first \in CommitmentPairs, second \in CommitmentPairs :
          /\ ElementsHold(<<c>>)
          /\ claim' = <<[ciphertext |-> c, branches |-> <<first, second>>]>>
    BY Zenon DEF Claim, Ciphertexts
<1>3. PageIInv'
    BY <1>1, PageStays DEF BallotIInv
<1>4. ServerIInv'
    BY <1>1 DEF BallotIInv, ServerIInv, HonestIsAccepted, ElementsHold
<1>5. InSubgroup(c.c1) /\ InSubgroup(c.c2)
  <2>1. 1 \in DOMAIN <<c>> /\ <<c>>[1] = c
    OBVIOUS
  <2> QED BY <1>2, <2>1 DEF ElementsHold
<1>6. claim'[1].ciphertext = c /\ claim'[1].branches = <<first, second>> /\ claim' # <<>>
    BY <1>2
<1>7. answered' = {}
    BY <1>1 DEF BallotIInv, ClaimIInv
<1>8. \E f, g \in CommitmentPairs : claim'[1].branches = <<f, g>>
    BY <1>6
<1>9. ClaimIInv'
    BY <1>5, <1>6, <1>7, <1>8 DEF ClaimIInv
<1> QED
    BY <1>3, <1>4, <1>9 DEF BallotIInv

LEMMA AnswerClaimKeeps ==
    ASSUME BallotIInv, NEW c \in Scalars, AnswerClaim(c)
    PROVE  BallotIInv'
<1>1. /\ claim # <<>> /\ answered' = answered \cup {c}
      /\ UNCHANGED <<ciphertexts, begun, components, sum, oracle, place, verified, verdict,
                     byChance, claim>>
      /\ \E challenges, responses \in [1 .. 2 -> Scalars] :
          ZeroOrOneHolds(claim[1].ciphertext,
              [branches |-> claim[1].branches, challenges |-> challenges,
               responses |-> responses], c)
    BY Zenon DEF AnswerClaim
<1>2. PageIInv'
    BY <1>1, PageStays DEF BallotIInv
<1>3. ServerIInv'
    BY <1>1 DEF BallotIInv, ServerIInv, HonestIsAccepted, ElementsHold
<1> DEFINE Has(d) == \E challenges, responses \in [1 .. 2 -> Scalars] :
          ZeroOrOneHolds(claim[1].ciphertext,
              [branches |-> claim[1].branches, challenges |-> challenges,
               responses |-> responses], d)
<1>4. Has(c) /\ \A d \in answered : Has(d)
    BY <1>1, Zenon DEF BallotIInv, ClaimIInv
<1>5. claim' = claim
    BY <1>1
<1> DEFINE Later(d) == \E challenges, responses \in [1 .. 2 -> Scalars] :
          ZeroOrOneHolds(claim'[1].ciphertext,
              [branches |-> claim'[1].branches, challenges |-> challenges,
               responses |-> responses], d)
<1>6. ASSUME NEW d PROVE Later(d) <=> Has(d)
    BY <1>5
<1> HIDE DEF Has, Later
<1>7. \A d \in answered' : Later(d)
    BY <1>1, <1>4, <1>6
<1>8. /\ answered' \subseteq Scalars /\ claim' # <<>>
      /\ claim'[1].ciphertext \in Ciphertexts
      /\ InSubgroup(claim'[1].ciphertext.c1) /\ InSubgroup(claim'[1].ciphertext.c2)
      /\ \E first, second \in CommitmentPairs : claim'[1].branches = <<first, second>>
    BY <1>1, <1>5 DEF BallotIInv, ClaimIInv
<1>9. ClaimIInv'
    BY <1>7, <1>8, Zenon DEF ClaimIInv, Later
<1> QED
    BY <1>2, <1>3, <1>9 DEF BallotIInv

\* No honest ballot is rejected, nothing but a 0 or a 1 can be proved but by guessing,
\* and no ballot is accepted where it was not made (ballot-encoding.ts, proofs.ts,
\* verify-ballot.ts).
THEOREM ProofsAlwaysHold == ProofSpec => []ProofsHold
<1>1. ProofInit => BallotIInv
    BY BallotInit
<1>2. BallotIInv /\ [ProofNext]_proofVars => BallotIInv'
  <2> SUFFICES ASSUME BallotIInv, [ProofNext]_proofVars PROVE BallotIInv'
    OBVIOUS
  <2>1. CASE UNCHANGED proofVars
    <3>1. PageIInv'
        BY <2>1, PageStays DEF BallotIInv, proofVars
    <3>2. ClaimIInv'
        BY <2>1, ClaimStays DEF BallotIInv, proofVars
    <3>3. ServerIInv'
        BY <2>1 DEF BallotIInv, ServerIInv, proofVars, HonestIsAccepted, ElementsHold
    <3> QED BY <3>1, <3>2, <3>3 DEF BallotIInv
  <2> QED
    BY <2>1, EncryptOptionKeeps, FinishProofKeeps, ProveSumKeeps, VerifyBallotKeeps, MoveToKeeps,
       ClaimKeeps, AnswerClaimKeeps DEF ProofNext
<1>3. BallotIInv => ProofsHold
    BY BallotInvariants
<1> QED
    BY <1>1, <1>2, <1>3, PTL DEF ProofSpec
=============================================================================
