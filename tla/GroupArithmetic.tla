--------------------------- MODULE GroupArithmetic ---------------------------
(***************************************************************************)
(* Facts about the group of ballots: remainders, products, powers, what    *)
(* has the group's order, and sums, products and interpolation modulo that *)
(* order, which is a prime.                                                *)
(***************************************************************************)
EXTENDS PrimeGroup, WaitingLines

----------------------------------------------------------------------------
(***************************************************************************)
(* Powers: the rest of a division first.                                   *)
(***************************************************************************)
LEMMA RestOf ==
    ASSUME NEW m \in Nat \ {0}, NEW a \in Nat
    PROVE  /\ a \div m \in Nat /\ a % m \in 0 .. m - 1 /\ a % m \in Nat
           /\ a = m * (a \div m) + (a % m)
<1>1. a \div m \in Int /\ a % m \in 0 .. m - 1 /\ a = m * (a \div m) + (a % m)
    OBVIOUS
<1>2. ASSUME NEW d \in Int, NEW r \in 0 .. m - 1, a = m * d + r PROVE d \in Nat
  <2>1. CASE d < 0
    <3>1. PICK e \in Nat : d = -1 - e
      <4>1. -1 - d \in Nat /\ d = -1 - (-1 - d)
        BY <2>1
      <4> QED BY <4>1
    <3>2. m * d = -m - m * e /\ m * e \in Nat
      BY <3>1
    <3> QED BY <1>2, <3>2
  <2> QED BY <2>1
<1> QED
    BY <1>1, <1>2

LEMMA SameRest ==
    ASSUME NEW m \in Nat \ {0}, NEW k \in Nat, NEW l \in Nat,
           NEW r \in 0 .. m - 1, NEW s \in 0 .. m - 1, m * k + r = m * l + s
    PROVE  r = s
<1>1. ASSUME NEW x \in Nat, NEW y \in Nat, NEW u \in 0 .. m - 1, NEW v \in 0 .. m - 1,
             m * x + u = m * y + v, x > y
      PROVE  FALSE
  <2>1. PICK d \in Nat : x = y + 1 + d
    <3>1. x - y - 1 \in Nat /\ x = y + 1 + (x - y - 1)
        BY <1>1
    <3> QED BY <3>1
  <2>2. m * x = m * y + m + m * d
    BY <2>1
  <2>3. m * d \in Nat /\ m * y \in Nat
    OBVIOUS
  <2> QED BY <1>1, <2>2, <2>3
<1>2. k = l
    BY <1>1
<1> QED
    BY <1>2

LEMMA RestIs ==
    ASSUME NEW m \in Nat \ {0}, NEW k \in Nat, NEW r \in 0 .. m - 1
    PROVE  (m * k + r) % m = r
<1>1. m * k + r \in Nat
    OBVIOUS
<1> QED
    BY <1>1, RestOf, SameRest

LEMMA RestOfMore ==
    ASSUME NEW m \in Nat \ {0}, NEW k \in Nat, NEW a \in Nat
    PROVE  (m * k + a) % m = a % m
<1> DEFINE d == a \div m
           r == a % m
<1>1. d \in Nat /\ r \in 0 .. m - 1 /\ a = m * d + r
    BY RestOf
<1> HIDE DEF d, r
<1>2. m * k + a = m * (k + d) + r /\ k + d \in Nat
    BY <1>1
<1>3. (m * (k + d) + r) % m = r
    BY <1>1, <1>2, RestIs
<1> QED
    BY <1>2, <1>3 DEF r

LEMMA RestOfProduct ==
    ASSUME NEW m \in Nat \ {0}, NEW a \in Nat, NEW b \in Nat
    PROVE  ((a % m) * b) % m = (a * b) % m
<1> DEFINE d == a \div m
           r == a % m
<1>1. d \in Nat /\ r \in Nat /\ a = m * d + r
    BY RestOf
<1> HIDE DEF d, r
<1>2. a * b = m * (d * b) + r * b /\ d * b \in Nat /\ r * b \in Nat
    BY <1>1
<1>3. (m * (d * b) + r * b) % m = (r * b) % m
    BY <1>2, RestOfMore
<1> QED
    BY <1>2, <1>3 DEF r

----------------------------------------------------------------------------
(***************************************************************************)
(* Products in the group.                                                  *)
(***************************************************************************)
Residues == 0 .. P - 1

LEMMA Residue ==
    /\ P \in Nat \ {0} /\ P >= 7 /\ 1 \in Residues /\ 0 \in Residues
    /\ \A a \in Residues : a \in Nat /\ a % P = a
    /\ \A a \in Nat : a % P \in Residues
<1>1. P \in Nat \ {0} /\ P >= 7
    BY GroupAssumption
<1>2. ASSUME NEW a \in Residues PROVE a % P = a
  <2>1. P * 0 + a = a /\ a \in 0 .. P - 1
    BY <1>1, <1>2 DEF Residues
  <2> QED BY <1>1, <2>1, RestIs
<1>3. \A a \in Nat : a % P \in 0 .. P - 1
    BY <1>1, RestOf
<1> QED
    BY <1>1, <1>2, <1>3 DEF Residues

LEMMA TimesType ==
    ASSUME NEW a \in Nat, NEW b \in Nat
    PROVE  TimesMod(a, b) \in Residues /\ TimesMod(a, b) \in Nat
              /\ TimesMod(a, b) = TimesMod(b, a)
<1>1. a * b \in Nat /\ a * b = b * a
    OBVIOUS
<1> QED
    BY <1>1, Residue DEF TimesMod

LEMMA TimesOne ==
    ASSUME NEW a \in Residues
    PROVE  TimesMod(a, 1) = a /\ TimesMod(1, a) = a
<1>1. a \in Nat /\ a % P = a
    BY Residue
<1>2. a * 1 = a /\ 1 * a = a
    BY <1>1
<1> QED
    BY <1>1, <1>2 DEF TimesMod

LEMMA TimesOfRest ==
    ASSUME NEW a \in Nat, NEW b \in Nat
    PROVE  TimesMod(a % P, b) = TimesMod(a, b) /\ TimesMod(a, b % P) = TimesMod(a, b)
<1>1. ((a % P) * b) % P = (a * b) % P /\ ((b % P) * a) % P = (b * a) % P
    BY Residue, RestOfProduct
<1>2. a % P \in Nat /\ b % P \in Nat
    BY Residue
<1>3. a * b = b * a /\ (b % P) * a = a * (b % P)
    BY <1>2
<1> QED
    BY <1>1, <1>3 DEF TimesMod

LEMMA TimesTogether ==
    ASSUME NEW a \in Nat, NEW b \in Nat, NEW c \in Nat
    PROVE  TimesMod(TimesMod(a, b), c) = TimesMod(a, TimesMod(b, c))
<1>1. a * b \in Nat /\ b * c \in Nat
    OBVIOUS
<1>2. TimesMod((a * b) % P, c) = TimesMod(a * b, c)
    BY <1>1, TimesOfRest
<1>3. TimesMod(a, (b * c) % P) = TimesMod(a, b * c)
    BY <1>1, TimesOfRest
<1>4. (a * b) * c = a * (b * c)
    OBVIOUS
<1> QED
    BY <1>2, <1>3, <1>4 DEF TimesMod

\* Four factors in another order.
LEMMA TimesCrossed ==
    ASSUME NEW a \in Nat, NEW b \in Nat, NEW c \in Nat, NEW d \in Nat
    PROVE  TimesMod(TimesMod(a, b), TimesMod(c, d)) = TimesMod(TimesMod(a, c), TimesMod(b, d))
<1>1. TimesMod(b, TimesMod(c, d)) = TimesMod(c, TimesMod(b, d))
  <2>1. TimesMod(b, c) = TimesMod(c, b)
    BY TimesType
  <2> QED BY <2>1, TimesTogether
<1>2. TimesMod(c, d) \in Nat /\ TimesMod(b, d) \in Nat
    BY TimesType
<1> QED
    BY <1>1, <1>2, TimesTogether

----------------------------------------------------------------------------
(***************************************************************************)
(* Powers by multiplying as often as they say.                             *)
(***************************************************************************)
ArePowers(f, b, n) ==
    f = [e \in 0 .. n |-> IF e = 0 THEN 1 ELSE TimesMod(f[e - 1], b % P)]

LEMMA PowersThere ==
    ASSUME NEW b \in Nat, NEW n \in Nat
    PROVE  \E f : ArePowers(f, b, n)
<1> DEFINE Bad == {m \in Nat : ~\E f : ArePowers(f, b, m)}
<1> SUFFICES ASSUME Bad # {} PROVE FALSE
    OBVIOUS
<1>1. Bad \in SUBSET Nat
    OBVIOUS
<1> HIDE DEF Bad
<1>2. PICK m \in Bad : \A k \in Bad : m <= k
    BY <1>1, Smallest
<1>3. m \in Nat /\ ~\E f : ArePowers(f, b, m)
    BY <1>2 DEF Bad
<1>4. CASE m = 0
  <2>1. ArePowers([e \in 0 .. 0 |-> 1], b, 0)
    BY DEF ArePowers
  <2> QED BY <1>3, <1>4, <2>1
<1>5. CASE m # 0
  <2>1. m - 1 \in Nat /\ m - 1 \notin Bad
    BY <1>2, <1>3, <1>5
  <2>2. PICK f : ArePowers(f, b, m - 1)
    BY <2>1 DEF Bad
  <2> DEFINE g == [e \in 0 .. m |-> IF e = m THEN TimesMod(f[m - 1], b % P) ELSE f[e]]
  <2>3. \A e \in 0 .. m - 1 : f[e] = IF e = 0 THEN 1 ELSE TimesMod(f[e - 1], b % P)
    BY <2>2 DEF ArePowers
  <2>4. ASSUME NEW e \in 0 .. m
        PROVE  g[e] = IF e = 0 THEN 1 ELSE TimesMod(g[e - 1], b % P)
    <3>1. CASE e = m
      <4>1. m - 1 \in 0 .. m /\ m - 1 # m
        BY <1>3, <1>5
      <4>2. g[e] = TimesMod(f[m - 1], b % P) /\ g[m - 1] = f[m - 1]
        BY <3>1, <4>1
      <4> QED BY <1>5, <3>1, <4>2
    <3>2. CASE e # m
      <4>1. e \in 0 .. m - 1 /\ (e # 0 => e - 1 \in 0 .. m /\ e - 1 # m)
        BY <1>3, <3>2
      <4>2. g[e] = f[e] /\ (e # 0 => g[e - 1] = f[e - 1])
        BY <3>2, <4>1
      <4> QED BY <2>3, <4>1, <4>2
    <3> QED BY <3>1, <3>2
  <2>5. ArePowers(g, b, m)
    BY <2>4 DEF ArePowers
  <2> QED BY <1>3, <2>5
<1> QED
    BY <1>4, <1>5

LEMMA PowersAreOne ==
    ASSUME NEW b \in Nat, NEW n \in Nat, NEW m \in Nat, n <= m,
           NEW f, NEW g, ArePowers(f, b, n), ArePowers(g, b, m)
    PROVE  \A e \in 0 .. n : f[e] = g[e]
<1> DEFINE Bad == {e \in 0 .. n : f[e] # g[e]}
<1> SUFFICES ASSUME Bad # {} PROVE FALSE
    OBVIOUS
<1>1. Bad \in SUBSET Nat
    OBVIOUS
<1> HIDE DEF Bad
<1>2. PICK k \in Bad : \A l \in Bad : k <= l
    BY <1>1, Smallest
<1>3. k \in 0 .. n /\ f[k] # g[k]
    BY <1>2 DEF Bad
<1>4. /\ f[k] = IF k = 0 THEN 1 ELSE TimesMod(f[k - 1], b % P)
      /\ g[k] = IF k = 0 THEN 1 ELSE TimesMod(g[k - 1], b % P)
  <2>1. \A e \in 0 .. n : f[e] = IF e = 0 THEN 1 ELSE TimesMod(f[e - 1], b % P)
    BY DEF ArePowers
  <2>2. \A e \in 0 .. m : g[e] = IF e = 0 THEN 1 ELSE TimesMod(g[e - 1], b % P)
    BY DEF ArePowers
  <2>3. k \in 0 .. m
    BY <1>3
  <2> QED BY <1>3, <2>1, <2>2, <2>3
<1>5. k # 0
    BY <1>3, <1>4
<1>6. k - 1 \in 0 .. n /\ k - 1 \notin Bad
    BY <1>2, <1>3, <1>5
<1>7. f[k - 1] = g[k - 1]
    BY <1>6 DEF Bad
<1> QED
    BY <1>3, <1>4, <1>5, <1>7

LEMMA RepeatedIs ==
    ASSUME NEW b \in Nat, NEW n \in Nat
    PROVE  /\ Repeated(b, 0) = 1
           /\ Repeated(b, n + 1) = TimesMod(Repeated(b, n), b % P)
<1> DEFINE f(m) == CHOOSE h : ArePowers(h, b, m)
<1>1. ASSUME NEW m \in Nat PROVE ArePowers(f(m), b, m) /\ Repeated(b, m) = f(m)[m]
  <2>1. \E h : ArePowers(h, b, m)
    BY PowersThere
  <2> QED BY <2>1 DEF ArePowers, Repeated
<1> HIDE DEF f
<1>2. ASSUME NEW m \in Nat
      PROVE  \A e \in 0 .. m : f(m)[e] = IF e = 0 THEN 1 ELSE TimesMod(f(m)[e - 1], b % P)
  <2>1. ArePowers(f(m), b, m)
    BY <1>1
  <2> QED BY <2>1 DEF ArePowers
<1>3. Repeated(b, 0) = 1
    BY <1>1, <1>2
<1>4. f(n)[n] = f(n + 1)[n]
  <2>1. n + 1 \in Nat /\ n <= n + 1 /\ n \in 0 .. n
    OBVIOUS
  <2>2. ArePowers(f(n), b, n) /\ ArePowers(f(n + 1), b, n + 1)
    BY <1>1, <2>1
  <2> QED BY <2>1, <2>2, PowersAreOne
<1>5. f(n + 1)[n + 1] = TimesMod(f(n + 1)[n], b % P)
  <2>1. n + 1 \in Nat /\ n + 1 \in 0 .. n + 1 /\ n + 1 # 0 /\ (n + 1) - 1 = n
    OBVIOUS
  <2> QED BY <1>2, <2>1
<1>6. n + 1 \in Nat
    OBVIOUS
<1> QED
    BY <1>1, <1>3, <1>4, <1>5, <1>6

LEMMA PowerType ==
    ASSUME NEW b \in Nat, NEW n \in Nat
    PROVE  Repeated(b, n) \in Residues /\ Repeated(b, n) \in Nat
<1> DEFINE Bad == {m \in Nat : Repeated(b, m) \notin Residues}
<1> SUFFICES ASSUME Bad # {} PROVE FALSE
    BY Residue
<1>1. Bad \in SUBSET Nat
    OBVIOUS
<1> HIDE DEF Bad
<1>2. PICK m \in Bad : \A k \in Bad : m <= k
    BY <1>1, Smallest
<1>3. m \in Nat /\ Repeated(b, m) \notin Residues
    BY <1>2 DEF Bad
<1>4. m # 0
    BY <1>3, RepeatedIs, Residue
<1>5. m - 1 \in Nat /\ m - 1 \notin Bad /\ (m - 1) + 1 = m
    BY <1>2, <1>3, <1>4
<1>6. Repeated(b, m - 1) \in Nat /\ b % P \in Nat
    BY <1>5, Residue DEF Bad
<1>7. Repeated(b, m) = TimesMod(Repeated(b, m - 1), b % P)
  <2>1. Repeated(b, (m - 1) + 1) = TimesMod(Repeated(b, m - 1), b % P)
    BY <1>5, RepeatedIs
  <2> QED BY <1>5, <2>1
<1> QED
    BY <1>3, <1>6, <1>7, TimesType

\* One factor more.
LEMMA PowerStep ==
    ASSUME NEW b \in Nat, NEW n \in Nat
    PROVE  Repeated(b, n + 1) = TimesMod(Repeated(b, n), b)
    BY RepeatedIs, PowerType, TimesOfRest

LEMMA PowerOne ==
    ASSUME NEW b \in Residues
    PROVE  Repeated(b, 1) = b
<1>1. b \in Nat /\ 0 \in Nat /\ 0 + 1 = 1
    BY Residue
<1>2. Repeated(b, 0 + 1) = TimesMod(Repeated(b, 0), b) /\ Repeated(b, 0) = 1
    BY <1>1, PowerStep, RepeatedIs
<1> QED
    BY <1>1, <1>2, TimesOne

LEMMA PowerSum ==
    ASSUME NEW b \in Nat, NEW m \in Nat, NEW n \in Nat
    PROVE  Repeated(b, m + n) = TimesMod(Repeated(b, m), Repeated(b, n))
<1> DEFINE Bad == {k \in Nat : Repeated(b, m + k) # TimesMod(Repeated(b, m), Repeated(b, k))}
<1> SUFFICES ASSUME Bad # {} PROVE FALSE
    OBVIOUS
<1>1. Bad \in SUBSET Nat
    OBVIOUS
<1> HIDE DEF Bad
<1>2. PICK k \in Bad : \A l \in Bad : k <= l
    BY <1>1, Smallest
<1>3. k \in Nat /\ Repeated(b, m + k) # TimesMod(Repeated(b, m), Repeated(b, k))
    BY <1>2 DEF Bad
<1>4. k # 0
  <2>1. Repeated(b, m + 0) = Repeated(b, m) /\ Repeated(b, 0) = 1
    BY RepeatedIs
  <2>2. TimesMod(Repeated(b, m), 1) = Repeated(b, m)
    BY PowerType, TimesOne
  <2> QED BY <1>3, <2>1, <2>2
<1>5. k - 1 \in Nat /\ k - 1 \notin Bad /\ (k - 1) + 1 = k /\ m + k = (m + (k - 1)) + 1
         /\ m + (k - 1) \in Nat
    BY <1>2, <1>3, <1>4
<1>6. Repeated(b, m + (k - 1)) = TimesMod(Repeated(b, m), Repeated(b, k - 1))
    BY <1>5 DEF Bad
<1>7. Repeated(b, m + k) = TimesMod(Repeated(b, m + (k - 1)), b)
  <2>1. Repeated(b, (m + (k - 1)) + 1) = TimesMod(Repeated(b, m + (k - 1)), b)
    BY <1>5, PowerStep
  <2> QED BY <1>5, <2>1
<1>8. Repeated(b, k) = TimesMod(Repeated(b, k - 1), b)
  <2>1. Repeated(b, (k - 1) + 1) = TimesMod(Repeated(b, k - 1), b)
    BY <1>5, PowerStep
  <2> QED BY <1>5, <2>1
<1>9. Repeated(b, m) \in Nat /\ Repeated(b, k - 1) \in Nat
    BY <1>5, PowerType
<1> QED
    BY <1>3, <1>6, <1>7, <1>8, <1>9, TimesTogether

LEMMA PowerOfProduct ==
    ASSUME NEW a \in Nat, NEW b \in Nat, NEW n \in Nat
    PROVE  Repeated(TimesMod(a, b), n) = TimesMod(Repeated(a, n), Repeated(b, n))
<1> DEFINE Bad == {k \in Nat : Repeated(TimesMod(a, b), k)
                                      # TimesMod(Repeated(a, k), Repeated(b, k))}
<1> SUFFICES ASSUME Bad # {} PROVE FALSE
    OBVIOUS
<1>1. Bad \in SUBSET Nat
    OBVIOUS
<1> HIDE DEF Bad
<1>2. PICK k \in Bad : \A l \in Bad : k <= l
    BY <1>1, Smallest
<1>3. k \in Nat /\ Repeated(TimesMod(a, b), k) # TimesMod(Repeated(a, k), Repeated(b, k))
    BY <1>2 DEF Bad
<1>4. TimesMod(a, b) \in Nat
    BY TimesType
<1>5. k # 0
  <2>1. Repeated(TimesMod(a, b), 0) = 1 /\ Repeated(a, 0) = 1 /\ Repeated(b, 0) = 1
    BY <1>4, RepeatedIs
  <2>2. TimesMod(1, 1) = 1
    BY Residue, TimesOne
  <2> QED BY <1>3, <2>1, <2>2
<1>6. k - 1 \in Nat /\ k - 1 \notin Bad /\ (k - 1) + 1 = k
    BY <1>2, <1>3, <1>5
<1>7. Repeated(TimesMod(a, b), k - 1) = TimesMod(Repeated(a, k - 1), Repeated(b, k - 1))
    BY <1>6 DEF Bad
<1>8. /\ Repeated(TimesMod(a, b), (k - 1) + 1)
            = TimesMod(Repeated(TimesMod(a, b), k - 1), TimesMod(a, b))
      /\ Repeated(a, (k - 1) + 1) = TimesMod(Repeated(a, k - 1), a)
      /\ Repeated(b, (k - 1) + 1) = TimesMod(Repeated(b, k - 1), b)
    BY <1>4, <1>6, PowerStep
<1>9. Repeated(a, k - 1) \in Nat /\ Repeated(b, k - 1) \in Nat
    BY <1>6, PowerType
<1> QED
    BY <1>3, <1>6, <1>7, <1>8, <1>9, TimesCrossed

LEMMA PowerOfPower ==
    ASSUME NEW b \in Nat, NEW m \in Nat, NEW n \in Nat
    PROVE  Repeated(Repeated(b, m), n) = Repeated(b, m * n)
<1> DEFINE Bad == {k \in Nat : Repeated(Repeated(b, m), k) # Repeated(b, m * k)}
<1> SUFFICES ASSUME Bad # {} PROVE FALSE
    OBVIOUS
<1>1. Bad \in SUBSET Nat
    OBVIOUS
<1> HIDE DEF Bad
<1>2. PICK k \in Bad : \A l \in Bad : k <= l
    BY <1>1, Smallest
<1>3. k \in Nat /\ Repeated(Repeated(b, m), k) # Repeated(b, m * k)
    BY <1>2 DEF Bad
<1>4. Repeated(b, m) \in Nat
    BY PowerType
<1>5. k # 0
  <2>1. m * 0 = 0 /\ Repeated(Repeated(b, m), 0) = 1 /\ Repeated(b, 0) = 1
    BY <1>4, RepeatedIs
  <2> QED BY <1>3, <2>1
<1>6. k - 1 \in Nat /\ k - 1 \notin Bad /\ (k - 1) + 1 = k
    BY <1>2, <1>3, <1>5
<1>7. Repeated(Repeated(b, m), k - 1) = Repeated(b, m * (k - 1))
    BY <1>6 DEF Bad
<1>8. Repeated(Repeated(b, m), (k - 1) + 1)
         = TimesMod(Repeated(Repeated(b, m), k - 1), Repeated(b, m))
    BY <1>4, <1>6, PowerStep
<1>9. m * (k - 1) \in Nat /\ m * k = m * (k - 1) + m
  <2>1. ASSUME NEW l \in Nat PROVE m * l \in Nat /\ m * (l + 1) = m * l + m
    OBVIOUS
  <2> QED BY <1>6, <2>1
<1>10. Repeated(b, m * (k - 1) + m) = TimesMod(Repeated(b, m * (k - 1)), Repeated(b, m))
    BY <1>9, PowerSum
<1> QED
    BY <1>3, <1>6, <1>7, <1>8, <1>9, <1>10

LEMMA PowerOfRest ==
    ASSUME NEW b \in Nat, NEW n \in Nat
    PROVE  Repeated(b % P, n) = Repeated(b, n)
<1>1. (b % P) % P = b % P
    BY Residue
<1> QED
    BY <1>1 DEF Repeated

\* Two of the same factor at a time.
LEMMA PowerOfSquare ==
    ASSUME NEW b \in Nat, NEW n \in Nat
    PROVE  Repeated(TimesMod(b, b), n) = Repeated(b, n + n)
<1>1. Repeated(TimesMod(b, b), n) = TimesMod(Repeated(b, n), Repeated(b, n))
    BY PowerOfProduct
<1>2. Repeated(b, n + n) = TimesMod(Repeated(b, n), Repeated(b, n))
    BY PowerSum
<1> QED
    BY <1>1, <1>2

----------------------------------------------------------------------------
(***************************************************************************)
(* Square and multiply.                                                    *)
(***************************************************************************)
LEMMA HalfOf ==
    ASSUME NEW e \in Nat, e # 0
    PROVE  /\ e \div 2 \in Nat /\ e \div 2 < e
           /\ e % 2 = 1 => e = (e \div 2 + e \div 2) + 1
           /\ e % 2 # 1 => e = e \div 2 + e \div 2
    OBVIOUS

\* The recursion of square and multiply holds of the powers.
LEMMA HalvesPower ==
    ASSUME NEW b \in Residues, NEW e \in Nat, e # 0
    PROVE  Repeated(b, e)
             = ((IF e % 2 = 1 THEN b ELSE 1) * Repeated((b * b) % P, e \div 2)) % P
<1> DEFINE h == e \div 2
<1>1. h \in Nat /\ (e % 2 = 1 => e = (h + h) + 1) /\ (e % 2 # 1 => e = h + h)
    BY HalfOf
<1> HIDE DEF h
<1>2. b \in Nat /\ h + h \in Nat
    BY <1>1, Residue
<1>3. Repeated(TimesMod(b, b), h) = Repeated(b, h + h)
    BY <1>1, <1>2, PowerOfSquare
<1>4. Repeated(b, (h + h) + 1) = TimesMod(Repeated(b, h + h), b)
    BY <1>2, PowerStep
<1>5. Repeated(b, h + h) \in Residues /\ Repeated(b, h + h) \in Nat
    BY <1>2, PowerType
<1>6. /\ TimesMod(Repeated(b, h + h), b) = TimesMod(b, Repeated(b, h + h))
      /\ TimesMod(1, Repeated(b, h + h)) = Repeated(b, h + h)
    BY <1>2, <1>5, TimesType, TimesOne
<1>7. CASE e % 2 = 1
  <2>1. Repeated(b, e) = TimesMod(b, Repeated(TimesMod(b, b), h))
    BY <1>1, <1>3, <1>4, <1>6, <1>7
  <2> QED BY <1>7, <2>1 DEF TimesMod, h
<1>8. CASE e % 2 # 1
  <2>1. Repeated(b, e) = TimesMod(1, Repeated(TimesMod(b, b), h))
    BY <1>1, <1>3, <1>6, <1>8
  <2> QED BY <1>8, <2>1 DEF TimesMod, h
<1> QED
    BY <1>7, <1>8

LEMMA PowIsThePower ==
    ASSUME NEW b \in Nat, NEW e \in Nat
    PROVE  Pow(b, e) = Repeated(b, e)
<1> DEFINE Is(f) == f = [n \in 0 .. e |-> [c \in 0 .. (P - 1) |->
                            IF n = 0 THEN 1
                            ELSE ((IF n % 2 = 1 THEN c ELSE 1) * f[n \div 2][(c * c) % P]) % P]]
           g == [n \in 0 .. e |-> [c \in 0 .. (P - 1) |-> Repeated(c, n)]]
<1>1. Is(g)
  <2>1. ASSUME NEW n \in 0 .. e, NEW c \in 0 .. (P - 1)
        PROVE  Repeated(c, n) = IF n = 0 THEN 1
                           ELSE ((IF n % 2 = 1 THEN c ELSE 1) * g[n \div 2][(c * c) % P]) % P
    <3>1. c \in Residues /\ c \in Nat /\ n \in Nat /\ c * c \in Nat
        BY Residue DEF Residues
    <3>2. CASE n = 0
        BY <3>1, <3>2, RepeatedIs
    <3>3. CASE n # 0
      <4>1. (c * c) % P \in 0 .. (P - 1) /\ n \div 2 \in 0 .. e
        BY <3>1, <3>3, Residue, HalfOf DEF Residues
      <4>2. g[n \div 2][(c * c) % P] = Repeated((c * c) % P, n \div 2)
        BY <4>1
      <4> QED BY <3>1, <3>3, <4>2, HalvesPower
    <3> QED BY <3>2, <3>3
  <2>2. g = [n \in 0 .. e |-> [c \in 0 .. (P - 1) |->
                IF n = 0 THEN 1
                ELSE ((IF n % 2 = 1 THEN c ELSE 1) * g[n \div 2][(c * c) % P]) % P]]
    <3>1. \A n \in 0 .. e : [c \in 0 .. (P - 1) |-> Repeated(c, n)]
              = [c \in 0 .. (P - 1) |-> IF n = 0 THEN 1
                    ELSE ((IF n % 2 = 1 THEN c ELSE 1) * g[n \div 2][(c * c) % P]) % P]
        BY <2>1
    <3> QED BY <3>1, Zenon
  <2> QED BY <2>2
<1> DEFINE from == CHOOSE f : Is(f)
<1>2. Is(from)
    BY <1>1
<1>3. Pow(b, e) = from[e][b % P]
    BY DEF Pow, ModPow
<1> HIDE DEF from, g
<1>4. ASSUME NEW n \in 0 .. e, NEW c \in Residues
      PROVE  from[n][c] = IF n = 0 THEN 1
                     ELSE ((IF n % 2 = 1 THEN c ELSE 1) * from[n \div 2][(c * c) % P]) % P
  <2>1. from[n] = [d \in 0 .. (P - 1) |->
                            IF n = 0 THEN 1
                            ELSE ((IF n % 2 = 1 THEN d ELSE 1)
                                     * from[n \div 2][(d * d) % P]) % P]
    BY <1>2
  <2> QED BY <2>1 DEF Residues
<1> DEFINE Bad == {n \in 0 .. e : \E c \in Residues : from[n][c] # Repeated(c, n)}
<1>5. Bad = {}
  <2> SUFFICES ASSUME Bad # {} PROVE FALSE
    OBVIOUS
  <2>1. Bad \in SUBSET Nat
    OBVIOUS
  <2> HIDE DEF Bad
  <2>2. PICK n \in Bad : \A k \in Bad : n <= k
    BY <2>1, Smallest
  <2>3. n \in 0 .. e /\ n \in Nat /\ \E c \in Residues : from[n][c] # Repeated(c, n)
    BY <2>2 DEF Bad
  <2>4. PICK c \in Residues : from[n][c] # Repeated(c, n)
    BY <2>3
  <2>5. c \in Nat
    BY Residue
  <2>6. from[n][c] = IF n = 0 THEN 1
                     ELSE ((IF n % 2 = 1 THEN c ELSE 1) * from[n \div 2][(c * c) % P]) % P
    BY <1>4, <2>3
  <2>7. n # 0
    BY <2>4, <2>5, <2>6, RepeatedIs
  <2>8. (c * c) % P \in Residues /\ n \div 2 \in 0 .. e /\ n \div 2 < n
    <3>1. c * c \in Nat
        BY <2>5
    <3>2. n \div 2 \in Nat /\ n \div 2 < n
        BY <2>3, <2>7, HalfOf
    <3>3. n \div 2 \in 0 .. e
        BY <2>3, <3>2
    <3> QED BY <3>1, <3>2, <3>3, Residue
  <2>9. n \div 2 \notin Bad
    BY <2>2, <2>3, <2>8
  <2>10. from[n \div 2][(c * c) % P] = Repeated((c * c) % P, n \div 2)
    BY <2>8, <2>9 DEF Bad
  <2>11. Repeated(c, n)
           = ((IF n % 2 = 1 THEN c ELSE 1) * Repeated((c * c) % P, n \div 2)) % P
    BY <2>3, <2>7, HalvesPower
  <2> QED BY <2>4, <2>6, <2>7, <2>10, <2>11
<1>6. b % P \in Residues /\ e \in 0 .. e
    BY Residue
<1>7. from[e][b % P] = Repeated(b % P, e)
    BY <1>5, <1>6
<1> QED
    BY <1>3, <1>7, PowerOfRest

LEMMA PowerOfOne ==
    ASSUME NEW n \in Nat
    PROVE  Repeated(1, n) = 1
<1> DEFINE Bad == {m \in Nat : Repeated(1, m) # 1}
<1> SUFFICES ASSUME Bad # {} PROVE FALSE
    OBVIOUS
<1>1. Bad \in SUBSET Nat
    OBVIOUS
<1> HIDE DEF Bad
<1>2. PICK m \in Bad : \A k \in Bad : m <= k
    BY <1>1, Smallest
<1>3. m \in Nat /\ Repeated(1, m) # 1
    BY <1>2 DEF Bad
<1>4. 1 \in Nat /\ 1 \in Residues
    BY Residue
<1>5. m # 0
    BY <1>3, <1>4, RepeatedIs
<1>6. m - 1 \in Nat /\ m - 1 \notin Bad /\ (m - 1) + 1 = m
    BY <1>2, <1>3, <1>5
<1>7. Repeated(1, m - 1) = 1
    BY <1>6 DEF Bad
<1>8. Repeated(1, (m - 1) + 1) = TimesMod(Repeated(1, m - 1), 1)
    BY <1>4, <1>6, PowerStep
<1> QED
    BY <1>3, <1>4, <1>6, <1>7, <1>8, TimesOne

\* Something is done again and again.
LEMMA Iterated ==
    \A x \in Nat : \A step \in [Nat -> [Nat -> Nat]] : \A n \in Nat : \E f \in [0 .. n -> Nat] :
       f[0] = x /\ \A w \in 1 .. n : f[w] = step[w][f[w - 1]]
<1> SUFFICES ASSUME NEW x \in Nat, NEW step \in [Nat -> [Nat -> Nat]], NEW n \in Nat
             PROVE  \E f \in [0 .. n -> Nat] :
                       f[0] = x /\ \A w \in 1 .. n : f[w] = step[w][f[w - 1]]
    BY Zenon
<1> DEFINE Is(f, m) == f \in [0 .. m -> Nat]
                         /\ f[0] = x /\ \A w \in 1 .. m : f[w] = step[w][f[w - 1]]
           Bad == {m \in Nat : ~\E f : Is(f, m)}
<1>1. Bad \in SUBSET Nat
    OBVIOUS
<1> HIDE DEF Bad
<1>2. ASSUME Bad # {} PROVE FALSE
  <2>1. PICK m \in Bad : \A k \in Bad : m <= k
    BY <1>1, <1>2, Smallest
  <2>2. m \in Nat /\ ~\E f : Is(f, m)
    BY <2>1 DEF Bad
  <2>3. CASE m = 0
    <3>1. Is([w \in 0 .. 0 |-> x], 0)
      OBVIOUS
    <3> QED BY <2>2, <2>3, <3>1
  <2>4. CASE m # 0
    <3>1. m - 1 \in Nat /\ m - 1 \notin Bad /\ m - 1 \in 0 .. m - 1
      BY <2>1, <2>2, <2>4
    <3>2. PICK f : Is(f, m - 1)
      BY <3>1 DEF Bad
    <3> DEFINE g == [w \in 0 .. m |-> IF w = m THEN step[m][f[m - 1]] ELSE f[w]]
    <3>3. f \in [0 .. m - 1 -> Nat] /\ f[0] = x
      BY <3>2
    <3>4. \A w \in 1 .. m - 1 : f[w] = step[w][f[w - 1]]
      BY <3>2
    <3>5. step[m][f[m - 1]] \in Nat
      BY <2>2, <3>1, <3>3
    <3>6. g \in [0 .. m -> Nat]
      <4>1. \A w \in 0 .. m : w # m => w \in 0 .. m - 1
        BY <2>2
      <4>2. \A w \in 0 .. m : (IF w = m THEN step[m][f[m - 1]] ELSE f[w]) \in Nat
        BY <3>3, <3>5, <4>1
      <4> HIDE DEF Is
      <4> QED BY <4>2
    <3>7. ASSUME NEW w \in 1 .. m PROVE g[w] = step[w][g[w - 1]]
      <4>1. w - 1 \in 0 .. m /\ w - 1 # m /\ w \in 0 .. m
        BY <2>2
      <4>2. g[w - 1] = f[w - 1]
        BY <4>1
      <4>3. CASE w = m
        BY <4>1, <4>2, <4>3
      <4>4. CASE w # m
        <5>1. w \in 1 .. m - 1
          BY <2>2, <4>4
        <5> QED BY <3>4, <4>1, <4>2, <4>4, <5>1
      <4> QED BY <4>3, <4>4
    <3>8. g[0] = x
      BY <2>2, <2>4, <3>3
    <3>9. Is(g, m)
      BY <3>6, <3>7, <3>8
    <3> QED BY <2>2, <3>9
  <2> QED BY <2>3, <2>4
<1>3. n \notin Bad
    BY <1>2
<1>4. PICK f : Is(f, n)
    BY <1>3 DEF Bad
<1> QED
    BY <1>4

----------------------------------------------------------------------------
(***************************************************************************)
(* The subgroup: what raised to Q is 1.                                    *)
(***************************************************************************)
OfOrder(v) == v \in Residues /\ Repeated(v, Q) = 1

LEMMA Order ==
    /\ Q \in Nat /\ Q >= 3 /\ P = 2 * Q + 1 /\ Q - 1 \in Nat /\ (Q - 1) + 1 = Q
    /\ OfOrder(G) /\ OfOrder(G_INVERSE) /\ TimesMod(G, G_INVERSE) = 1
    /\ G \in Nat /\ G_INVERSE \in Nat
<1>1. Q \in Nat /\ Q >= 3 /\ P = 2 * Q + 1 /\ Q - 1 \in Nat /\ (Q - 1) + 1 = Q
    BY GroupAssumption DEF Q
<1>2. G \in Residues /\ G \in Nat
    BY Residue DEF G, Residues
<1>3. Repeated(G, Q) = 1
    BY <1>1, <1>2, PowIsThePower, OrderAssumption
<1>4. PICK k \in Nat : P = 4 * k + 3
  <2>1. P % 4 = 3 /\ P \in Nat
    BY GroupAssumption
  <2>2. P = 4 * (P \div 4) + 3 /\ P \div 4 \in Nat
    BY <2>1, RestOf
  <2> QED BY <2>2
<1>5. G_INVERSE = k + 1 /\ G_INVERSE \in Nat /\ G_INVERSE \in Residues
  <2>1. (P + 1) \div 4 = k + 1
    BY <1>4
  <2> QED BY <1>4, <2>1 DEF G_INVERSE, Residues
<1>6. TimesMod(G, G_INVERSE) = 1
  <2>1. G * G_INVERSE = P * 1 + 1 /\ 1 \in 0 .. P - 1
    BY <1>4, <1>5, Residue DEF G
  <2> QED BY <2>1, RestIs, Residue DEF TimesMod
<1>7. Repeated(G_INVERSE, Q) = 1
  <2>1. Repeated(TimesMod(G, G_INVERSE), Q) = TimesMod(Repeated(G, Q), Repeated(G_INVERSE, Q))
    BY <1>1, <1>2, <1>5, PowerOfProduct
  <2>2. Repeated(1, Q) = 1
    BY <1>1, PowerOfOne
  <2>3. Repeated(G_INVERSE, Q) \in Residues
    BY <1>1, <1>5, PowerType
  <2> QED BY <1>3, <1>6, <2>1, <2>2, <2>3, TimesOne
<1> QED
    BY <1>1, <1>2, <1>3, <1>5, <1>6, <1>7 DEF OfOrder

LEMMA DrawnAre ==
    /\ Drawn \subseteq Nat /\ Scalars \subseteq Nat
    /\ \A m \in Drawn : m \in 0 .. Q /\ Q - m \in Nat
    /\ \A m \in Scalars : m \in 0 .. Q /\ Q - m \in Nat
    BY Order DEF Drawn, Scalars

LEMMA OrderOfProduct ==
    ASSUME NEW a, NEW b, OfOrder(a), OfOrder(b)
    PROVE  OfOrder(TimesMod(a, b)) /\ TimesMod(a, b) \in Nat
<1>1. a \in Nat /\ b \in Nat /\ Q \in Nat
    BY Order, Residue DEF OfOrder
<1>2. Repeated(TimesMod(a, b), Q) = TimesMod(Repeated(a, Q), Repeated(b, Q))
    BY <1>1, PowerOfProduct
<1>3. TimesMod(1, 1) = 1
    BY Residue, TimesOne
<1> QED
    BY <1>1, <1>2, <1>3, TimesType DEF OfOrder

LEMMA OrderOfPower ==
    ASSUME NEW a, OfOrder(a), NEW n \in Nat
    PROVE  OfOrder(Repeated(a, n)) /\ Repeated(a, n) \in Nat
<1>1. a \in Nat /\ Q \in Nat
    BY Order, Residue DEF OfOrder
<1>2. n * Q = Q * n
    BY <1>1
<1>3. Repeated(Repeated(a, n), Q) = Repeated(a, n * Q)
    BY <1>1, PowerOfPower
<1>4. Repeated(Repeated(a, Q), n) = Repeated(a, Q * n)
    BY <1>1, PowerOfPower
<1>5. Repeated(Repeated(a, Q), n) = 1
    BY PowerOfOne DEF OfOrder
<1> QED
    BY <1>1, <1>2, <1>3, <1>4, <1>5, PowerType DEF OfOrder

\* Exponents count modulo Q.
LEMMA OrderRest ==
    ASSUME NEW a, OfOrder(a), NEW n \in Nat
    PROVE  Repeated(a, n % Q) = Repeated(a, n) /\ n % Q \in Nat
<1>1. a \in Nat /\ Q \in Nat \ {0}
    BY Order, Residue DEF OfOrder
<1> DEFINE d == n \div Q
           r == n % Q
<1>2. d \in Nat /\ r \in Nat /\ n = Q * d + r
    BY <1>1, RestOf
<1> HIDE DEF d, r
<1>3. Q * d \in Nat
    BY <1>1, <1>2
<1>4. Repeated(a, Q * d + r) = TimesMod(Repeated(a, Q * d), Repeated(a, r))
    BY <1>1, <1>2, <1>3, PowerSum
<1>5. Repeated(a, Q * d) = 1
  <2>1. Repeated(Repeated(a, Q), d) = Repeated(a, Q * d)
    BY <1>1, <1>2, PowerOfPower
  <2> QED BY <1>2, <2>1, PowerOfOne DEF OfOrder
<1>6. Repeated(a, r) \in Residues
    BY <1>1, <1>2, PowerType
<1> QED
    BY <1>2, <1>4, <1>5, <1>6, TimesOne DEF r

\* What is multiplied with the rest of the order is taken back.
LEMMA OrderBack ==
    ASSUME NEW a, OfOrder(a), NEW m \in 0 .. Q, NEW v \in Residues
    PROVE  TimesMod(TimesMod(v, Repeated(a, Q - m)), Repeated(a, m)) = v
<1>1. a \in Nat /\ m \in Nat /\ Q - m \in Nat /\ (Q - m) + m = Q /\ v \in Nat
    BY Order, Residue DEF OfOrder
<1>2. Repeated(a, (Q - m) + m) = TimesMod(Repeated(a, Q - m), Repeated(a, m))
    BY <1>1, PowerSum
<1>3. Repeated(a, Q - m) \in Nat /\ Repeated(a, m) \in Nat
    BY <1>1, PowerType
<1>4. TimesMod(TimesMod(v, Repeated(a, Q - m)), Repeated(a, m))
        = TimesMod(v, TimesMod(Repeated(a, Q - m), Repeated(a, m)))
    BY <1>1, <1>3, TimesTogether
<1> QED
    BY <1>1, <1>2, <1>4, TimesOne DEF OfOrder

\* An answer of a proof: the commitment times the power of the challenge.
LEMMA OrderAnswer ==
    ASSUME NEW a, OfOrder(a), NEW w \in Nat, NEW h \in Nat, NEW n \in Nat
    PROVE  /\ (w + h * n) % Q \in Nat
           /\ Repeated(a, (w + h * n) % Q)
                 = TimesMod(Repeated(a, w), Repeated(Repeated(a, n), h))
<1>1. a \in Nat /\ h * n = n * h /\ n * h \in Nat /\ w + h * n \in Nat
    BY Residue DEF OfOrder
<1>2. Repeated(a, w + n * h) = TimesMod(Repeated(a, w), Repeated(a, n * h))
    BY <1>1, PowerSum
<1>3. Repeated(Repeated(a, n), h) = Repeated(a, n * h)
    BY <1>1, PowerOfPower
<1>4. Repeated(a, (w + h * n) % Q) = Repeated(a, w + h * n) /\ (w + h * n) % Q \in Nat
    BY <1>1, OrderRest
<1> QED
    BY <1>1, <1>2, <1>3, <1>4

\* Powers of one base change places.
LEMMA PowersChange ==
    ASSUME NEW a \in Nat, NEW m \in Nat, NEW n \in Nat
    PROVE  Repeated(Repeated(a, m), n) = Repeated(Repeated(a, n), m)
<1>1. m * n = n * m
    OBVIOUS
<1> QED
    BY <1>1, PowerOfPower

----------------------------------------------------------------------------
(***************************************************************************)
(* Q is a prime: what is not 0 has an inverse.                             *)
(***************************************************************************)
LEMMA HasInverse ==
    ASSUME NEW d \in Nat \ {0}, d < Q
    PROVE  \E k \in Nat : \E m \in Nat : d * k = 1 + Q * m
<1> DEFINE Reached == {v \in 1 .. Q - 1 : \E k \in Nat : \E m \in Nat : d * k = v + Q * m}
<1>1. Q \in Nat \ {0} /\ Q >= 3 /\ d \in Nat
    BY Order
<1>2. d \in Reached
  <2>1. d * 1 = d + Q * 0 /\ 1 \in Nat /\ 0 \in Nat
    BY <1>1
  <2>2. d \in 1 .. Q - 1
    BY <1>1
  <2>3. \E k \in Nat : \E m \in Nat : d * k = d + Q * m
    BY <2>1, Zenon
  <2> QED BY <2>2, <2>3
<1>3. Reached \in SUBSET Nat
    OBVIOUS
<1> HIDE DEF Reached
<1>4. PICK g \in Reached : \A v \in Reached : g <= v
    BY <1>2, <1>3, Smallest
<1>5. PICK k \in Nat : \E m \in Nat : d * k = g + Q * m
    BY <1>4 DEF Reached
<1>5a. PICK m \in Nat : d * k = g + Q * m
    BY <1>5
<1>6. g \in 1 .. Q - 1 /\ g \in Nat \ {0}
    BY <1>4 DEF Reached
<1>7. g = 1
  <2> SUFFICES ASSUME g # 1 PROVE FALSE
    OBVIOUS
  <2>1. Q % g # 0
    BY <1>1, <1>6, OrderAssumption
  <2> DEFINE q == Q \div g
             r == Q % g
  <2>2. q \in Nat /\ r \in 0 .. g - 1 /\ Q = g * q + r
    BY <1>1, <1>6, RestOf
  <2>3. r # 0
    BY <2>1
  <2> HIDE DEF q, r
  <2>4. r \in 1 .. Q - 1 /\ r \in Nat
    BY <1>1, <1>6, <2>2, <2>3
  <2>5. r \in Reached
    \* r = Q - g q, and -1 counts as Q - 1.
    <3> DEFINE k2 == k * (q * (Q - 1))
    <3>1. Q - 1 \in Nat /\ q * (Q - 1) \in Nat /\ k2 \in Nat
        BY <1>1, <2>2
    <3>2. d * k2 = (g + Q * m) * (q * (Q - 1))
      <4>1. d * k2 = (d * k) * (q * (Q - 1))
        BY <1>1, <3>1
      <4> QED BY <1>5a, <4>1
    <3>3. (g + Q * m) * (q * (Q - 1)) = g * q * (Q - 1) + Q * (m * (q * (Q - 1)))
        BY <1>1, <1>6, <2>2
    <3>4. g * q * (Q - 1) = (Q - r) * (Q - 1)
      <4>1. g * q = Q - r
        BY <1>1, <1>6, <2>2, <2>4
      <4> QED BY <4>1
    <3>5. (Q - r) * (Q - 1) = r + Q * (Q - 1 - r)
        BY <1>1, <2>4
    <3> DEFINE m2 == (Q - 1 - r) + m * (q * (Q - 1))
    <3>6. m2 \in Nat
      <4>1. Q - 1 - r \in Nat
        BY <1>1, <2>4
      <4>2. m * (q * (Q - 1)) \in Nat
        BY <3>1
      <4> QED BY <4>1, <4>2
    <3>7. d * k2 = r + Q * m2
      <4> DEFINE u == m * (q * (Q - 1))
                 w == Q - 1 - r
      <4>1. u \in Nat /\ w \in Nat
        BY <1>1, <2>4, <3>1
      <4>2. d * k2 = (r + Q * w) + Q * u
        BY <3>2, <3>3, <3>4, <3>5
      <4> HIDE DEF u, w
      <4>3. (r + Q * w) + Q * u = r + Q * (w + u)
        BY <1>1, <2>4, <4>1
      <4> QED BY <4>2, <4>3 DEF u, w
    <3> HIDE DEF k2, m2
    <3> QED BY <2>4, <3>1, <3>6, <3>7 DEF Reached
  <2> QED BY <1>4, <1>6, <2>2, <2>4, <2>5
<1>8. d * k = 1 + Q * m
    BY <1>5a, <1>7
<1> QED
    BY <1>8

LEMMA Cancel ==
    ASSUME NEW a, OfOrder(a), NEW u \in Residues, NEW v \in Residues,
           TimesMod(a, u) = TimesMod(a, v)
    PROVE  u = v
<1> DEFINE b == Repeated(a, Q - 1)
<1>1. a \in Nat /\ a \in Residues /\ u \in Nat /\ v \in Nat
    BY Residue DEF OfOrder
<1>2. TimesMod(b, a) = 1 /\ b \in Nat
  <2>1. Repeated(a, (Q - 1) + 1) = TimesMod(Repeated(a, Q - 1), a) /\ b \in Nat
    BY <1>1, Order, PowerStep, PowerType
  <2> QED BY <2>1, Order DEF OfOrder
<1> HIDE DEF b
<1>3. /\ TimesMod(TimesMod(b, a), u) = TimesMod(b, TimesMod(a, u))
      /\ TimesMod(TimesMod(b, a), v) = TimesMod(b, TimesMod(a, v))
    BY <1>1, <1>2, TimesTogether
<1>4. TimesMod(1, u) = u /\ TimesMod(1, v) = v
    BY TimesOne
<1> QED
    BY <1>2, <1>3, <1>4

\* A factor of something of the order is of the order, when the other factor is.
LEMMA FactorOfOrder ==
    ASSUME NEW a \in Residues, NEW v, OfOrder(v), NEW e \in 0 .. Q,
           OfOrder(TimesMod(a, Repeated(v, e)))
    PROVE  OfOrder(a)
<1>1. e \in Nat /\ Q - e \in Nat /\ e + (Q - e) = Q /\ v \in Nat /\ a \in Nat
    BY Order, Residue DEF OfOrder
<1>2. OfOrder(Repeated(v, Q - e)) /\ Repeated(v, Q - e) \in Nat /\ Repeated(v, e) \in Nat
    BY <1>1, OrderOfPower
<1>3. TimesMod(TimesMod(a, Repeated(v, e)), Repeated(v, Q - e)) = a
  <2>1. TimesMod(TimesMod(a, Repeated(v, e)), Repeated(v, Q - e))
          = TimesMod(a, TimesMod(Repeated(v, e), Repeated(v, Q - e)))
    BY <1>1, <1>2, TimesTogether
  <2>2. Repeated(v, e + (Q - e)) = TimesMod(Repeated(v, e), Repeated(v, Q - e))
    BY <1>1, PowerSum
  <2> QED BY <1>1, <2>1, <2>2, TimesOne DEF OfOrder
<1> QED
    BY <1>2, <1>3, OrderOfProduct

\* Roots are unique.
LEMMA SameRoot ==
    ASSUME NEW u, NEW v, OfOrder(u), OfOrder(v), NEW d \in Nat \ {0}, d < Q,
           Repeated(u, d) = Repeated(v, d)
    PROVE  u = v
<1>1. PICK k \in Nat : \E m \in Nat : d * k = 1 + Q * m
    BY HasInverse
<1>2. PICK m \in Nat : d * k = 1 + Q * m
    BY <1>1
<1>3. ASSUME NEW a, OfOrder(a) PROVE Repeated(Repeated(a, d), k) = a
  <2>1. a \in Nat /\ a \in Residues /\ Q \in Nat /\ Q * m \in Nat /\ 1 \in Nat
    BY <1>3, Order, Residue DEF OfOrder
  <2>2. Repeated(Repeated(a, d), k) = Repeated(a, d * k)
    BY <2>1, PowerOfPower
  <2>3. Repeated(a, 1 + Q * m) = TimesMod(Repeated(a, 1), Repeated(a, Q * m))
    BY <2>1, PowerSum
  <2>4. Repeated(Repeated(a, Q), m) = Repeated(a, Q * m)
    BY <2>1, PowerOfPower
  <2>5. Repeated(a, Q * m) = 1
    BY <1>3, <2>4, PowerOfOne DEF OfOrder
  <2>6. Repeated(a, 1) = a
    BY <2>1, PowerOne
  <2> QED BY <1>2, <2>1, <2>2, <2>3, <2>5, <2>6, TimesOne
<1>4. Repeated(Repeated(u, d), k) = u /\ Repeated(Repeated(v, d), k) = v
    BY <1>3
<1> QED
    BY <1>4

LEMMA SameFromTwo ==
    ASSUME NEW y, NEW t, OfOrder(y), OfOrder(t),
           NEW e1 \in Scalars, NEW e2 \in Scalars, e1 > e2,
           TimesMod(Repeated(y, e1), Repeated(t, e2))
              = TimesMod(Repeated(t, e1), Repeated(y, e2))
    PROVE  t = y
<1> DEFINE d == e1 - e2
<1>1. d \in Nat \ {0} /\ d < Q /\ e2 \in Nat /\ e1 = e2 + d /\ d \in Nat
    BY Order DEF Scalars
<1> HIDE DEF d
<1>2. y \in Nat /\ t \in Nat
    BY Residue DEF OfOrder
<1>3. /\ Repeated(y, e1) = TimesMod(Repeated(y, e2), Repeated(y, d))
      /\ Repeated(t, e1) = TimesMod(Repeated(t, e2), Repeated(t, d))
  <2>1. \A a \in Nat : Repeated(a, e2 + d) = TimesMod(Repeated(a, e2), Repeated(a, d))
    BY <1>1, PowerSum
  <2> QED BY <1>1, <1>2, <2>1
<1> DEFINE y2 == Repeated(y, e2)
           t2 == Repeated(t, e2)
           yd == Repeated(y, d)
           td == Repeated(t, d)
<1>4. /\ OfOrder(y2) /\ OfOrder(t2) /\ OfOrder(yd) /\ OfOrder(td)
      /\ y2 \in Nat /\ t2 \in Nat /\ yd \in Nat /\ td \in Nat
    BY <1>1, OrderOfPower
<1>5. TimesMod(TimesMod(y2, yd), t2) = TimesMod(TimesMod(t2, td), y2)
    BY <1>3
<1> HIDE DEF y2, t2, yd, td
<1>6. OfOrder(TimesMod(y2, t2)) /\ TimesMod(y2, t2) \in Nat
    BY <1>4, OrderOfProduct
<1>7. TimesMod(TimesMod(y2, yd), t2) = TimesMod(TimesMod(y2, t2), yd)
  <2>1. TimesMod(yd, t2) = TimesMod(t2, yd)
    BY <1>4, TimesType
  <2> QED BY <1>4, <2>1, TimesTogether
<1>8. TimesMod(TimesMod(t2, td), y2) = TimesMod(TimesMod(y2, t2), td)
  <2>1. TimesMod(TimesMod(t2, td), y2) = TimesMod(y2, TimesMod(t2, td))
    BY <1>4, TimesType
  <2> QED BY <1>4, <2>1, TimesTogether
<1>9. yd = td
  <2>1. yd \in Residues /\ td \in Residues
    BY <1>4 DEF OfOrder
  <2>2. TimesMod(TimesMod(y2, t2), yd) = TimesMod(TimesMod(y2, t2), td)
    BY <1>5, <1>7, <1>8
  <2> QED BY <1>6, <2>1, <2>2, Cancel
<1> QED
    BY <1>1, <1>9, SameRoot DEF yd, td
----------------------------------------------------------------------------
(***************************************************************************)
(* Loops over numbers.                                                     *)
(***************************************************************************)
\* Induction over a set of numbers.
LEMMA Climb ==
    ASSUME NEW S \in SUBSET Nat, 0 \in S, \A n \in S : n + 1 \in S
    PROVE  \A n \in Nat : n \in S
<1> SUFFICES ASSUME Nat \ S # {} PROVE FALSE
    OBVIOUS
<1>1. Nat \ S \in SUBSET Nat
    OBVIOUS
<1>2. PICK n \in Nat \ S : \A k \in Nat \ S : n <= k
    BY <1>1, Smallest
<1>3. n # 0 /\ n - 1 \in Nat /\ ~(n <= n - 1) /\ (n - 1) + 1 = n
    BY <1>2
<1>4. n - 1 \in S
    BY <1>2, <1>3
<1> QED
    BY <1>2, <1>3, <1>4

\* Induction up to a number.
LEMMA ClimbTo ==
    ASSUME NEW n \in Nat, NEW S \in SUBSET Nat, 0 \in S,
           \A m \in Nat : m < n /\ m \in S => m + 1 \in S
    PROVE  n \in S
<1> DEFINE T == {m \in Nat : m <= n => m \in S}
<1>1. T \in SUBSET Nat /\ 0 \in T
    OBVIOUS
<1>2. ASSUME NEW m \in T PROVE m + 1 \in T
    OBVIOUS
<1> HIDE DEF T
<1>3. n \in T
    BY <1>1, <1>2, Climb
<1> QED
    BY <1>3 DEF T

\* f is the numbers a loop goes through in n rounds.
Loops(f, x, step, n) ==
    f \in [0 .. n -> Nat] /\ f[0] = x /\ \A k \in 1 .. n : f[k] = step[k][f[k - 1]]

Looped(x, step, n) == (CHOOSE f : Loops(f, x, step, n))[n]

LEMMA LoopsAlike ==
    ASSUME NEW x, NEW step, NEW m \in Nat, NEW n \in Nat, m <= n,
           NEW f, NEW g, Loops(f, x, step, m), Loops(g, x, step, n)
    PROVE  f[m] = g[m]
<1> DEFINE S == {k \in Nat : k <= m => f[k] = g[k]}
<1>1. 0 \in S
    BY DEF Loops
<1>2. ASSUME NEW k \in S PROVE k + 1 \in S
  <2>1. k \in Nat /\ k + 1 \in Nat /\ (k + 1) - 1 = k
    OBVIOUS
  <2>2. CASE k + 1 <= m
    <3>1. k + 1 \in 1 .. m /\ k + 1 \in 1 .. n /\ k <= m
      BY <2>1, <2>2
    <3>2. f[k + 1] = step[k + 1][f[k]] /\ g[k + 1] = step[k + 1][g[k]]
      BY <2>1, <3>1 DEF Loops
    <3> QED BY <2>1, <3>1, <3>2
  <2> QED BY <2>1, <2>2
<1> HIDE DEF S
<1>3. m \in S
    BY <1>1, <1>2, Climb DEF S
<1> QED
    BY <1>3 DEF S

LEMMA LoopedIs ==
    ASSUME NEW x \in Nat, NEW step \in [Nat -> [Nat -> Nat]], NEW n \in Nat
    PROVE  /\ Looped(x, step, 0) = x
           /\ Looped(x, step, n) \in Nat
           /\ Looped(x, step, n + 1) = step[n + 1][Looped(x, step, n)]
<1> DEFINE f(m) == CHOOSE g : Loops(g, x, step, m)
<1>1. ASSUME NEW m \in Nat PROVE Loops(f(m), x, step, m) /\ Looped(x, step, m) = f(m)[m]
  <2>1. \E g : Loops(g, x, step, m)
    <3>1. \A st \in [Nat -> [Nat -> Nat]] : \A k \in Nat : \E g \in [0 .. k -> Nat] :
             g[0] = x /\ \A w \in 1 .. k : g[w] = st[w][g[w - 1]]
      BY Iterated, Zenon
    <3>2. \A k \in Nat : \E g \in [0 .. k -> Nat] :
             g[0] = x /\ \A w \in 1 .. k : g[w] = step[w][g[w - 1]]
      BY <3>1, Zenon
    <3>3. \E g \in [0 .. m -> Nat] : g[0] = x /\ \A w \in 1 .. m : g[w] = step[w][g[w - 1]]
      BY <3>2, Zenon
    <3> QED BY <3>3 DEF Loops
  <2> QED BY <2>1 DEF Looped
<1> HIDE DEF f
<1>2. Looped(x, step, 0) = x
    BY <1>1 DEF Loops
<1>3. Looped(x, step, n) \in Nat
  <2>1. f(n) \in [0 .. n -> Nat] /\ n \in 0 .. n
    BY <1>1 DEF Loops
  <2> QED BY <1>1, <2>1
<1>4. n + 1 \in Nat /\ n + 1 \in 1 .. n + 1 /\ (n + 1) - 1 = n /\ n <= n + 1
    OBVIOUS
<1>5. Loops(f(n), x, step, n) /\ Loops(f(n + 1), x, step, n + 1)
    BY <1>1, <1>4
<1>6. f(n)[n] = f(n + 1)[n]
    BY <1>4, <1>5, LoopsAlike
<1>7. f(n + 1)[n + 1] = step[n + 1][f(n + 1)[n]]
    BY <1>4, <1>5 DEF Loops
<1> QED
    BY <1>1, <1>2, <1>3, <1>4, <1>6, <1>7

----------------------------------------------------------------------------
(***************************************************************************)
(* Sums and products, of which the order does not matter.                  *)
(***************************************************************************)
\* Written so, the provers do not look into it.
Numbers(f) == f \in [Nat -> Nat]

LEMMA NumberAt ==
    ASSUME NEW f, Numbers(f), NEW n \in Nat
    PROVE  f[n] \in Nat
    BY DEF Numbers

Monoid(op, e) ==
    /\ op \in [Nat -> [Nat -> Nat]] /\ e \in Nat
    /\ \A a \in Nat : op[a][e] = a
    /\ \A a \in Nat, b \in Nat : op[a][b] = op[b][a]
    /\ \A a \in Nat, b \in Nat, c \in Nat : op[op[a][b]][c] = op[a][op[b][c]]

LEMMA Either ==
    ASSUME NEW op, NEW e, Monoid(op, e), NEW a \in Nat, NEW b \in Nat
    PROVE  op[a][b] = op[b][a]
    BY DEF Monoid

LEMMA Together ==
    ASSUME NEW op, NEW e, Monoid(op, e), NEW a \in Nat, NEW b \in Nat, NEW c \in Nat
    PROVE  op[op[a][b]][c] = op[a][op[b][c]]
    BY DEF Monoid

Folded(op, e, h, n) == Looped(e, [k \in Nat |-> [v \in Nat |-> op[v][h[k]]]], n)

LEMMA FoldedIs ==
    ASSUME NEW op, NEW e, Monoid(op, e), NEW h, Numbers(h), NEW n \in Nat
    PROVE  /\ Folded(op, e, h, 0) = e
           /\ Folded(op, e, h, n) \in Nat
           /\ Folded(op, e, h, n + 1) = op[Folded(op, e, h, n)][h[n + 1]]
<1> DEFINE step == [k \in Nat |-> [v \in Nat |-> op[v][h[k]]]]
<1>1. op \in [Nat -> [Nat -> Nat]] /\ e \in Nat
    BY DEF Monoid
<1>2. step \in [Nat -> [Nat -> Nat]]
  <2>1. \A k \in Nat : h[k] \in Nat
    BY NumberAt
  <2>2. \A k \in Nat, v \in Nat : op[v][h[k]] \in Nat
    BY <1>1, <2>1
  <2> QED BY <2>2
<1>3. \A k \in Nat, v \in Nat : step[k][v] = op[v][h[k]]
    OBVIOUS
<1>4. \A m : Folded(op, e, h, m) = Looped(e, step, m)
    BY DEF Folded
<1> HIDE DEF step
<1>5. /\ Looped(e, step, 0) = e
      /\ Looped(e, step, n) \in Nat
      /\ Looped(e, step, n + 1) = step[n + 1][Looped(e, step, n)]
    BY <1>1, <1>2, LoopedIs
<1>6. n + 1 \in Nat
    OBVIOUS
<1>7. step[n + 1][Looped(e, step, n)] = op[Looped(e, step, n)][h[n + 1]]
    BY <1>3, <1>5, <1>6
<1> QED
    BY <1>4, <1>5, <1>7

LEMMA FoldedFrom ==
    ASSUME NEW op, NEW e, Monoid(op, e), NEW h, Numbers(h)
    PROVE  Folded(op, e, h, 0) = e
<1>1. 0 \in Nat
    OBVIOUS
<1> QED
    BY <1>1, FoldedIs

LEMMA FoldedType ==
    ASSUME NEW op, NEW e, Monoid(op, e), NEW h, Numbers(h), NEW n \in Nat
    PROVE  Folded(op, e, h, n) \in Nat
    BY FoldedIs

LEMMA FoldedStep ==
    ASSUME NEW op, NEW e, Monoid(op, e), NEW h, Numbers(h),
           NEW n \in Nat, NEW m \in Nat, m = n + 1
    PROVE  Folded(op, e, h, m) = op[Folded(op, e, h, n)][h[m]]
    BY FoldedIs

LEMMA FoldedSame ==
    ASSUME NEW op, NEW e, Monoid(op, e), NEW g, Numbers(g), NEW h, Numbers(h),
           NEW n \in Nat, \A k \in 1 .. n : g[k] = h[k]
    PROVE  Folded(op, e, g, n) = Folded(op, e, h, n)
<1> DEFINE A(m) == Folded(op, e, g, m)
           B(m) == Folded(op, e, h, m)
           S == {m \in Nat : A(m) = B(m)}
<1>1. A(0) = e
    BY FoldedFrom
<1>2. B(0) = e
    BY FoldedFrom
<1>3. ASSUME NEW m \in Nat, m < n, A(m) = B(m) PROVE A(m + 1) = B(m + 1)
  <2>1. g[m + 1] = h[m + 1]
    BY <1>3
  <2>2. A(m + 1) = op[A(m)][g[m + 1]]
    BY FoldedStep
  <2>3. B(m + 1) = op[B(m)][h[m + 1]]
    BY FoldedStep
  <2> QED BY <1>3, <2>1, <2>2, <2>3
<1> HIDE DEF A, B
<1>4. S \in SUBSET Nat /\ 0 \in S /\ \A m \in Nat : m < n /\ m \in S => m + 1 \in S
    BY <1>1, <1>2, <1>3
<1> HIDE DEF S
<1>5. n \in S
    BY <1>4, ClimbTo
<1> QED
    BY <1>5 DEF S, A, B

\* g is h with another member at b, where h has the neutral one.
WithAt(g, h, b, n, e) == h[b] = e /\ \A k \in 1 .. n : k # b => g[k] = h[k]

LEMMA FoldedWith ==
    ASSUME NEW op, NEW e, Monoid(op, e), NEW g, Numbers(g), NEW h, Numbers(h),
           NEW n \in Nat, NEW b \in 1 .. n, WithAt(g, h, b, n, e)
    PROVE  Folded(op, e, g, n) = op[g[b]][Folded(op, e, h, n)]
<1> DEFINE A(m) == Folded(op, e, g, m)
           B(m) == Folded(op, e, h, m)
           S == {m \in Nat : A(b + m) = op[g[b]][B(b + m)]}
<1>1. b \in Nat /\ b - 1 \in Nat /\ (b - 1) + 1 = b /\ b <= n /\ g[b] \in Nat
    BY NumberAt
<1>2. ASSUME NEW m \in Nat PROVE B(m) \in Nat /\ B(m + 1) = op[B(m)][h[m + 1]]
  <2>1. B(m) \in Nat
    BY FoldedType
  <2>2. B(m + 1) = op[B(m)][h[m + 1]]
    BY FoldedStep
  <2> QED BY <2>1, <2>2
<1>3. ASSUME NEW m \in Nat PROVE A(m + 1) = op[A(m)][g[m + 1]]
    BY FoldedStep
<1>4. A(b - 1) = B(b - 1)
  <2>1. \A k \in 1 .. b - 1 : g[k] = h[k]
    BY <1>1 DEF WithAt
  <2> QED BY <1>1, <2>1, FoldedSame
<1> HIDE DEF A, B
<1>5. A(b) = op[B(b - 1)][g[b]] /\ B(b) = op[B(b - 1)][e]
  <2>1. h[b] = e
    BY DEF WithAt
  <2> QED BY <1>1, <1>2, <1>3, <1>4, <2>1
<1>6. A(b) = op[g[b]][B(b)]
  <2>1. B(b - 1) \in Nat
    BY <1>1, <1>2
  <2>2. op[B(b - 1)][e] = B(b - 1)
    BY <2>1 DEF Monoid
  <2>3. op[B(b - 1)][g[b]] = op[g[b]][B(b - 1)]
    BY <1>1, <2>1, Either
  <2> QED BY <1>5, <2>2, <2>3
<1>7. S \in SUBSET Nat /\ 0 \in S
  <2>1. b + 0 = b
    BY <1>1
  <2> QED BY <1>6, <2>1
<1>8. ASSUME NEW m \in Nat, m < n - b, A(b + m) = op[g[b]][B(b + m)]
      PROVE  A(b + (m + 1)) = op[g[b]][B(b + (m + 1))]
  <2>1. b + (m + 1) = (b + m) + 1 /\ b + m \in Nat /\ (b + m) + 1 \in 1 .. n
        /\ (b + m) + 1 # b /\ (b + m) + 1 \in Nat
    BY <1>1, <1>8
  <2> DEFINE v == h[(b + m) + 1]
  <2>2. g[(b + m) + 1] = v /\ v \in Nat
    BY <2>1, NumberAt DEF WithAt
  <2>3. A((b + m) + 1) = op[A(b + m)][v]
    BY <1>3, <2>1, <2>2
  <2>4. B((b + m) + 1) = op[B(b + m)][v] /\ B(b + m) \in Nat
    BY <1>2, <2>1
  <2> HIDE DEF v
  <2>5. A((b + m) + 1) = op[g[b]][B((b + m) + 1)]
    <3>1. op[op[g[b]][B(b + m)]][v] = op[g[b]][op[B(b + m)][v]]
      BY <1>1, <2>2, <2>4, Together
    <3> QED BY <1>8, <2>3, <2>4, <3>1
  <2> QED BY <2>1, <2>5
<1>9. \A m \in Nat : m < n - b /\ m \in S => m + 1 \in S
    BY <1>8
<1> HIDE DEF S
<1>10. n - b \in Nat /\ b + (n - b) = n
    BY <1>1
<1>11. n - b \in S
    BY <1>7, <1>9, <1>10, ClimbTo
<1> QED
    BY <1>10, <1>11 DEF S, A, B

LEMMA FoldedNothing ==
    ASSUME NEW op, NEW e, Monoid(op, e), NEW h, Numbers(h), NEW n \in Nat,
           \A k \in 1 .. n : h[k] = e
    PROVE  Folded(op, e, h, n) = e
<1> DEFINE A(m) == Folded(op, e, h, m)
           S == {m \in Nat : A(m) = e}
<1>1. A(0) = e
    BY FoldedFrom
<1>1a. ASSUME NEW m \in Nat PROVE A(m + 1) = op[A(m)][h[m + 1]]
    BY FoldedStep
<1> HIDE DEF A
<1>2. e \in Nat /\ op[e][e] = e
    BY DEF Monoid
<1>3. ASSUME NEW m \in Nat, m < n, A(m) = e PROVE A(m + 1) = e
  <2>1. h[m + 1] = e
    BY <1>3
  <2> QED BY <1>1a, <1>2, <1>3, <2>1
<1>4a. S \in SUBSET Nat /\ 0 \in S /\ \A m \in Nat : m < n /\ m \in S => m + 1 \in S
    BY <1>1, <1>3
<1> HIDE DEF S
<1>4. n \in S
    BY <1>4a, ClimbTo
<1> QED
    BY <1>4 DEF S, A

\* The members of f at S only.
Only(f, S, e) == [j \in Nat |-> IF j \in S THEN f[j] ELSE e]

LEMMA OnlyIs ==
    ASSUME NEW op, NEW e, Monoid(op, e), NEW f, Numbers(f), NEW T
    PROVE  Numbers(Only(f, T, e))
<1>1. e \in Nat
    BY DEF Monoid
<1> QED
    BY <1>1, NumberAt DEF Only, Numbers

LEMMA FoldedOnly ==
    ASSUME NEW op, NEW e, Monoid(op, e), NEW f, Numbers(f), NEW N \in Nat
    PROVE  Folded(op, e, Only(f, {}, e), N) = e
<1> DEFINE o == Only(f, {}, e)
<1>1. Numbers(o)
    BY OnlyIs
<1>2. \A k \in 1 .. N : o[k] = e
    BY DEF Only
<1> HIDE DEF o
<1>3. Folded(op, e, o, N) = e
    BY <1>1, <1>2, FoldedNothing
<1> QED
    BY <1>3 DEF o

LEMMA FoldedMore ==
    ASSUME NEW op, NEW e, Monoid(op, e), NEW f, Numbers(f), NEW N \in Nat,
           NEW T, NEW b \in 1 .. N, b \notin T
    PROVE  Folded(op, e, Only(f, T \cup {b}, e), N) = op[f[b]][Folded(op, e, Only(f, T, e), N)]
<1> DEFINE o == Only(f, T, e)
           p == Only(f, T \cup {b}, e)
<1>1. Numbers(o) /\ Numbers(p)
    BY OnlyIs
<1>2. o[b] = e /\ p[b] = f[b]
    BY DEF Only
<1>3. \A k \in 1 .. N : k # b => p[k] = o[k]
    BY DEF Only
<1> HIDE DEF o, p
<1>4. Folded(op, e, p, N) = op[p[b]][Folded(op, e, o, N)]
  <2>1. WithAt(p, o, b, N, e)
    BY <1>2, <1>3 DEF WithAt
  <2> QED BY <1>1, <2>1, FoldedWith
<1> QED
    BY <1>2, <1>4 DEF o, p

\* A list of n different numbers, up to N, and the members of f along it.
Listed(x, n, N) ==
    x \in [1 .. n -> 1 .. N] /\ \A i \in 1 .. n, j \in 1 .. n : x[i] = x[j] => i = j

Along(f, x, n, e) == [i \in Nat |-> IF i \in 1 .. n THEN f[x[i]] ELSE e]

FirstOf(x, m) == {x[i] : i \in 1 .. m}

LEMMA ListedMore ==
    ASSUME NEW N \in Nat, NEW n \in Nat, NEW x, Listed(x, n, N), NEW m \in Nat, m < n
    PROVE  /\ x[m + 1] \in 1 .. N
           /\ x[m + 1] \notin FirstOf(x, m)
           /\ FirstOf(x, m + 1) = FirstOf(x, m) \cup {x[m + 1]}
<1>1. m + 1 \in 1 .. n
    OBVIOUS
<1>2. x[m + 1] \in 1 .. N
    BY <1>1 DEF Listed
<1>3. ASSUME NEW i \in 1 .. m PROVE x[i] # x[m + 1]
  <2>1. i \in 1 .. n /\ i # m + 1
    BY <1>3
  <2> QED BY <1>1, <2>1 DEF Listed
<1>4. 1 .. m + 1 = (1 .. m) \cup {m + 1}
    OBVIOUS
<1>5. x[m + 1] \notin FirstOf(x, m)
    BY <1>3 DEF FirstOf
<1>6. FirstOf(x, m + 1) = FirstOf(x, m) \cup {x[m + 1]}
    BY <1>4 DEF FirstOf
<1> QED
    BY <1>2, <1>5, <1>6

\* A list without repetition, in the order of the list or in that of the numbers.
LEMMA FoldedList ==
    ASSUME NEW op, NEW e, Monoid(op, e), NEW f, Numbers(f), NEW N \in Nat,
           NEW n \in Nat, NEW x, Listed(x, n, N)
    PROVE  Folded(op, e, Along(f, x, n, e), n) = Folded(op, e, Only(f, FirstOf(x, n), e), N)
<1> DEFINE h == Along(f, x, n, e)
           A(m) == Folded(op, e, h, m)
           B(m) == Folded(op, e, Only(f, FirstOf(x, m), e), N)
           S == {m \in Nat : A(m) = B(m)}
<1>1. e \in Nat /\ Numbers(h)
  <2>1. e \in Nat
    BY DEF Monoid
  <2>2. \A i \in 1 .. n : x[i] \in Nat
    BY DEF Listed
  <2>3. \A i \in 1 .. n : f[x[i]] \in Nat
    BY <2>2, NumberAt
  <2> QED BY <2>1, <2>3 DEF Along, Numbers
<1>2. \A i \in 1 .. n : h[i] = f[x[i]]
    BY DEF Along
<1> HIDE DEF h
<1>3. A(0) = e
    BY <1>1, FoldedFrom
<1>4. B(0) = e
  <2>1. FirstOf(x, 0) = {}
    BY DEF FirstOf
  <2> QED BY <2>1, FoldedOnly
<1>5. ASSUME NEW m \in Nat PROVE A(m + 1) = op[A(m)][h[m + 1]]
  <2>1. m + 1 \in Nat
    OBVIOUS
  <2> QED BY <1>1, <2>1, FoldedStep
<1>6. ASSUME NEW m \in Nat PROVE B(m) \in Nat
  <2>1. Numbers(Only(f, FirstOf(x, m), e))
    BY OnlyIs
  <2> QED BY <2>1, FoldedType
<1>7. ASSUME NEW m \in Nat, m < n PROVE B(m + 1) = op[f[x[m + 1]]][B(m)]
  <2> DEFINE b == x[m + 1]
             T == FirstOf(x, m)
  <2>1. b \in 1 .. N /\ b \notin T /\ FirstOf(x, m + 1) = T \cup {b}
    BY <1>7, ListedMore
  <2> HIDE DEF b, T
  <2>2. Folded(op, e, Only(f, T \cup {b}, e), N) = op[f[b]][Folded(op, e, Only(f, T, e), N)]
    BY <2>1, FoldedMore
  <2> QED BY <2>1, <2>2 DEF b, T
<1> HIDE DEF A, B
<1>8. ASSUME NEW m \in Nat, m < n, A(m) = B(m) PROVE A(m + 1) = B(m + 1)
  <2>1. m + 1 \in 1 .. n
    BY <1>8
  <2>2. x[m + 1] \in Nat
    BY <1>8, ListedMore
  <2>3. f[x[m + 1]] \in Nat /\ B(m) \in Nat
    BY <1>6, <2>2, NumberAt
  <2>4. op[B(m)][f[x[m + 1]]] = op[f[x[m + 1]]][B(m)]
    BY <2>3, Either
  <2> QED BY <1>2, <1>5, <1>7, <1>8, <2>1, <2>4
<1>9. S \in SUBSET Nat /\ 0 \in S /\ \A m \in Nat : m < n /\ m \in S => m + 1 \in S
    BY <1>3, <1>4, <1>8
<1> HIDE DEF S
<1>10. n \in S
    BY <1>9, ClimbTo
<1> QED
    BY <1>10 DEF S, A, B, h

----------------------------------------------------------------------------
(***************************************************************************)
(* Sums and products.                                                      *)
(***************************************************************************)
plus  == [a \in Nat |-> [b \in Nat |-> a + b]]
times == [a \in Nat |-> [b \in Nat |-> a * b]]

Total(h, n)      == Folded(plus, 0, h, n)
Multiplied(h, n) == Folded(times, 1, h, n)

LEMMA PlusIs == Monoid(plus, 0) /\ \A a \in Nat, b \in Nat : plus[a][b] = a + b
<1>1. \A a \in Nat, b \in Nat : a + b \in Nat
    OBVIOUS
<1>2. plus \in [Nat -> [Nat -> Nat]]
    BY <1>1 DEF plus
<1>3. \A a \in Nat, b \in Nat : plus[a][b] = a + b
    BY DEF plus
<1> HIDE DEF plus
<1>4. \A a \in Nat : plus[a][0] = a
    BY <1>3
<1>5. \A a \in Nat, b \in Nat : plus[a][b] = plus[b][a]
    BY <1>3
<1>6. ASSUME NEW a \in Nat, NEW b \in Nat, NEW c \in Nat
      PROVE  plus[plus[a][b]][c] = plus[a][plus[b][c]]
  <2>1. plus[a][b] = a + b /\ plus[b][c] = b + c /\ a + b \in Nat /\ b + c \in Nat
    BY <1>3
  <2>2. plus[a + b][c] = (a + b) + c /\ plus[a][b + c] = a + (b + c)
    BY <1>3, <2>1
  <2> QED BY <2>1, <2>2
<1> QED
    BY <1>2, <1>3, <1>4, <1>5, <1>6 DEF Monoid

LEMMA TimesIs == Monoid(times, 1) /\ \A a \in Nat, b \in Nat : times[a][b] = a * b
<1>1. \A a \in Nat, b \in Nat : a * b \in Nat
    OBVIOUS
<1>2. times \in [Nat -> [Nat -> Nat]]
    BY <1>1 DEF times
<1>3. \A a \in Nat, b \in Nat : times[a][b] = a * b
    BY DEF times
<1> HIDE DEF times
<1>4. \A a \in Nat : times[a][1] = a
    BY <1>3
<1>5. \A a \in Nat, b \in Nat : times[a][b] = times[b][a]
  <2>1. \A a \in Nat, b \in Nat : a * b = b * a
    OBVIOUS
  <2> QED BY <1>3, <2>1
<1>6. ASSUME NEW a \in Nat, NEW b \in Nat, NEW c \in Nat
      PROVE  times[times[a][b]][c] = times[a][times[b][c]]
  <2>1. times[a][b] = a * b /\ times[b][c] = b * c /\ a * b \in Nat /\ b * c \in Nat
    BY <1>1, <1>3
  <2>2. times[a * b][c] = (a * b) * c /\ times[a][b * c] = a * (b * c)
    BY <1>3, <2>1
  <2>3. (a * b) * c = a * (b * c)
    OBVIOUS
  <2> QED BY <2>1, <2>2, <2>3
<1> QED
    BY <1>2, <1>3, <1>4, <1>5, <1>6 DEF Monoid

LEMMA TotalType ==
    ASSUME NEW h, Numbers(h), NEW n \in Nat
    PROVE  Total(h, 0) = 0 /\ Total(h, n) \in Nat
    BY PlusIs, FoldedFrom, FoldedType DEF Total

LEMMA TotalStep ==
    ASSUME NEW h, Numbers(h), NEW n \in Nat, NEW m \in Nat, m = n + 1
    PROVE  Total(h, m) = Total(h, n) + h[m]
<1>1. Total(h, m) = plus[Total(h, n)][h[m]]
  <2>1. Monoid(plus, 0)
    BY PlusIs
  <2> QED BY <2>1, FoldedStep DEF Total
<1>2. Total(h, n) \in Nat /\ h[m] \in Nat
    BY TotalType, NumberAt
<1> QED
    BY <1>1, <1>2, PlusIs

LEMMA TotalSame ==
    ASSUME NEW g, Numbers(g), NEW h, Numbers(h), NEW n \in Nat, \A k \in 1 .. n : g[k] = h[k]
    PROVE  Total(g, n) = Total(h, n)
    BY PlusIs, FoldedSame DEF Total

LEMMA MultipliedType ==
    ASSUME NEW h, Numbers(h), NEW n \in Nat
    PROVE  Multiplied(h, 0) = 1 /\ Multiplied(h, n) \in Nat
    BY TimesIs, FoldedFrom, FoldedType DEF Multiplied

LEMMA MultipliedStep ==
    ASSUME NEW h, Numbers(h), NEW n \in Nat, NEW m \in Nat, m = n + 1
    PROVE  Multiplied(h, m) = Multiplied(h, n) * h[m]
<1>1. Multiplied(h, m) = times[Multiplied(h, n)][h[m]]
  <2>1. Monoid(times, 1)
    BY TimesIs
  <2> QED BY <2>1, FoldedStep DEF Multiplied
<1>2. Multiplied(h, n) \in Nat /\ h[m] \in Nat
    BY MultipliedType, NumberAt
<1> QED
    BY <1>1, <1>2, TimesIs

LEMMA MultipliedSame ==
    ASSUME NEW g, Numbers(g), NEW h, Numbers(h), NEW n \in Nat, \A k \in 1 .. n : g[k] = h[k]
    PROVE  Multiplied(g, n) = Multiplied(h, n)
    BY TimesIs, FoldedSame DEF Multiplied

LEMMA MultipliedWith ==
    ASSUME NEW g, Numbers(g), NEW h, Numbers(h), NEW n \in Nat, NEW b \in 1 .. n,
           WithAt(g, h, b, n, 1)
    PROVE  Multiplied(g, n) = g[b] * Multiplied(h, n)
<1>1. Multiplied(g, n) = times[g[b]][Multiplied(h, n)]
    BY TimesIs, FoldedWith DEF Multiplied
<1>2. Multiplied(h, n) \in Nat /\ g[b] \in Nat
    BY MultipliedType, NumberAt
<1> QED
    BY <1>1, <1>2, TimesIs

----------------------------------------------------------------------------
(***************************************************************************)
(* Numbers modulo Q.                                                       *)
(***************************************************************************)
Cong(a, b) == \E k \in Int : a = b + Q * k

LEMMA CongSame ==
    ASSUME NEW a \in Int
    PROVE  Cong(a, a)
<1>1. a = a + Q * 0 /\ Q \in Nat
    BY Order
<1> QED
    BY <1>1 DEF Cong

LEMMA CongBack ==
    ASSUME NEW a \in Int, NEW b \in Int, Cong(a, b)
    PROVE  Cong(b, a)
<1>1. PICK k \in Int : a = b + Q * k
    BY DEF Cong
<1>2. Q \in Nat /\ -k \in Int /\ Q * (-k) = -(Q * k) /\ Q * k \in Int
    BY Order
<1>3. b = a + Q * (-k)
    BY <1>1, <1>2
<1> QED
    BY <1>2, <1>3 DEF Cong

LEMMA CongOn ==
    ASSUME NEW a \in Int, NEW b \in Int, NEW c \in Int, Cong(a, b), Cong(b, c)
    PROVE  Cong(a, c)
<1>1. PICK k \in Int : a = b + Q * k
    BY DEF Cong
<1>2. PICK l \in Int : b = c + Q * l
    BY DEF Cong
<1>3. Q \in Nat /\ k + l \in Int /\ Q * (k + l) = Q * l + Q * k
    BY Order
<1>4. a = c + Q * (k + l)
    BY <1>1, <1>2, <1>3
<1> QED
    BY <1>3, <1>4 DEF Cong

LEMMA CongPlus ==
    ASSUME NEW a \in Int, NEW b \in Int, NEW c \in Int, NEW d \in Int, Cong(a, b), Cong(c, d)
    PROVE  Cong(a + c, b + d)
<1>1. PICK k \in Int : a = b + Q * k
    BY DEF Cong
<1>2. PICK l \in Int : c = d + Q * l
    BY DEF Cong
<1>3. Q \in Nat /\ k + l \in Int /\ Q * (k + l) = Q * k + Q * l
    BY Order
<1>4. a + c = (b + d) + Q * (k + l)
    BY <1>1, <1>2, <1>3
<1> QED
    BY <1>3, <1>4 DEF Cong

\* The same is taken away on both sides.
LEMMA CongLess ==
    ASSUME NEW a \in Int, NEW b \in Int, NEW c \in Int, Cong(a + c, b + c)
    PROVE  Cong(a, b)
<1>1. PICK k \in Int : a + c = (b + c) + Q * k
    BY DEF Cong
<1>2. Q * k \in Int
    BY Order
<1>3. a = b + Q * k
    BY <1>1, <1>2
<1> QED
    BY <1>3 DEF Cong

LEMMA CongFactor ==
    ASSUME NEW a \in Int, NEW b \in Int, NEW c \in Int, Cong(a, b)
    PROVE  Cong(c * a, c * b) /\ Cong(a * c, b * c)
<1>1. PICK k \in Int : a = b + Q * k
    BY DEF Cong
<1>2. Q \in Nat /\ c * k \in Int /\ Q * k \in Int
    BY Order
<1>3. c * (b + Q * k) = c * b + c * (Q * k) /\ c * (Q * k) = Q * (c * k)
    BY <1>2
<1>4. c * a = c * b + Q * (c * k)
    BY <1>1, <1>3
<1>5. a * c = c * a /\ b * c = c * b
    OBVIOUS
<1> QED
    BY <1>2, <1>4, <1>5 DEF Cong

LEMMA CongTimes ==
    ASSUME NEW a \in Int, NEW b \in Int, NEW c \in Int, NEW d \in Int, Cong(a, b), Cong(c, d)
    PROVE  Cong(a * c, b * d)
<1>1. Cong(a * c, b * c) /\ Cong(b * c, b * d)
    BY CongFactor
<1>2. a * c \in Int /\ b * c \in Int /\ b * d \in Int
    OBVIOUS
<1> QED
    BY <1>1, <1>2, CongOn

LEMMA CongRest ==
    ASSUME NEW a \in Nat
    PROVE  a % Q \in Nat /\ a % Q \in Scalars /\ Cong(a % Q, a) /\ Cong(a, a % Q)
<1>1. a \div Q \in Nat /\ a % Q \in Nat /\ a % Q \in 0 .. Q - 1 /\ a = Q * (a \div Q) + (a % Q)
  <2>1. Q \in Nat \ {0}
    BY Order
  <2> QED BY <2>1, RestOf
<1>2. Cong(a, a % Q)
  <2>1. a = (a % Q) + Q * (a \div Q)
    BY <1>1, Order
  <2> QED BY <1>1, <2>1 DEF Cong
<1> QED
    BY <1>1, <1>2, CongBack DEF Scalars

LEMMA CongEqual ==
    ASSUME NEW a \in Scalars, NEW b \in Scalars, Cong(a, b)
    PROVE  a = b
<1>1. PICK k \in Int : a = b + Q * k
    BY DEF Cong
<1>2. Q \in Nat /\ Q >= 3 /\ a \in Int /\ b \in Int /\ a < Q /\ b < Q /\ a >= 0 /\ b >= 0
    BY Order DEF Scalars
<1>3. CASE k >= 1
  <2>1. Q * k >= Q
    BY <1>2, <1>3
  <2> QED BY <1>1, <1>2, <2>1
<1>4. CASE k <= -1
  <2>1. Q * k <= -Q
    BY <1>2, <1>4
  <2> QED BY <1>1, <1>2, <2>1
<1>5. CASE k = 0
    BY <1>1, <1>2, <1>5
<1> QED
    BY <1>3, <1>4, <1>5

\* What can be divided by.
Unit(a) == \E k \in Nat : Cong(a * k, 1)

LEMMA UnitBelow ==
    ASSUME NEW a \in Nat \ {0}, a < Q
    PROVE  Unit(a)
<1>1. PICK k \in Nat : \E m \in Nat : a * k = 1 + Q * m
    BY HasInverse
<1>2. \E m \in Int : a * k = 1 + Q * m
    BY <1>1
<1> QED
    BY <1>2 DEF Unit, Cong

LEMMA UnitTimes ==
    ASSUME NEW a \in Nat, NEW b \in Nat, Unit(a), Unit(b)
    PROVE  Unit(a * b)
<1>1. PICK k \in Nat : Cong(a * k, 1)
    BY DEF Unit
<1>2. PICK l \in Nat : Cong(b * l, 1)
    BY DEF Unit
<1>3. a * k \in Int /\ b * l \in Int /\ k * l \in Nat
    OBVIOUS
<1>4. Cong((a * k) * (b * l), 1 * 1)
    BY <1>1, <1>2, <1>3, CongTimes
<1>5. (a * k) * (b * l) = (a * b) * (k * l) /\ 1 * 1 = 1
    OBVIOUS
<1> QED
    BY <1>3, <1>4, <1>5 DEF Unit

LEMMA UnitRest ==
    ASSUME NEW a \in Nat, NEW b \in Nat, Cong(a, b), Unit(a)
    PROVE  Unit(b)
<1>1. PICK k \in Nat : Cong(a * k, 1)
    BY DEF Unit
<1>2. Cong(b * k, a * k)
  <2>1. Cong(b, a)
    BY CongBack
  <2>2. a \in Int /\ b \in Int /\ k \in Int
    OBVIOUS
  <2> QED BY <2>1, <2>2, CongFactor, Zenon
<1>3. a * k \in Int /\ b * k \in Int
    OBVIOUS
<1>4. Cong(b * k, 1)
    BY <1>1, <1>2, <1>3, CongOn
<1> QED
    BY <1>4 DEF Unit

LEMMA UnitCancel ==
    ASSUME NEW u \in Nat, Unit(u), NEW a \in Int, NEW b \in Int, Cong(u * a, u * b)
    PROVE  Cong(a, b)
<1>1. PICK k \in Nat : Cong(u * k, 1)
    BY DEF Unit
<1>2. u * a \in Int /\ u * b \in Int /\ u * k \in Int
    OBVIOUS
<1>3. Cong(k * (u * a), k * (u * b))
  <2> DEFINE v == u * a
             w == u * b
  <2>1. v \in Int /\ w \in Int /\ Cong(v, w)
    BY <1>2
  <2> HIDE DEF v, w
  <2>2. Cong(k * v, k * w)
    BY <2>1, CongFactor
  <2> QED BY <2>2 DEF v, w
<1>4. ASSUME NEW x \in Int PROVE Cong(k * (u * x), x) /\ k * (u * x) \in Int
  <2> DEFINE v == u * k
  <2>1a. v \in Int /\ Cong(v, 1) /\ 1 \in Int
    BY <1>1, <1>2
  <2> HIDE DEF v
  <2>1b. Cong(v * x, 1 * x)
    BY <2>1a, CongFactor
  <2>1. Cong((u * k) * x, 1 * x)
    BY <2>1b DEF v
  <2>2. (u * k) * x = k * (u * x) /\ 1 * x = x /\ k * (u * x) \in Int
    OBVIOUS
  <2> QED BY <2>1, <2>2
<1>5. Cong(a, k * (u * a)) /\ Cong(k * (u * b), b)
    BY <1>4, CongBack
<1>6. Cong(a, k * (u * b))
    BY <1>3, <1>4, <1>5, CongOn
<1> QED
    BY <1>4, <1>5, <1>6, CongOn

LEMMA UnitOne == Unit(1)
<1>1. 1 \in Nat \ {0} /\ 1 < Q
    BY Order
<1> QED
    BY <1>1, UnitBelow

----------------------------------------------------------------------------
(***************************************************************************)
(* Square and multiply, modulo any number.                                 *)
(***************************************************************************)
Raised(b, n) == Multiplied([k \in Nat |-> b], n)

LEMMA RaisedType ==
    ASSUME NEW b \in Nat, NEW n \in Nat
    PROVE  Raised(b, 0) = 1 /\ Raised(b, n) \in Nat
<1>1. Numbers([k \in Nat |-> b])
    BY DEF Numbers
<1> QED
    BY <1>1, MultipliedType DEF Raised

LEMMA RaisedStep ==
    ASSUME NEW b \in Nat, NEW n \in Nat, NEW m \in Nat, m = n + 1
    PROVE  Raised(b, m) = Raised(b, n) * b
<1> DEFINE h == [k \in Nat |-> b]
<1>1. Numbers(h) /\ h[m] = b
    BY DEF Numbers
<1> HIDE DEF h
<1>2. Multiplied(h, m) = Multiplied(h, n) * h[m]
    BY <1>1, MultipliedStep
<1> QED
    BY <1>1, <1>2 DEF Raised, h

LEMMA RaisedSquare ==
    ASSUME NEW b \in Nat, NEW n \in Nat
    PROVE  Raised(b * b, n) = Raised(b, n + n)
<1> DEFINE c == b * b
           A(m) == Raised(c, m)
           B(m) == Raised(b, m + m)
           S == {m \in Nat : A(m) = B(m)}
<1>1. c \in Nat
    OBVIOUS
<1>2. A(0) = B(0)
  <2>1. A(0) = 1
    BY <1>1, RaisedType, Zenon
  <2>2. Raised(b, 0) = 1 /\ 0 + 0 = 0
    BY RaisedType
  <2> QED BY <2>1, <2>2
<1>3. ASSUME NEW m \in Nat, A(m) = B(m) PROVE A(m + 1) = B(m + 1)
  <2>1. A(m + 1) = A(m) * c
    <3> HIDE DEF c
    <3> QED BY <1>1, RaisedStep
  <2>2. (m + 1) + (m + 1) = ((m + m) + 1) + 1 /\ m + m \in Nat /\ (m + m) + 1 \in Nat
    OBVIOUS
  <2>3. Raised(b, (m + m) + 1) = Raised(b, m + m) * b
    BY <2>2, RaisedStep
  <2>4. Raised(b, ((m + m) + 1) + 1) = Raised(b, (m + m) + 1) * b
    BY <2>2, RaisedStep
  <2>5. Raised(b, m + m) \in Nat
    BY <2>2, RaisedType
  <2> DEFINE u == Raised(b, m + m)
  <2>6. u \in Nat /\ (u * b) * b = u * (b * b)
    <3>1. u \in Nat
      BY <2>5
    <3> HIDE DEF u
    <3> QED BY <3>1
  <2>7. B(m + 1) = u * (b * b)
    BY <2>2, <2>3, <2>4, <2>6
  <2> QED BY <1>3, <2>1, <2>7
<1> HIDE DEF A, B
<1>4. S \in SUBSET Nat /\ 0 \in S /\ \A m \in Nat : m < n /\ m \in S => m + 1 \in S
    BY <1>2, <1>3
<1> HIDE DEF S
<1>5. n \in S
    BY <1>4, ClimbTo
<1> QED
    BY <1>5 DEF S, A, B, c

\* Both factors.
LEMMA RestOfBoth ==
    ASSUME NEW m \in Nat \ {0}, NEW a \in Nat, NEW b \in Nat
    PROVE  (a * (b % m)) % m = (a * b) % m /\ ((a % m) * b) % m = (a * b) % m
<1>1. ((a % m) * b) % m = (a * b) % m /\ ((b % m) * a) % m = (b * a) % m
    BY RestOfProduct
<1>2. b % m \in Nat
    BY RestOf
<1>3. (b % m) * a = a * (b % m) /\ b * a = a * b
    BY <1>2
<1> QED
    BY <1>1, <1>3

LEMMA RaisedRest ==
    ASSUME NEW m \in Nat \ {0}, NEW b \in Nat, NEW n \in Nat
    PROVE  Raised(b % m, n) % m = Raised(b, n) % m
<1> DEFINE c == b % m
           A(k) == Raised(c, k)
           B(k) == Raised(b, k)
           S == {k \in Nat : A(k) % m = B(k) % m}
<1>1. c \in Nat
    BY RestOf
<1>2. A(0) = 1 /\ B(0) = 1
  <2> HIDE DEF c
  <2> QED BY <1>1, RaisedType
<1>3. ASSUME NEW k \in Nat
      PROVE  A(k) \in Nat /\ B(k) \in Nat /\ A(k + 1) = A(k) * c /\ B(k + 1) = B(k) * b
  <2> HIDE DEF c
  <2>1. A(k) \in Nat /\ B(k) \in Nat
    BY <1>1, RaisedType
  <2>2. A(k + 1) = A(k) * c
    BY <1>1, RaisedStep
  <2>3. B(k + 1) = B(k) * b
    BY RaisedStep
  <2> QED BY <2>1, <2>2, <2>3
<1> HIDE DEF A, B
<1>4. ASSUME NEW k \in Nat, A(k) % m = B(k) % m PROVE A(k + 1) % m = B(k + 1) % m
  <2> DEFINE u == A(k)
             v == B(k)
  <2>1. u \in Nat /\ v \in Nat /\ u % m = v % m
    BY <1>3, <1>4
  <2>2. A(k + 1) = u * c /\ B(k + 1) = v * b
    BY <1>3
  <2> HIDE DEF u, v
  <2>3. (u * (b % m)) % m = (u * b) % m /\ ((u % m) * b) % m = (u * b) % m
        /\ ((v % m) * b) % m = (v * b) % m
    BY <2>1, RestOfBoth
  <2> QED BY <2>1, <2>2, <2>3
<1>5. S \in SUBSET Nat /\ 0 \in S /\ \A k \in Nat : k < n /\ k \in S => k + 1 \in S
    BY <1>2, <1>4
<1> HIDE DEF S
<1>6. n \in S
    BY <1>5, ClimbTo
<1> QED
    BY <1>6 DEF S, A, B, c

LEMMA RaisedByHalves ==
    ASSUME NEW m \in Nat \ {0}, NEW c \in Nat, NEW n \in Nat, n # 0
    PROVE  Raised(c, n) % m
             = ((IF n % 2 = 1 THEN c ELSE 1) * (Raised((c * c) % m, n \div 2) % m)) % m
<1> DEFINE h == n \div 2
           u == Raised(c, h + h)
           w == Raised((c * c) % m, h) % m
<1>1. h \in Nat /\ (n % 2 = 1 => n = (h + h) + 1) /\ (n % 2 # 1 => n = h + h)
    BY HalfOf
<1> HIDE DEF h
<1>2. h + h \in Nat /\ (h + h) + 1 \in Nat /\ c * c \in Nat
    BY <1>1
<1>3. u \in Nat
    BY <1>2, RaisedType
<1>4. w = u % m
  <2> DEFINE d == c * c
  <2>1. d \in Nat
    BY <1>2
  <2>2. Raised(d, h) = Raised(c, h + h)
    BY <1>1, RaisedSquare
  <2> HIDE DEF d
  <2>3. Raised(d % m, h) % m = Raised(d, h) % m
    BY <1>1, <2>1, RaisedRest
  <2> QED BY <2>2, <2>3 DEF d
<1>5. Raised(c, (h + h) + 1) = u * c
    BY <1>2, RaisedStep
<1> HIDE DEF u, w
<1>6. u * c = c * u /\ 1 * u = u
    BY <1>3
<1>7. (c * (u % m)) % m = (c * u) % m /\ (1 * (u % m)) % m = (1 * u) % m
    BY <1>3, RestOfBoth
<1>8. CASE n % 2 = 1
  <2>1. Raised(c, n) = u * c
    BY <1>1, <1>5, <1>8
  <2>2. Raised(c, n) % m = (c * w) % m
    BY <1>4, <1>6, <1>7, <2>1
  <2> QED BY <1>8, <2>2 DEF h, w
<1>9. CASE n % 2 # 1
  <2>1. Raised(c, n) = u
    BY <1>1, <1>9 DEF u
  <2>2. Raised(c, n) % m = (1 * w) % m
    BY <1>4, <1>6, <1>7, <2>1
  <2> QED BY <1>9, <2>2 DEF h, w
<1> QED
    BY <1>8, <1>9

\* What the recursion of square and multiply fills in.
LEMMA ModPowIs ==
    ASSUME NEW m \in Nat, m > 1, NEW b \in Nat, NEW e \in Nat
    PROVE  ModPow(b, e, m) = Raised(b, e) % m
<1> DEFINE Is(f) == f = [n \in 0 .. e |-> [c \in 0 .. (m - 1) |->
                            IF n = 0 THEN 1
                            ELSE ((IF n % 2 = 1 THEN c ELSE 1) * f[n \div 2][(c * c) % m]) % m]]
           g == [n \in 0 .. e |-> [c \in 0 .. (m - 1) |-> Raised(c, n) % m]]
<1>0. m \in Nat \ {0} /\ 1 % m = 1 /\ \A a \in Nat : a % m \in 0 .. (m - 1)
  <2>1. m \in Nat \ {0}
    OBVIOUS
  <2>2. m * 0 + 1 = 1 /\ 1 \in 0 .. m - 1
    BY <2>1
  <2> QED BY <2>1, <2>2, RestIs, RestOf
<1>1. Is(g)
  <2>1. ASSUME NEW n \in 0 .. e, NEW c \in 0 .. (m - 1)
        PROVE  Raised(c, n) % m = IF n = 0 THEN 1
                           ELSE ((IF n % 2 = 1 THEN c ELSE 1) * g[n \div 2][(c * c) % m]) % m
    <3>1. c \in Nat /\ n \in Nat /\ c * c \in Nat
        OBVIOUS
    <3>2. CASE n = 0
        BY <1>0, <3>1, <3>2, RaisedType
    <3>3. CASE n # 0
      <4>1. (c * c) % m \in 0 .. (m - 1) /\ n \div 2 \in 0 .. e
        BY <1>0, <3>1, <3>3, HalfOf
      <4>2. g[n \div 2][(c * c) % m] = Raised((c * c) % m, n \div 2) % m
        BY <4>1
      <4>3. Raised(c, n) % m
               = ((IF n % 2 = 1 THEN c ELSE 1) * (Raised((c * c) % m, n \div 2) % m)) % m
        BY <1>0, <3>1, <3>3, RaisedByHalves
      <4> HIDE DEF g
      <4> QED BY <3>3, <4>2, <4>3
    <3> QED BY <3>2, <3>3
  <2>2. g = [n \in 0 .. e |-> [c \in 0 .. (m - 1) |->
                IF n = 0 THEN 1
                ELSE ((IF n % 2 = 1 THEN c ELSE 1) * g[n \div 2][(c * c) % m]) % m]]
    <3>1. \A n \in 0 .. e : [c \in 0 .. (m - 1) |-> Raised(c, n) % m]
              = [c \in 0 .. (m - 1) |-> IF n = 0 THEN 1
                    ELSE ((IF n % 2 = 1 THEN c ELSE 1) * g[n \div 2][(c * c) % m]) % m]
        BY <2>1
    <3> QED BY <3>1, Zenon
  <2> QED BY <2>2
<1> DEFINE from == CHOOSE f : Is(f)
<1>2. Is(from)
    BY <1>1
<1>3. ModPow(b, e, m) = from[e][b % m]
    BY DEF ModPow
<1> HIDE DEF from, g
<1>4. ASSUME NEW n \in 0 .. e, NEW c \in 0 .. (m - 1)
      PROVE  from[n][c] = IF n = 0 THEN 1
                     ELSE ((IF n % 2 = 1 THEN c ELSE 1) * from[n \div 2][(c * c) % m]) % m
  <2>1. from[n] = [d \in 0 .. (m - 1) |->
                            IF n = 0 THEN 1
                            ELSE ((IF n % 2 = 1 THEN d ELSE 1)
                                     * from[n \div 2][(d * d) % m]) % m]
    BY <1>2
  <2> QED BY <2>1
<1> DEFINE Bad == {n \in 0 .. e : \E c \in 0 .. (m - 1) : from[n][c] # Raised(c, n) % m}
<1>5. Bad = {}
  <2> SUFFICES ASSUME Bad # {} PROVE FALSE
    OBVIOUS
  <2>1. Bad \in SUBSET Nat
    OBVIOUS
  <2> HIDE DEF Bad
  <2>2. PICK n \in Bad : \A k \in Bad : n <= k
    BY <2>1, Smallest
  <2>3. n \in 0 .. e /\ n \in Nat /\ \E c \in 0 .. (m - 1) : from[n][c] # Raised(c, n) % m
    BY <2>2 DEF Bad
  <2>4. PICK c \in 0 .. (m - 1) : from[n][c] # Raised(c, n) % m
    BY <2>3
  <2>5. c \in Nat /\ c * c \in Nat
    OBVIOUS
  <2>6. from[n][c] = IF n = 0 THEN 1
                     ELSE ((IF n % 2 = 1 THEN c ELSE 1) * from[n \div 2][(c * c) % m]) % m
    BY <1>4, <2>3
  <2>7. n # 0
    BY <1>0, <2>4, <2>5, <2>6, RaisedType
  <2>8. (c * c) % m \in 0 .. (m - 1) /\ n \div 2 \in 0 .. e /\ n \div 2 < n
    BY <1>0, <2>3, <2>5, <2>7, HalfOf
  <2>9. n \div 2 \notin Bad
    BY <2>2, <2>3, <2>8
  <2>10. from[n \div 2][(c * c) % m] = Raised((c * c) % m, n \div 2) % m
    BY <2>8, <2>9 DEF Bad
  <2>11. Raised(c, n) % m
           = ((IF n % 2 = 1 THEN c ELSE 1) * (Raised((c * c) % m, n \div 2) % m)) % m
    BY <1>0, <2>3, <2>5, <2>7, RaisedByHalves
  <2> QED BY <2>4, <2>6, <2>7, <2>10, <2>11
<1>6. b % m \in 0 .. (m - 1) /\ e \in 0 .. e /\ b % m \in Nat
    BY <1>0
<1>7. from[e][b % m] = Raised(b % m, e) % m
    BY <1>5, <1>6
<1> QED
    BY <1>0, <1>3, <1>7, RaisedRest

----------------------------------------------------------------------------
(***************************************************************************)
(* Inverses.                                                               *)
(***************************************************************************)
\* Multiplied by a number that is not 0, the numbers below Q change their places.
LEMMA Moved ==
    ASSUME NEW a \in Nat \ {0}, a < Q
    PROVE  LET x == [j \in 1 .. Q - 1 |-> (a * j) % Q]
           IN  /\ Listed(x, Q - 1, Q - 1)
               /\ FirstOf(x, Q - 1) = 1 .. Q - 1
<1> DEFINE x == [j \in 1 .. Q - 1 |-> (a * j) % Q]
<1>1. Q \in Nat /\ Q >= 3 /\ Q - 1 \in Nat /\ Unit(a) /\ a \in Nat
    BY Order, UnitBelow
<1>2. ASSUME NEW j \in 1 .. Q - 1
      PROVE  a * j \in Nat /\ x[j] = (a * j) % Q /\ Cong(x[j], a * j) /\ x[j] \in Scalars /\ Unit(j)
             /\ j \in Nat /\ j \in Scalars
  <2>1. a * j \in Nat /\ j \in Nat /\ j # 0 /\ j < Q
    BY <1>1
  <2>2. x[j] = (a * j) % Q
    OBVIOUS
  <2>3. Unit(j) /\ j \in Scalars
    BY <2>1, UnitBelow DEF Scalars
  <2> HIDE DEF x
  <2> DEFINE y == a * j
  <2>4. y \in Nat
    BY <2>1
  <2> HIDE DEF y
  <2>5. Cong(y % Q, y) /\ y % Q \in Scalars
    BY <2>4, CongRest
  <2> QED BY <2>1, <2>2, <2>3, <2>5 DEF y
<1> HIDE DEF x
<1>3. ASSUME NEW j \in 1 .. Q - 1 PROVE x[j] \in 1 .. Q - 1
  <2>1. SUFFICES ASSUME x[j] = 0 PROVE FALSE
    BY <1>1, <1>2 DEF Scalars
  <2>2. Cong(a * j, 0)
    <3>1. Cong(0, a * j) /\ 0 \in Int /\ a * j \in Int
      BY <1>2, <2>1
    <3> QED BY <3>1, CongBack, Zenon
  <2>3. a * 0 = 0 /\ j * 0 = 0 /\ j \in Int /\ 0 \in Int /\ j * 1 = j /\ 1 \in Int
    BY <1>2
  <2>4. Cong(j, 0)
    BY <1>1, <2>2, <2>3, UnitCancel
  <2>5. j \in Scalars /\ 0 \in Scalars
    BY <1>1, <1>2 DEF Scalars
  <2> QED BY <2>4, <2>5, CongEqual
<1>4. ASSUME NEW i \in 1 .. Q - 1, NEW j \in 1 .. Q - 1, x[i] = x[j] PROVE i = j
  <2> DEFINE u == a * i
             v == a * j
             w == x[i]
  <2>1. u \in Int /\ v \in Int /\ w \in Int /\ Cong(w, u) /\ Cong(w, v)
    BY <1>2, <1>4 DEF Scalars
  <2> HIDE DEF u, v, w
  <2>2. Cong(u, v)
    BY <2>1, CongBack, CongOn
  <2>3. i \in Int /\ j \in Int
    BY <1>2
  <2>4. Cong(i, j)
    BY <1>1, <2>2, <2>3, UnitCancel DEF u, v
  <2> QED BY <1>2, <2>4, CongEqual
<1>5. ASSUME NEW v \in 1 .. Q - 1 PROVE \E j \in 1 .. Q - 1 : x[j] = v
  <2>1. PICK k \in Nat : Cong(a * k, 1)
    BY <1>1 DEF Unit
  <2> DEFINE kv == k * v
             j == kv % Q
             ak == a * k
  <2>2. kv \in Nat /\ ak \in Nat /\ v \in Nat /\ a * kv = ak * v /\ a * kv \in Nat
    BY <1>1
  <2>3. j \in Nat /\ j \in Scalars /\ Cong(j, kv)
    <3> HIDE DEF kv
    <3> QED BY <2>2, CongRest
  <2> HIDE DEF j
  <2>4. Cong(a * kv, v)
    <3>1. Cong(ak, 1) /\ ak \in Int /\ 1 \in Int /\ v \in Int
      BY <2>1, <2>2
    <3> HIDE DEF ak, kv
    <3>2. Cong(ak * v, 1 * v)
      BY <3>1, CongFactor, Zenon
    <3> QED BY <2>2, <3>2
  <2>5. Cong(a * j, a * kv)
    <3> HIDE DEF kv
    <3>1. j \in Int /\ kv \in Int /\ a \in Int
      BY <1>1, <2>2, <2>3
    <3> QED BY <2>3, <3>1, CongFactor, Zenon
  <2>6. Cong(a * j, v) /\ a * j \in Nat
    <3> DEFINE aj == a * j
               akv == a * kv
    <3>1. aj \in Int /\ akv \in Int /\ v \in Int /\ Cong(aj, akv) /\ Cong(akv, v) /\ aj \in Nat
      BY <1>1, <2>2, <2>3, <2>4, <2>5
    <3> HIDE DEF aj, akv
    <3>2. Cong(aj, v)
      BY <3>1, CongOn
    <3> QED BY <3>1, <3>2 DEF aj
  <2>7. j # 0
    <3> SUFFICES ASSUME j = 0 PROVE FALSE
      OBVIOUS
    <3>1. a * j = 0 /\ v \in Scalars /\ 0 \in Scalars
      BY <1>1, <2>3 DEF Scalars
    <3>2. Cong(0, v)
      BY <2>6, <3>1
    <3>3. 0 = v
      BY <3>1, <3>2, CongEqual
    <3> QED BY <3>3
  <2>8. j \in 1 .. Q - 1
    BY <1>1, <2>3, <2>7 DEF Scalars
  <2>9. Cong(x[j], v)
    <3> DEFINE aj == a * j
    <3>1. aj \in Int /\ x[j] \in Int /\ v \in Int /\ Cong(x[j], aj) /\ Cong(aj, v)
      BY <1>2, <2>2, <2>6, <2>8 DEF Scalars
    <3> HIDE DEF aj
    <3> QED BY <3>1, CongOn
  <2>10. v \in Scalars /\ x[j] \in Scalars
    BY <1>2, <2>8
  <2>11. x[j] = v
    BY <2>9, <2>10, CongEqual
  <2> QED BY <2>8, <2>11
<1>6. x \in [1 .. Q - 1 -> 1 .. Q - 1]
    BY <1>3 DEF x
<1>7. Listed(x, Q - 1, Q - 1)
    BY <1>4, <1>6 DEF Listed
<1>8. FirstOf(x, Q - 1) = 1 .. Q - 1
    BY <1>3, <1>5 DEF FirstOf
<1> QED
    BY <1>7, <1>8 DEF x

LEMMA Fermat ==
    ASSUME NEW a \in Nat \ {0}, a < Q
    PROVE  Cong(Raised(a, Q - 1), 1)
<1> DEFINE N == Q - 1
           x == [j \in 1 .. Q - 1 |-> (a * j) % Q]
           own == [j \in Nat |-> j]
           g == Along(own, x, N, 1)
           A(n) == Multiplied(g, n)
           B(n) == Multiplied(own, n)
           R(n) == Raised(a, n)
<1>1. Q \in Nat /\ N \in Nat /\ a \in Nat /\ Numbers(own)
    BY Order DEF Numbers
<1>2. Listed(x, N, N) /\ FirstOf(x, N) = 1 .. N
    BY Moved
<1>2a. \A j \in 1 .. N : x[j] \in Nat
  <2> HIDE DEF x, N
  <2> QED BY <1>1, <1>2 DEF Listed
<1>3. \A j \in 1 .. N : g[j] = x[j] /\ own[j] = j /\ j \in Nat /\ x[j] = (a * j) % Q
  <2> QED BY <1>2a DEF Along
<1>4. ASSUME NEW j \in 1 .. N PROVE g[j] \in Nat /\ Cong(g[j], a * j)
  <2>1. a * j \in Nat
    BY <1>1, <1>3
  <2> DEFINE y == a * j
  <2>2. y % Q \in Nat /\ Cong(y % Q, y)
    <3>1. y \in Nat
      BY <2>1
    <3> HIDE DEF y
    <3> QED BY <3>1, CongRest
  <2> QED BY <1>3, <2>2
<1>5. Numbers(g)
  <2>2. \A j \in 1 .. N : own[x[j]] \in Nat
    BY <1>1, <1>2a, NumberAt
  <2> HIDE DEF x, own
  <2> QED BY <2>2 DEF Numbers, Along
<1>6. A(N) = B(N)
  <2>1. A(N) = Multiplied(Only(own, FirstOf(x, N), 1), N)
    <3>1. Monoid(times, 1)
      BY TimesIs
    <3> HIDE DEF x, own, N
    <3> QED BY <1>1, <1>2, <3>1, FoldedList DEF Multiplied
  <2> DEFINE o == Only(own, 1 .. N, 1)
  <2>2. Numbers(o) /\ \A k \in 1 .. N : o[k] = own[k]
    <3>1. Numbers(o)
      BY <1>1, TimesIs, OnlyIs
    <3> QED BY <3>1 DEF Only
  <2>3. Multiplied(o, N) = B(N)
    <3> HIDE DEF o, own
    <3> QED BY <1>1, <2>2, MultipliedSame
  <2> QED BY <1>2, <2>1, <2>3
<1> HIDE DEF x, g, own
<1>7. A(0) = 1 /\ B(0) = 1 /\ R(0) = 1
  <2>1. A(0) = 1
    BY <1>1, <1>5, MultipliedType
  <2>2. B(0) = 1
    BY <1>1, MultipliedType
  <2>3. R(0) = 1
    BY <1>1, RaisedType
  <2> QED BY <2>1, <2>2, <2>3
<1>8. ASSUME NEW n \in Nat
      PROVE  /\ A(n) \in Nat /\ B(n) \in Nat /\ R(n) \in Nat
             /\ A(n + 1) = A(n) * g[n + 1] /\ B(n + 1) = B(n) * own[n + 1]
             /\ R(n + 1) = R(n) * a
  <2>1. A(n) \in Nat
    BY <1>5, MultipliedType
  <2>2. B(n) \in Nat
    BY <1>1, MultipliedType
  <2>3. R(n) \in Nat
    BY <1>1, RaisedType
  <2>4. A(n + 1) = A(n) * g[n + 1]
    BY <1>5, MultipliedStep
  <2>5. B(n + 1) = B(n) * own[n + 1]
    BY <1>1, MultipliedStep
  <2>6. R(n + 1) = R(n) * a
    BY <1>1, RaisedStep
  <2> QED BY <2>1, <2>2, <2>3, <2>4, <2>5, <2>6
<1> HIDE DEF A, B, R
<1>9. ASSUME NEW n \in Nat, n < N, Cong(A(n), R(n) * B(n)), Unit(B(n))
      PROVE  Cong(A(n + 1), R(n + 1) * B(n + 1)) /\ Unit(B(n + 1))
  <2> DEFINE j == n + 1
             u == A(n)
             v == B(n)
             r == R(n)
             y == g[j]
  <2>1. j \in 1 .. N /\ j \in Nat \ {0} /\ j < Q /\ own[j] = j
    BY <1>1, <1>3, <1>9
  <2>2. y \in Nat /\ Cong(y, a * j)
    BY <1>4, <2>1
  <2>3. u \in Nat /\ v \in Nat /\ r \in Nat /\ Cong(u, r * v) /\ Unit(v)
    BY <1>8, <1>9
  <2>4. A(n + 1) = u * y /\ B(n + 1) = v * j /\ R(n + 1) = r * a
    BY <1>8, <2>1
  <2> HIDE DEF u, v, r, y, j
  <2>5. Unit(v * j)
    BY <2>1, <2>3, UnitBelow, UnitTimes
  <2>6. Cong(u * y, (r * v) * (a * j))
    <3> DEFINE p == r * v
               q == a * j
    <3>1. p \in Int /\ q \in Int /\ u \in Int /\ y \in Int /\ Cong(u, p) /\ Cong(y, q)
      BY <1>1, <2>1, <2>2, <2>3
    <3> HIDE DEF p, q
    <3>2. Cong(u * y, p * q)
      BY <3>1, CongTimes, Zenon
    <3> QED BY <3>2 DEF p, q
  <2>7. (r * v) * (a * j) = (r * a) * (v * j)
    BY <1>1, <2>1, <2>3
  <2> QED BY <2>4, <2>5, <2>6, <2>7
<1> DEFINE S == {n \in Nat : Cong(A(n), R(n) * B(n)) /\ Unit(B(n))}
<1>10. S \in SUBSET Nat /\ 0 \in S /\ \A n \in Nat : n < N /\ n \in S => n + 1 \in S
  <2>1. Cong(A(0), R(0) * B(0)) /\ Unit(B(0))
    <3>1. 1 * 1 = 1 /\ Cong(1, 1)
      BY CongSame
    <3> QED BY <1>7, <3>1, UnitOne
  <2> QED BY <1>9, <2>1
<1> HIDE DEF S
<1>11. N \in S
    BY <1>1, <1>10, ClimbTo
<1>12. Cong(R(N), 1)
  <2> DEFINE b == B(N)
             r == R(N)
  <2>1. b \in Nat /\ r \in Nat /\ Cong(b, r * b) /\ Unit(b)
    BY <1>1, <1>6, <1>8, <1>11 DEF S
  <2> HIDE DEF b, r
  <2>2. b * 1 = b /\ r * b = b * r /\ r * b \in Int /\ r \in Int /\ b \in Int
    BY <2>1
  <2>3. Cong(b * 1, b * r)
    BY <2>1, <2>2
  <2>4. Cong(1, r)
    BY <2>1, <2>2, <2>3, UnitCancel
  <2>5. Cong(r, 1)
    BY <2>2, <2>4, CongBack
  <2> QED BY <2>5 DEF r
<1> QED
    BY <1>12 DEF R, N

\* What the code takes for an inverse is one.
LEMMA InverseIs ==
    ASSUME NEW d \in Nat, Unit(d)
    PROVE  ModPow(d, Q - 2, Q) \in Nat /\ Cong(d * ModPow(d, Q - 2, Q), 1)
<1> DEFINE a == d % Q
           u == Raised(d, Q - 2)
           w == Raised(d, Q - 1)
<1>1. Q \in Nat \ {0} /\ Q > 1 /\ Q - 2 \in Nat /\ Q - 1 \in Nat /\ Q - 1 = (Q - 2) + 1
    BY Order
<1>2. a \in Nat /\ Cong(d, a) /\ a \in Scalars
    BY CongRest
<1>3. Unit(a)
    BY <1>2, UnitRest
<1>4. a # 0
  <2> SUFFICES ASSUME a = 0 PROVE FALSE
    OBVIOUS
  <2>1. PICK k \in Nat : Cong(a * k, 1)
    BY <1>3 DEF Unit
  <2>2. a * k = 0 /\ 0 \in Scalars /\ 1 \in Scalars
    BY <1>1, <2>1 DEF Scalars
  <2>3. Cong(0, 1)
    BY <2>1, <2>2
  <2>4. 0 = 1
    BY <2>2, <2>3, CongEqual
  <2> QED BY <2>4
<1>5. u \in Nat /\ w \in Nat /\ w = u * d
    BY <1>1, RaisedType, RaisedStep
<1>6. Cong(Raised(a, Q - 1), 1) /\ Raised(a, Q - 1) \in Nat
  <2>1. a \in Nat \ {0} /\ a < Q
    BY <1>1, <1>2, <1>4 DEF Scalars
  <2> HIDE DEF a
  <2> QED BY <1>1, <2>1, Fermat, RaisedType
<1>7. Raised(a, Q - 1) % Q = w % Q
    BY <1>1, RaisedRest
<1>8. ModPow(d, Q - 2, Q) = u % Q
    BY <1>1, ModPowIs
<1> HIDE DEF a, u, w
<1>9. Cong(w, 1)
  <2> DEFINE f == Raised(a, Q - 1)
             z == w % Q
  <2>1. Cong(w, z) /\ z \in Int /\ w \in Int /\ f \in Int
    BY <1>5, <1>6, CongRest
  <2>2. Cong(z, f)
    BY <1>6, <1>7, CongRest
  <2>3. Cong(f, 1) /\ 1 \in Int
    BY <1>6
  <2> HIDE DEF f, z
  <2> QED BY <2>1, <2>2, <2>3, CongOn
<1>10. u % Q \in Nat /\ Cong(u % Q, u)
    BY <1>5, CongRest
<1>11. Cong(d * (u % Q), d * u)
  <2> DEFINE z == u % Q
  <2>1. z \in Int /\ u \in Int /\ d \in Int /\ Cong(z, u)
    BY <1>5, <1>10
  <2> HIDE DEF z
  <2>2. Cong(d * z, d * u)
    BY <2>1, CongFactor, Zenon
  <2> QED BY <2>2 DEF z
<1>12. Cong(d * (u % Q), 1)
  <2> DEFINE z == d * (u % Q)
  <2>1. d * u = w /\ z \in Int /\ w \in Int /\ 1 \in Int
    BY <1>5, <1>10
  <2>2. Cong(z, w)
    BY <1>11, <2>1
  <2> HIDE DEF z
  <2>3. Cong(z, 1)
    BY <1>9, <2>1, <2>2, CongOn
  <2> QED BY <2>3 DEF z
<1> QED
    BY <1>8, <1>10, <1>12

----------------------------------------------------------------------------
(***************************************************************************)
(* Interpolation at 0, modulo Q: the coefficients of some of the points    *)
(* 1 .. N.                                                                 *)
(***************************************************************************)
LEMMA MultipliedUnit ==
    ASSUME NEW h, Numbers(h), NEW n \in Nat, \A k \in 1 .. n : Unit(h[k])
    PROVE  Unit(Multiplied(h, n))
<1> DEFINE A(k) == Multiplied(h, k)
           S == {k \in Nat : Unit(A(k))}
<1>1. Unit(A(0))
  <2>1. A(0) = 1
    BY MultipliedType
  <2> QED BY <2>1, UnitOne
<1>2. ASSUME NEW k \in Nat, k < n, Unit(A(k)) PROVE Unit(A(k + 1))
  <2>1. A(k + 1) = A(k) * h[k + 1]
    BY MultipliedStep
  <2>2. A(k) \in Nat
    BY MultipliedType
  <2>3. k + 1 \in Nat /\ k + 1 \in 1 .. n
    BY <1>2
  <2>4. h[k + 1] \in Nat /\ Unit(h[k + 1])
    BY <2>3, NumberAt
  <2> HIDE DEF A
  <2> QED BY <1>2, <2>1, <2>2, <2>4, UnitTimes
<1> HIDE DEF A
<1>3. S \in SUBSET Nat /\ 0 \in S /\ \A k \in Nat : k < n /\ k \in S => k + 1 \in S
    BY <1>1, <1>2
<1> HIDE DEF S
<1>4. n \in S
    BY <1>3, ClimbTo
<1> QED
    BY <1>4 DEF S, A

LEMMA MultipliedAlike ==
    ASSUME NEW g, Numbers(g), NEW h, Numbers(h), NEW n \in Nat,
           \A k \in 1 .. n : Cong(g[k], h[k])
    PROVE  Cong(Multiplied(g, n), Multiplied(h, n))
<1> DEFINE A(k) == Multiplied(g, k)
           B(k) == Multiplied(h, k)
           S == {k \in Nat : Cong(A(k), B(k))}
<1>1. Cong(A(0), B(0))
  <2>1. A(0) = 1
    BY MultipliedType
  <2>2. B(0) = 1
    BY MultipliedType
  <2>3. Cong(1, 1)
    BY CongSame
  <2> QED BY <2>1, <2>2, <2>3
<1>2. ASSUME NEW k \in Nat, k < n, Cong(A(k), B(k)) PROVE Cong(A(k + 1), B(k + 1))
  <2>1. A(k + 1) = A(k) * g[k + 1]
    BY MultipliedStep
  <2>2. B(k + 1) = B(k) * h[k + 1]
    BY MultipliedStep
  <2>3. A(k) \in Int
    BY MultipliedType
  <2>4. B(k) \in Int
    BY MultipliedType
  <2>5. k + 1 \in Nat /\ k + 1 \in 1 .. n
    BY <1>2
  <2>6. g[k + 1] \in Int /\ h[k + 1] \in Int /\ Cong(g[k + 1], h[k + 1])
    BY <2>5, NumberAt
  <2> HIDE DEF A, B
  <2>7. Cong(A(k) * g[k + 1], B(k) * h[k + 1])
    BY <1>2, <2>3, <2>4, <2>6, CongTimes, Zenon
  <2> QED BY <2>1, <2>2, <2>7
<1> HIDE DEF A, B
<1>3. S \in SUBSET Nat /\ 0 \in S /\ \A k \in Nat : k < n /\ k \in S => k + 1 \in S
    BY <1>1, <1>2
<1> HIDE DEF S
<1>4. n \in S
    BY <1>3, ClimbTo
<1> QED
    BY <1>4 DEF S, A, B

Above(S, t) == [j \in Nat |-> IF j \in S /\ j # t THEN j ELSE 1]
Below(S, t) == [j \in Nat |-> IF j \in S /\ j # t THEN (Q + j - t) % Q ELSE 1]

Num(S, t, N) == Multiplied(Above(S, t), N)
Den(S, t, N) == Multiplied(Below(S, t), N)

\* Of t in S; the others have none.
Lag(S, t, N) ==
    IF t \in S THEN ((Num(S, t, N) % Q) * ModPow(Den(S, t, N) % Q, Q - 2, Q)) % Q ELSE 0

\* Some of N points, all of them below Q.
Points(S, N) == N \in Nat /\ N < Q /\ S \in SUBSET (1 .. N)

LEMMA Between ==
    ASSUME NEW S, NEW N, Points(S, N), NEW j \in S, NEW t \in 1 .. N
    PROVE  /\ j \in Nat /\ t \in Nat /\ j < Q /\ t < Q /\ Q + j - t \in Nat
           /\ (Q + j - t) % Q \in Nat /\ Cong(((Q + j - t) % Q) + t, j)
           /\ j # t => Unit((Q + j - t) % Q)
<1> DEFINE x == Q + j - t
<1>1. Q \in Nat /\ j \in Nat /\ t \in Nat /\ j < Q /\ t < Q /\ x \in Nat /\ j # 0 /\ t # 0
    BY Order DEF Points
<1>2. x % Q \in Nat /\ x % Q \in Scalars /\ Cong(x % Q, x) /\ Cong(x, x % Q)
  <2> HIDE DEF x
  <2> QED BY <1>1, CongRest
<1>3. Cong((x % Q) + t, j)
  <2> DEFINE y == x % Q
  <2>1. y \in Int /\ t \in Int /\ x \in Int /\ Cong(y, x)
    BY <1>1, <1>2
  <2>2. x + t = j + Q * 1
    BY <1>1
  <2>3. Cong(x + t, j)
    BY <2>2 DEF Cong
  <2>4. x + t \in Int /\ j \in Int
    BY <1>1
  <2> HIDE DEF x, y
  <2>5. y + t \in Int /\ Cong(t, t)
    BY <2>1, CongSame
  <2>6. Cong(y + t, x + t)
    BY <2>1, <2>5, CongPlus, Zenon
  <2>7. Cong(y + t, j)
    BY <2>3, <2>4, <2>5, <2>6, CongOn, Zenon
  <2> QED BY <2>7 DEF y
<1>4. ASSUME j # t PROVE Unit(x % Q)
  <2> DEFINE y == x % Q
  <2>1. y # 0
    <3> SUFFICES ASSUME y = 0 PROVE FALSE
      OBVIOUS
    <3>1. Cong(0 + t, j)
      BY <1>3
    <3>2. 0 + t = t /\ t \in Scalars /\ j \in Scalars
      BY <1>1 DEF Scalars
    <3>3. t = j
      BY <3>1, <3>2, CongEqual
    <3> QED BY <1>4, <3>3
  <2>2. y \in Nat \ {0} /\ y < Q
    BY <1>1, <1>2, <2>1 DEF Scalars
  <2> HIDE DEF y
  <2>3. Unit(y)
    BY <2>2, UnitBelow
  <2> QED BY <2>3 DEF y
<1> QED
    BY <1>1, <1>2, <1>3, <1>4

LEMMA FactorsAre ==
    ASSUME NEW S, NEW N, Points(S, N), NEW t \in 1 .. N
    PROVE  /\ Numbers(Above(S, t)) /\ Numbers(Below(S, t))
           /\ \A k \in 1 .. N : Unit(Below(S, t)[k])
<1>1. S \in SUBSET Nat /\ N \in Nat
    BY DEF Points
<1>2. Numbers(Above(S, t))
    BY <1>1 DEF Above, Numbers
<1>3. \A j \in S : (Q + j - t) % Q \in Nat
    BY Between
<1>4. Numbers(Below(S, t))
    BY <1>3 DEF Below, Numbers
<1>5. ASSUME NEW k \in 1 .. N PROVE Unit(Below(S, t)[k])
  <2>1. k \in Nat
    BY <1>1
  <2>2. CASE k \in S /\ k # t
    <3>1. Below(S, t)[k] = (Q + k - t) % Q
      BY <2>1, <2>2 DEF Below
    <3>2. Unit((Q + k - t) % Q)
      BY <2>2, Between
    <3> QED BY <3>1, <3>2
  <2>3. CASE ~(k \in S /\ k # t)
    <3>1. Below(S, t)[k] = 1
      BY <2>1, <2>3 DEF Below
    <3> QED BY <3>1, UnitOne
  <2> QED BY <2>2, <2>3
<1> QED
    BY <1>2, <1>4, <1>5

LEMMA NumDen ==
    ASSUME NEW S, NEW N, Points(S, N), NEW t \in 1 .. N
    PROVE  Num(S, t, N) \in Nat /\ Den(S, t, N) \in Nat /\ Unit(Den(S, t, N))
<1>1. N \in Nat
    BY DEF Points
<1>2. Numbers(Above(S, t)) /\ Numbers(Below(S, t)) /\ \A k \in 1 .. N : Unit(Below(S, t)[k])
    BY FactorsAre
<1>3. Num(S, t, N) \in Nat
    BY <1>1, <1>2, MultipliedType DEF Num
<1>4. Den(S, t, N) \in Nat
    BY <1>1, <1>2, MultipliedType DEF Den
<1>5. Unit(Den(S, t, N))
    BY <1>1, <1>2, MultipliedUnit DEF Den
<1> QED
    BY <1>3, <1>4, <1>5

LEMMA LagIs ==
    ASSUME NEW S, NEW N, Points(S, N), NEW t \in S
    PROVE  Lag(S, t, N) \in Scalars /\ Cong(Den(S, t, N) * Lag(S, t, N), Num(S, t, N))
<1> DEFINE n == Num(S, t, N)
           d == Den(S, t, N)
           m == n % Q
           e == d % Q
           i == ModPow(e, Q - 2, Q)
           l == (m * i) % Q
<1>1. t \in 1 .. N
    BY DEF Points
<1>2. n \in Nat /\ d \in Nat /\ Unit(d)
    BY <1>1, NumDen
<1> HIDE DEF n, d
<1>3. m \in Nat /\ e \in Nat /\ Cong(m, n) /\ Cong(d, e)
    BY <1>2, CongRest
<1>4. i \in Nat /\ Cong(e * i, 1)
  <2> HIDE DEF e
  <2>1. Unit(e)
    BY <1>2, <1>3, UnitRest
  <2> QED BY <1>3, <2>1, InverseIs
<1> HIDE DEF m, e, i
<1>5. l \in Nat /\ l \in Scalars /\ Cong(l, m * i)
  <2> DEFINE x == m * i
  <2>1. x \in Nat
    BY <1>3, <1>4
  <2> HIDE DEF x
  <2>2. x % Q \in Nat /\ x % Q \in Scalars /\ Cong(x % Q, x)
    BY <2>1, CongRest
  <2> QED BY <2>2 DEF x
<1> HIDE DEF l
<1>6. Cong(d * l, e * (m * i))
  <2> DEFINE x == m * i
  <2>1. d \in Int /\ e \in Int /\ l \in Int /\ x \in Int /\ Cong(d, e) /\ Cong(l, x)
    BY <1>2, <1>3, <1>4, <1>5
  <2> HIDE DEF x
  <2>2. Cong(d * l, e * x)
    BY <2>1, CongTimes, Zenon
  <2> QED BY <2>2 DEF x
<1>7. Cong((e * i) * m, 1 * n)
  <2> DEFINE x == e * i
  <2>1. x \in Int /\ 1 \in Int /\ m \in Int /\ n \in Int /\ Cong(x, 1) /\ Cong(m, n)
    BY <1>2, <1>3, <1>4
  <2> HIDE DEF x
  <2>2. Cong(x * m, 1 * n)
    BY <2>1, CongTimes, Zenon
  <2> QED BY <2>2 DEF x
<1>8. Cong(d * l, n)
  <2> DEFINE x == d * l
             y == e * (m * i)
  <2>1. x \in Int /\ y \in Int /\ n \in Int /\ (e * i) * m = y /\ 1 * n = n
    BY <1>2, <1>3, <1>4, <1>5
  <2>2. Cong(x, y) /\ Cong(y, n)
    BY <1>6, <1>7, <2>1
  <2> HIDE DEF x, y
  <2>3. Cong(x, n)
    BY <2>1, <2>2, CongOn
  <2> QED BY <2>3 DEF x
<1>9. Lag(S, t, N) = l
    BY DEF Lag, l, i, m, e, n, d
<1> QED
    BY <1>5, <1>8, <1>9 DEF n, d

LEMMA LagType ==
    ASSUME NEW S, NEW N, Points(S, N), NEW t
    PROVE  Lag(S, t, N) \in Nat
<1>1. CASE t \in S
    BY <1>1, LagIs, DrawnAre
<1>2. CASE t \notin S
    BY <1>2 DEF Lag
<1> QED
    BY <1>1, <1>2

\* One point more in the set is one factor more, of the others' coefficients.
LEMMA OnePointMore ==
    ASSUME NEW S, NEW N, Points(S, N), NEW t \in S, NEW b \in S, b # t
    PROVE  /\ Num(S, t, N) = b * Num(S \ {b}, t, N)
           /\ Den(S, t, N) = ((Q + b - t) % Q) * Den(S \ {b}, t, N)
<1> DEFINE R == S \ {b}
<1>1. Points(R, N) /\ t \in 1 .. N /\ b \in 1 .. N /\ N \in Nat /\ t \in R /\ b \in Nat
    BY DEF Points
<1>2. Numbers(Above(S, t)) /\ Numbers(Below(S, t))
    BY <1>1, FactorsAre
<1>3. Numbers(Above(R, t)) /\ Numbers(Below(R, t))
  <2> HIDE DEF R
  <2> QED BY <1>1, FactorsAre
<1>4. WithAt(Above(S, t), Above(R, t), b, N, 1) /\ Above(S, t)[b] = b
  <2>1. Above(R, t)[b] = 1 /\ Above(S, t)[b] = b
    BY <1>1 DEF Above
  <2>2. ASSUME NEW k \in 1 .. N, k # b PROVE Above(S, t)[k] = Above(R, t)[k]
    <3>1. k \in Nat /\ (k \in S <=> k \in R)
      BY <1>1, <2>2
    <3> HIDE DEF R
    <3> QED BY <3>1 DEF Above
  <2> QED BY <2>1, <2>2 DEF WithAt
<1>5. WithAt(Below(S, t), Below(R, t), b, N, 1) /\ Below(S, t)[b] = (Q + b - t) % Q
  <2>1. Below(R, t)[b] = 1 /\ Below(S, t)[b] = (Q + b - t) % Q
    BY <1>1 DEF Below
  <2>2. ASSUME NEW k \in 1 .. N, k # b PROVE Below(S, t)[k] = Below(R, t)[k]
    <3>1. k \in Nat /\ (k \in S <=> k \in R)
      BY <1>1, <2>2
    <3> HIDE DEF R
    <3> QED BY <3>1 DEF Below
  <2> QED BY <2>1, <2>2 DEF WithAt
<1> HIDE DEF R
<1>6. Multiplied(Above(S, t), N) = Above(S, t)[b] * Multiplied(Above(R, t), N)
    BY <1>1, <1>2, <1>3, <1>4, MultipliedWith
<1>7. Multiplied(Below(S, t), N) = Below(S, t)[b] * Multiplied(Below(R, t), N)
    BY <1>1, <1>2, <1>3, <1>5, MultipliedWith
<1> QED
    BY <1>4, <1>5, <1>6, <1>7 DEF Num, Den, R

\* What a point's coefficient is without another point.
LEMMA LagWithout ==
    ASSUME NEW S, NEW N, Points(S, N), NEW b \in S, NEW t \in 1 .. N
    PROVE  Cong(b * Lag(S, t, N), t * Lag(S, t, N) + b * Lag(S \ {b}, t, N))
<1> DEFINE R == S \ {b}
           l == Lag(S, t, N)
           k == Lag(R, t, N)
<1>1. Points(R, N) /\ b \in 1 .. N /\ N \in Nat /\ b \in Nat /\ t \in Nat
    BY DEF Points
<1>2. l \in Nat
    BY LagType
<1>3. k \in Nat
  <2> HIDE DEF R
  <2> QED BY <1>1, LagType
<1>4. CASE t \notin S
  <2>1. l = 0 /\ k = 0
    BY <1>4 DEF Lag
  <2>2. b * 0 = 0 /\ t * 0 = 0 /\ 0 + 0 = 0 /\ Cong(0, 0)
    BY <1>1, CongSame
  <2> QED BY <2>1, <2>2
<1>5. CASE t = b
  <2>1. k = 0
    BY <1>5 DEF Lag
  <2>2. t * l + b * 0 = b * l /\ b * l \in Int
    BY <1>1, <1>2, <1>5
  <2> HIDE DEF l, k
  <2>3. Cong(b * l, b * l)
    BY <2>2, CongSame
  <2> QED BY <2>1, <2>2, <2>3 DEF l, k
<1>6. CASE t \in S /\ t # b
  <2> DEFINE n == Num(R, t, N)
             d == Den(R, t, N)
             g == (Q + b - t) % Q
  <2>1. t \in R
    BY <1>6
  <2>2. n \in Nat /\ d \in Nat /\ Unit(d) /\ Cong(d * k, n)
    <3> HIDE DEF R
    <3> QED BY <1>1, <2>1, NumDen, LagIs
  <2>3. Num(S, t, N) = b * n /\ Den(S, t, N) = g * d
    BY <1>6, OnePointMore
  <2>4. Cong((g * d) * l, b * n)
    <3>1. Cong(Den(S, t, N) * l, Num(S, t, N))
      BY <1>6, LagIs
    <3> HIDE DEF g, d, n, l
    <3> QED BY <2>3, <3>1
  <2>5. g \in Nat /\ Cong(g + t, b)
    BY Between
  <2> HIDE DEF g, d, n, l, k
  <2> DEFINE u == d * (t * l)
  <2>6. (g * d) * l \in Int /\ b * n \in Int /\ u \in Int /\ d * (b * k) \in Int /\ d * l \in Int
        /\ b * (d * k) \in Int /\ d * k \in Int /\ n \in Int /\ b \in Int /\ g + t \in Int
    BY <1>1, <1>2, <1>3, <2>2, <2>5
  <2>7. Cong((g * d) * l + u, b * n + u)
    <3> DEFINE x == (g * d) * l
               y == b * n
    <3>1. x \in Int /\ y \in Int /\ u \in Int /\ Cong(x, y)
      BY <2>4, <2>6
    <3> HIDE DEF x, y, u
    <3>2. Cong(u, u)
      BY <3>1, CongSame
    <3>3. Cong(x + u, y + u)
      BY <3>1, <3>2, CongPlus, Zenon
    <3> QED BY <3>3 DEF x, y
  <2>8. Cong(b * (d * k) + u, b * n + u)
    <3> DEFINE z == d * k
               x == b * z
               y == b * n
    <3>1. z \in Int /\ n \in Int /\ b \in Int /\ x \in Int /\ y \in Int /\ Cong(z, n)
      BY <2>2, <2>6
    <3>2. Cong(x, y)
      <4> HIDE DEF z
      <4> QED BY <3>1, CongFactor, Zenon
    <3>3. u \in Int
      BY <2>6
    <3> HIDE DEF x, y, u
    <3>4. Cong(u, u)
      BY <3>3, CongSame
    <3>5. Cong(x + u, y + u)
      BY <3>1, <3>2, <3>3, <3>4, CongPlus, Zenon
    <3> QED BY <3>5 DEF x, y, z
  <2>9. Cong((g + t) * (d * l), b * (d * l))
    <3> DEFINE x == d * l
               y == g + t
    <3>1. x \in Int /\ y \in Int /\ b \in Int /\ Cong(y, b)
      BY <2>5, <2>6
    <3> HIDE DEF x, y
    <3>2. Cong(y * x, b * x)
      BY <3>1, CongFactor, Zenon
    <3> QED BY <3>2 DEF x, y
  <2>10. (g + t) * (d * l) = (g * d) * l + u
    BY <1>1, <1>2, <2>2, <2>5
  <2> DEFINE w1 == b * (d * l)
             w2 == (g * d) * l + u
             w3 == b * n + u
             w4 == b * (d * k) + u
  <2>11. w1 \in Int /\ w2 \in Int /\ w3 \in Int /\ w4 \in Int
    BY <2>6
  <2>12. Cong(w2, w1) /\ Cong(w2, w3) /\ Cong(w4, w3)
    BY <2>7, <2>8, <2>9, <2>10
  <2>13. w1 = d * (b * l) /\ w4 = d * (t * l + b * k)
    BY <1>1, <1>2, <1>3, <2>2
  <2> HIDE DEF w1, w2, w3, w4, u
  <2>14. Cong(w1, w2) /\ Cong(w3, w4)
    BY <2>11, <2>12, CongBack
  <2>15. Cong(w1, w3)
    BY <2>11, <2>12, <2>14, CongOn
  <2>16. Cong(w1, w4)
    BY <2>11, <2>14, <2>15, CongOn
  <2> DEFINE x == b * l
             y == t * l + b * k
  <2>17. x \in Int /\ y \in Int /\ Cong(d * x, d * y)
    BY <1>1, <1>2, <1>3, <2>13, <2>16
  <2> HIDE DEF x, y
  <2>18. Cong(x, y)
    BY <2>2, <2>17, UnitCancel
  <2> QED BY <2>18 DEF x, y, l, k
<1> QED
    BY <1>4, <1>5, <1>6

\* Term by term.
LEMMA TotalAlike ==
    ASSUME NEW g, Numbers(g), NEW h, Numbers(h), NEW p, Numbers(p), NEW n \in Nat, NEW b \in Nat,
           \A k \in 1 .. n : Cong(b * g[k], h[k] + b * p[k])
    PROVE  Cong(b * Total(g, n), Total(h, n) + b * Total(p, n))
<1> DEFINE A(k) == Total(g, k)
           B(k) == Total(h, k)
           C(k) == Total(p, k)
           S == {k \in Nat : Cong(b * A(k), B(k) + b * C(k))}
<1>1. ASSUME NEW k \in Nat
      PROVE  /\ A(k) \in Nat /\ B(k) \in Nat /\ C(k) \in Nat
             /\ A(k + 1) = A(k) + g[k + 1] /\ B(k + 1) = B(k) + h[k + 1]
             /\ C(k + 1) = C(k) + p[k + 1]
  <2>1. A(k) \in Nat /\ A(k + 1) = A(k) + g[k + 1]
    BY TotalType, TotalStep
  <2>2. B(k) \in Nat /\ B(k + 1) = B(k) + h[k + 1]
    BY TotalType, TotalStep
  <2>3. C(k) \in Nat /\ C(k + 1) = C(k) + p[k + 1]
    BY TotalType, TotalStep
  <2> QED BY <2>1, <2>2, <2>3
<1>2. A(0) = 0 /\ B(0) = 0 /\ C(0) = 0
  <2>1. A(0) = 0
    BY TotalType
  <2>2. B(0) = 0
    BY TotalType
  <2>3. C(0) = 0
    BY TotalType
  <2> QED BY <2>1, <2>2, <2>3
<1> HIDE DEF A, B, C
<1>3. Cong(b * A(0), B(0) + b * C(0))
  <2>1. b * 0 = 0 /\ 0 + 0 = 0 /\ Cong(0, 0)
    BY CongSame
  <2> QED BY <1>2, <2>1
<1>4. ASSUME NEW k \in Nat, k < n, Cong(b * A(k), B(k) + b * C(k))
      PROVE  Cong(b * A(k + 1), B(k + 1) + b * C(k + 1))
  <2> DEFINE u == A(k)
             v == B(k)
             w == C(k)
             x == g[k + 1]
             y == h[k + 1]
             z == p[k + 1]
             r == b * u
             s == v + b * w
             a == b * x
             c == y + b * z
  <2>1. k + 1 \in 1 .. n /\ k + 1 \in Nat
    BY <1>4
  <2>2. x \in Nat /\ y \in Nat /\ z \in Nat /\ Cong(a, c)
    BY <2>1, NumberAt
  <2>3. u \in Nat /\ v \in Nat /\ w \in Nat /\ Cong(r, s)
    BY <1>1, <1>4
  <2>4. A(k + 1) = u + x /\ B(k + 1) = v + y /\ C(k + 1) = w + z
    BY <1>1
  <2> HIDE DEF u, v, w, x, y, z
  <2>5. r \in Int /\ s \in Int /\ a \in Int /\ c \in Int
        /\ r + a = b * (u + x) /\ s + c = (v + y) + b * (w + z)
    BY <2>2, <2>3
  <2> HIDE DEF r, s, a, c
  <2>6. Cong(r + a, s + c)
    BY <2>2, <2>3, <2>5, CongPlus, Zenon
  <2> QED BY <2>4, <2>5, <2>6
<1>5. S \in SUBSET Nat /\ 0 \in S /\ \A k \in Nat : k < n /\ k \in S => k + 1 \in S
    BY <1>3, <1>4
<1> HIDE DEF S
<1>6. n \in S
    BY <1>5, ClimbTo
<1> QED
    BY <1>6 DEF S, A, B, C

Weighted(S, k, N) == [t \in Nat |-> Lag(S, t, N) * Raised(t, k)]
Moment(S, k, N)   == Total(Weighted(S, k, N), N)

LEMMA MomentType ==
    ASSUME NEW S, NEW N, Points(S, N), NEW k \in Nat
    PROVE  Numbers(Weighted(S, k, N)) /\ Moment(S, k, N) \in Nat
<1>1. ASSUME NEW t \in Nat PROVE Lag(S, t, N) * Raised(t, k) \in Nat
  <2>1. Lag(S, t, N) \in Nat /\ Raised(t, k) \in Nat
    BY LagType, RaisedType
  <2> QED BY <2>1
<1>2. Numbers(Weighted(S, k, N))
    BY <1>1 DEF Weighted, Numbers
<1>3. N \in Nat
    BY DEF Points
<1> QED
    BY <1>2, <1>3, TotalType DEF Moment

LEMMA MomentStep ==
    ASSUME NEW S, NEW N, Points(S, N), NEW b \in S, NEW k \in Nat
    PROVE  Cong(b * Moment(S, k, N), Moment(S, k + 1, N) + b * Moment(S \ {b}, k, N))
<1> DEFINE R == S \ {b}
           g == Weighted(S, k, N)
           h == Weighted(S, k + 1, N)
           p == Weighted(R, k, N)
<1>1. Points(R, N) /\ N \in Nat /\ b \in Nat /\ k + 1 \in Nat
    BY DEF Points
<1>2. Numbers(g)
    BY MomentType
<1>3. Numbers(h)
    BY <1>1, MomentType
<1>4. Numbers(p)
  <2> HIDE DEF R
  <2> QED BY <1>1, MomentType
<1>5. ASSUME NEW t \in 1 .. N PROVE Cong(b * g[t], h[t] + b * p[t])
  <2> DEFINE l == Lag(S, t, N)
             m == Lag(R, t, N)
             r == Raised(t, k)
             x == b * l
             y == t * l + b * m
  <2>1. t \in Nat /\ r \in Nat /\ Raised(t, k + 1) = r * t
    <3>1. t \in Nat
      BY <1>1
    <3>2. r \in Nat
      BY <3>1, RaisedType
    <3>3. Raised(t, k + 1) = r * t
      BY <1>1, <3>1, RaisedStep
    <3> QED BY <3>1, <3>2, <3>3
  <2>2. l \in Nat
    BY LagType
  <2>3. m \in Nat
    <3> HIDE DEF R
    <3> QED BY <1>1, LagType
  <2>4. Cong(x, y)
    BY LagWithout
  <2>5. g[t] = l * r /\ h[t] = l * (r * t) /\ p[t] = m * r
    BY <2>1 DEF Weighted
  <2> HIDE DEF g, h, p, l, m, r
  <2>6. x \in Int /\ y \in Int /\ r \in Int /\ x * r = b * (l * r)
        /\ y * r = l * (r * t) + b * (m * r)
    BY <1>1, <2>1, <2>2, <2>3
  <2> HIDE DEF x, y
  <2>7. Cong(x * r, y * r)
    BY <2>4, <2>6, CongFactor, Zenon
  <2> QED BY <2>5, <2>6, <2>7
<1> HIDE DEF g, h, p
<1>6. Cong(b * Total(g, N), Total(h, N) + b * Total(p, N))
    BY <1>1, <1>2, <1>3, <1>4, <1>5, TotalAlike
<1> QED
    BY <1>6 DEF g, h, p, Moment, R

\* Of one point only.
LEMMA MomentOfOne ==
    ASSUME NEW N, NEW a, Points({a}, N)
    PROVE  Cong(Moment({a}, 0, N), 1)
<1> DEFINE S == {a}
           g == Weighted(S, 0, N)
           h == [t \in Nat |-> 0]
           l == Lag(S, a, N)
<1>1. N \in Nat /\ a \in 1 .. N /\ a \in Nat
    BY DEF Points
<1>2. Numbers(g) /\ Numbers(h)
  <2>1. Numbers(g)
    <3> HIDE DEF S
    <3> QED BY MomentType DEF S
  <2> QED BY <2>1 DEF Numbers
<1>3. Total(h, N) = 0
  <2>1. \A k \in 1 .. N : h[k] = 0
    OBVIOUS
  <2> HIDE DEF h
  <2> QED BY <1>1, <1>2, <2>1, PlusIs, FoldedNothing DEF Total
<1>4. g[a] = l /\ l \in Nat
  <2>1. Raised(a, 0) = 1
    BY <1>1, RaisedType
  <2>2. l \in Nat
    <3> HIDE DEF S
    <3> QED BY LagType DEF S
  <2>3. g[a] = l * Raised(a, 0)
    BY <1>1 DEF Weighted
  <2> QED BY <2>1, <2>2, <2>3
<1>5. WithAt(g, h, a, N, 0)
  <2>1. ASSUME NEW k \in 1 .. N, k # a PROVE g[k] = 0
    <3>1. k \in Nat /\ Lag(S, k, N) = 0
      BY <2>1 DEF Lag
    <3>2. Raised(k, 0) = 1
      BY <3>1, RaisedType
    <3>3. g[k] = Lag(S, k, N) * Raised(k, 0)
      BY <3>1 DEF Weighted
    <3> QED BY <3>1, <3>2, <3>3
  <2>2. h[a] = 0 /\ \A k \in 1 .. N : h[k] = 0
    BY <1>1
  <2> HIDE DEF g, h
  <2> QED BY <2>1, <2>2 DEF WithAt
<1>6. Total(g, N) = plus[g[a]][Total(h, N)]
  <2>1. Monoid(plus, 0)
    BY PlusIs
  <2> HIDE DEF g, h
  <2> QED BY <1>1, <1>2, <1>5, <2>1, FoldedWith DEF Total
<1>7. Total(g, N) = l
    BY <1>3, <1>4, <1>6, PlusIs
<1>8. Num(S, a, N) = 1 /\ Den(S, a, N) = 1
  <2>1. Numbers(Above(S, a)) /\ Numbers(Below(S, a))
    <3> HIDE DEF S
    <3> QED BY <1>1, FactorsAre DEF S
  <2>2. \A k \in 1 .. N : Above(S, a)[k] = 1
    BY DEF Above
  <2>3. \A k \in 1 .. N : Below(S, a)[k] = 1
    BY DEF Below
  <2>4. Monoid(times, 1)
    BY TimesIs
  <2>5. Multiplied(Above(S, a), N) = 1
    BY <1>1, <2>1, <2>2, <2>4, FoldedNothing DEF Multiplied
  <2>6. Multiplied(Below(S, a), N) = 1
    BY <1>1, <2>1, <2>3, <2>4, FoldedNothing DEF Multiplied
  <2> QED BY <2>5, <2>6 DEF Num, Den
<1>9. Cong(1 * l, 1)
  <2>1. a \in S /\ Points(S, N)
    OBVIOUS
  <2>2. Cong(Den(S, a, N) * l, Num(S, a, N))
    <3> HIDE DEF S
    <3> QED BY <2>1, LagIs
  <2> HIDE DEF l
  <2> QED BY <1>8, <2>2
<1>10. 1 * l = l
    BY <1>4
<1> QED
    BY <1>7, <1>9, <1>10 DEF Moment

\* What the moments of n points are.
Interpolated(S, N, n) ==
    Cong(Moment(S, 0, N), 1) /\ \A k \in Nat : 1 <= k /\ k < n => Cong(Moment(S, k, N), 0)

LEMMA MomentsOfMore ==
    ASSUME NEW S, NEW N, Points(S, N), NEW n \in Nat \ {0}, NEW a \in S, NEW b \in S, a > b,
           Interpolated(S \ {a}, N, n), Interpolated(S \ {b}, N, n)
    PROVE  Interpolated(S, N, n + 1)
<1> DEFINE A == S \ {a}
           B == S \ {b}
           M(k) == Moment(S, k, N)
           I(k) == Moment(A, k, N)
           J(k) == Moment(B, k, N)
<1>1. a \in Nat /\ b \in Nat /\ Points(A, N) /\ Points(B, N) /\ a < Q
  <2>1. N \in Nat /\ N < Q /\ S \subseteq 1 .. N
    BY DEF Points
  <2>2. a \in 1 .. N /\ b \in 1 .. N /\ A \subseteq 1 .. N /\ B \subseteq 1 .. N
    BY <2>1
  <2>3. a \in Nat /\ b \in Nat /\ a < Q
    BY <2>1, <2>2, Order
  <2> QED BY <2>1, <2>2, <2>3 DEF Points
<1>2. ASSUME NEW k \in Nat PROVE M(k) \in Nat /\ I(k) \in Nat /\ J(k) \in Nat
  <2>1. M(k) \in Nat
    BY MomentType
  <2>2. I(k) \in Nat
    <3> HIDE DEF A
    <3> QED BY <1>1, MomentType
  <2>3. J(k) \in Nat
    <3> HIDE DEF B
    <3> QED BY <1>1, MomentType
  <2> QED BY <2>1, <2>2, <2>3
<1>3. ASSUME NEW k \in Nat
      PROVE  Cong(a * M(k), M(k + 1) + a * I(k)) /\ Cong(b * M(k), M(k + 1) + b * J(k))
    BY MomentStep
<1>4. Cong(I(0), 1) /\ Cong(J(0), 1) /\ \A k \in Nat : 1 <= k /\ k < n => Cong(J(k), 0)
    BY DEF Interpolated
<1> HIDE DEF M, I, J
\* A moment with a's or b's part at its value v.
<1>5. ASSUME NEW k \in Nat, NEW c \in Nat, NEW x \in Nat, NEW v \in Nat, Cong(x, v),
             Cong(c * M(k), M(k + 1) + c * x)
      PROVE  Cong(c * M(k), M(k + 1) + c * v)
  <2> DEFINE m == M(k + 1)
             y == c * x
             z == c * v
             u == c * M(k)
  <2>1. m \in Int /\ y \in Int /\ z \in Int /\ u \in Int /\ m + y \in Int /\ m + z \in Int
        /\ c \in Int /\ x \in Int /\ v \in Int
    BY <1>2, <1>5
  <2>2. Cong(y, z)
    BY <1>5, <2>1, CongFactor, Zenon
  <2>3. Cong(u, m + y)
    BY <1>5
  <2> HIDE DEF m, y, z, u
  <2>4. Cong(m, m)
    BY <2>1, CongSame
  <2>5. Cong(m + y, m + z)
    BY <2>1, <2>2, <2>4, CongPlus, Zenon
  <2>6. Cong(u, m + z)
    BY <2>1, <2>3, <2>5, CongOn, Zenon
  <2> QED BY <2>6 DEF m, z, u
<1>6. Cong(M(0), 1)
  <2> DEFINE m == M(0)
             o == M(0 + 1)
             d == a - b
  <2>1. m \in Nat /\ o \in Nat /\ I(0) \in Nat /\ J(0) \in Nat
    BY <1>2
  <2>2. Cong(a * M(0), M(0 + 1) + a * 1)
    BY <1>1, <1>3, <1>4, <1>5, <2>1
  <2>3. Cong(b * M(0), M(0 + 1) + b * 1)
    BY <1>1, <1>3, <1>4, <1>5, <2>1
  <2>4. d \in Nat \ {0} /\ d < Q /\ a = d + b
    BY <1>1, Order
  <2> HIDE DEF m, d
  <2>5. Cong(a * m, o + a) /\ Cong(b * m, o + b)
    BY <1>1, <2>2, <2>3 DEF m
  <2> HIDE DEF o
  <2> DEFINE p == a * m
             q == b * m
             r == o + a
             s == o + b
  <2>6. p \in Int /\ q \in Int /\ r \in Int /\ s \in Int /\ p + s = d * m + (q + s)
        /\ r + q = d * 1 + (q + s) /\ d * m \in Int /\ d * 1 \in Int /\ q + s \in Int
        /\ m \in Int /\ 1 \in Int
    BY <1>1, <2>1, <2>4
  <2>7. Cong(p, r) /\ Cong(s, q)
    BY <2>5, <2>6, CongBack
  <2> HIDE DEF p, q, r, s
  <2>8. Cong(p + s, r + q)
    BY <2>6, <2>7, CongPlus, Zenon
  <2> DEFINE x == d * m
             y == d * 1
             z == q + s
  <2>9. x \in Int /\ y \in Int /\ z \in Int /\ Cong(x + z, y + z)
    BY <2>6, <2>8
  <2>10. Cong(x, y)
    <3> HIDE DEF x, y, z
    <3> QED BY <2>9, CongLess
  <2>11. Unit(d) /\ d \in Nat
    BY <2>4, UnitBelow
  <2>12. Cong(m, 1)
    BY <2>6, <2>10, <2>11, UnitCancel
  <2> QED BY <2>12 DEF m
<1>7. ASSUME NEW k \in Nat, NEW v \in Nat, Cong(M(k), v), Cong(J(k), v)
      PROVE  Cong(M(k + 1), 0)
  <2> DEFINE m == M(k + 1)
             u == b * M(k)
             w == b * v
             t == M(k)
  <2>1. Cong(u, m + w)
    BY <1>1, <1>2, <1>3, <1>5, <1>7
  <2>2. m \in Int /\ u \in Int /\ w \in Int /\ m + w \in Int /\ 0 + w = w /\ b \in Int
        /\ t \in Int /\ v \in Int
    BY <1>1, <1>2
  <2>3. Cong(u, w)
    <3>1. Cong(t, v)
      BY <1>7
    <3> QED BY <2>2, <3>1, CongFactor, Zenon
  <2> HIDE DEF m, u, w
  <2>4. Cong(m + w, u)
    BY <2>1, <2>2, CongBack, Zenon
  <2>5. Cong(m + w, 0 + w)
    <3>1. Cong(m + w, w)
      BY <2>2, <2>3, <2>4, CongOn, Zenon
    <3> QED BY <2>2, <3>1
  <2>6. 0 \in Int
    OBVIOUS
  <2>7. Cong(m, 0)
    BY <2>2, <2>5, <2>6, CongLess, Zenon
  <2> QED BY <2>7 DEF m
<1> DEFINE T == {k \in Nat : Cong(M(k + 1), 0)}
<1>8. Cong(M(0 + 1), 0)
  <2>1. 0 \in Nat /\ 1 \in Nat
    OBVIOUS
  <2> QED BY <1>4, <1>6, <1>7, <2>1
<1>9. ASSUME NEW k \in Nat, k + 1 < n, Cong(M(k + 1), 0) PROVE Cong(M((k + 1) + 1), 0)
  <2>1. k + 1 \in Nat /\ 1 <= k + 1 /\ 0 \in Nat
    OBVIOUS
  <2>2. Cong(J(k + 1), 0)
    BY <1>4, <1>9, <2>1
  <2> QED BY <1>7, <1>9, <2>1, <2>2
<1>10. ASSUME NEW k \in Nat, 1 <= k, k < n + 1 PROVE Cong(M(k), 0)
  <2>1. k - 1 \in Nat /\ (k - 1) + 1 = k
    BY <1>10
  <2>2. T \in SUBSET Nat /\ 0 \in T
    BY <1>8
  <2>3. \A m \in Nat : m < k - 1 /\ m \in T => m + 1 \in T
    <3>1. ASSUME NEW m \in Nat, m < k - 1, Cong(M(m + 1), 0) PROVE Cong(M((m + 1) + 1), 0)
      <4>1. m + 1 < n
        BY <1>10, <3>1
      <4> QED BY <1>9, <3>1, <4>1
    <3> QED BY <3>1
  <2> HIDE DEF T
  <2>4. k - 1 \in T
    BY <2>1, <2>2, <2>3, ClimbTo
  <2> QED BY <2>1, <2>4 DEF T
<1> QED
    BY <1>6, <1>10 DEF Interpolated, M

\* Every set of n points is interpolated by.
LEMMA Moments ==
    ASSUME NEW N, NEW S, Points(S, N), NEW n \in Nat \ {0}, Cardinality(S) = n
    PROVE  Interpolated(S, N, n)
<1> DEFINE A(m) == \A T : Points(T, N) /\ Cardinality(T) = m + 1 => Interpolated(T, N, m + 1)
           B == {m \in Nat : A(m)}
<1>1. ASSUME NEW T, Points(T, N) PROVE IsFiniteSet(T)
  <2>1. N \in Nat /\ T \subseteq 1 .. N
    BY <1>1 DEF Points
  <2>2. IsFiniteSet(1 .. N)
    BY <2>1, FS_Interval
  <2> QED BY <2>1, <2>2, FS_Subset
<1>2. A(0)
  <2> SUFFICES ASSUME NEW T, Points(T, N), Cardinality(T) = 1 PROVE Interpolated(T, N, 1)
    OBVIOUS
  <2>1. PICK a : T = {a}
    <3>1. T # {}
      BY <1>1, FS_EmptySet
    <3>2. PICK a : a \in T
      BY <3>1
    <3>3. Cardinality(T \ {a}) = 0 /\ IsFiniteSet(T \ {a})
      BY <1>1, <3>2, FS_RemoveElement
    <3>4. T \ {a} = {}
      BY <3>3, FS_EmptySet
    <3> QED BY <3>2, <3>4
  <2>2. Cong(Moment(T, 0, N), 1)
    BY <2>1, MomentOfOne
  <2> QED BY <2>2 DEF Interpolated
<1>3. ASSUME NEW m \in Nat, A(m) PROVE A(m + 1)
  <2> SUFFICES ASSUME NEW T, Points(T, N), Cardinality(T) = (m + 1) + 1
               PROVE  Interpolated(T, N, (m + 1) + 1)
    OBVIOUS
  <2>1. m + 1 \in Nat \ {0} /\ m \in Nat
    OBVIOUS
  <2>2. \E a \in T, b \in T : a > b
    <3>1. PICK a : a \in T
      BY <1>1, <2>1, FS_EmptySet
    <3>2. Cardinality(T \ {a}) = m + 1 /\ IsFiniteSet(T \ {a})
      BY <1>1, <2>1, <3>1, FS_RemoveElement
    <3>3. T \ {a} # {}
      BY <3>2, <2>1, FS_EmptySet
    <3>4. PICK b : b \in T \ {a}
      BY <3>3
    <3>5. a \in Nat /\ b \in Nat
      BY <3>1, <3>4 DEF Points
    <3> QED BY <3>1, <3>4, <3>5
  <2>3. PICK a \in T, b \in T : a > b
    BY <2>2
  <2>4. ASSUME NEW c \in T PROVE Interpolated(T \ {c}, N, m + 1)
    <3>1. Cardinality(T \ {c}) = m + 1
      BY <1>1, <2>1, <2>4, FS_RemoveElement, SMTT(30)
    <3>2. Points(T \ {c}, N)
      BY DEF Points
    <3> QED BY <1>3, <3>1, <3>2
  <2>5. Interpolated(T \ {a}, N, m + 1) /\ Interpolated(T \ {b}, N, m + 1)
    BY <2>4
  <2> QED BY <2>1, <2>3, <2>5, MomentsOfMore
<1>4. n - 1 \in Nat /\ (n - 1) + 1 = n
    OBVIOUS
<1>5. B \in SUBSET Nat /\ 0 \in B
    BY <1>2
<1>6. \A m \in B : m + 1 \in B
    BY <1>3
<1> HIDE DEF B
<1>7. n - 1 \in B
    BY <1>4, <1>5, <1>6, Climb
<1> QED
    BY <1>4, <1>7 DEF B
=============================================================================
