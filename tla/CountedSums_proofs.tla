-------------------------- MODULE CountedSums_proofs --------------------------
(***************************************************************************)
(* Proofs about what a count is made of, for any group of the code's form, *)
(* any number of trustees and any threshold that the tool can try: the     *)
(* shares open the sum that was voted, what is not the share's is not      *)
(* proved, and the tool finds the same.  Then the options of any ballot.   *)
(***************************************************************************)
EXTENDS CountedSums, GroupArithmetic

----------------------------------------------------------------------------
(***************************************************************************)
(* The powers that are multiplied.                                         *)
(***************************************************************************)
\* The product that is reduced at every factor is the product, reduced.
LEMMA MultipliedModIs ==
    ASSUME NEW m \in Nat, m > 1, NEW n \in Nat, NEW s, Len(s) = n, NEW h, Numbers(h),
           \A k \in 1 .. n : s[k] = h[k]
    PROVE  MultipliedMod(s, m) = Multiplied(h, n) % m
<1> DEFINE Is(f) == f = [k \in 0 .. n |-> IF k = 0 THEN 1 ELSE (f[k - 1] * s[k]) % m]
           A(k) == Multiplied(h, k)
           g == [k \in 0 .. n |-> A(k) % m]
<1>0. m \in Nat \ {0} /\ 1 % m = 1
  <2>1. m \in Nat \ {0}
    OBVIOUS
  <2>2. m * 0 + 1 = 1 /\ 1 \in 0 .. m - 1
    BY <2>1
  <2> QED BY <2>1, <2>2, RestIs
<1>1. A(0) = 1
    BY MultipliedType
<1>2. ASSUME NEW k \in 1 .. n
      PROVE  A(k) % m = ((A(k - 1) % m) * s[k]) % m
  <2>1. k \in Nat /\ k - 1 \in Nat /\ k = (k - 1) + 1
    OBVIOUS
  <2>2. A(k) = A(k - 1) * h[k]
    BY <2>1, MultipliedStep
  <2>3. A(k - 1) \in Nat
    BY <2>1, MultipliedType
  <2>4. h[k] \in Nat /\ s[k] = h[k]
    BY <2>1, NumberAt
  <2> HIDE DEF A
  <2>5. ((A(k - 1) % m) * h[k]) % m = (A(k - 1) * h[k]) % m
    BY <1>0, <2>3, <2>4, RestOfBoth
  <2> QED BY <2>2, <2>4, <2>5
<1> HIDE DEF A
<1>3. Is(g)
  <2>1. ASSUME NEW k \in 0 .. n
        PROVE  A(k) % m = IF k = 0 THEN 1 ELSE (g[k - 1] * s[k]) % m
    <3>1. CASE k = 0
      BY <1>0, <1>1, <3>1
    <3>2. CASE k # 0
      <4>1. k \in 1 .. n /\ k - 1 \in 0 .. n
        BY <3>2
      <4>2. g[k - 1] = A(k - 1) % m
        BY <4>1
      <4> HIDE DEF g
      <4> QED BY <1>2, <3>2, <4>1, <4>2
    <3> QED BY <3>1, <3>2
  <2>2. g = [k \in 0 .. n |-> IF k = 0 THEN 1 ELSE (g[k - 1] * s[k]) % m]
    BY <2>1, Zenon
  <2> QED BY <2>2
<1> DEFINE upTo == CHOOSE f : Is(f)
<1>4. Is(upTo)
    BY <1>3
<1>5. MultipliedMod(s, m) = upTo[n]
    BY DEF MultipliedMod
<1> HIDE DEF upTo, g
<1>6. \A k \in 0 .. n : upTo[k] = IF k = 0 THEN 1 ELSE (upTo[k - 1] * s[k]) % m
    BY <1>4
<1> DEFINE S == {k \in Nat : upTo[k] = A(k) % m}
<1>7. ASSUME NEW k \in Nat, k < n, upTo[k] = A(k) % m PROVE upTo[k + 1] = A(k + 1) % m
  <2>1. k + 1 \in 0 .. n /\ k + 1 \in 1 .. n /\ k + 1 # 0 /\ (k + 1) - 1 = k
    BY <1>7
  <2>2. upTo[k + 1] = (upTo[k] * s[k + 1]) % m
    BY <1>6, <2>1
  <2>3. A(k + 1) % m = ((A(k) % m) * s[k + 1]) % m
    BY <1>2, <2>1
  <2> QED BY <1>7, <2>2, <2>3
<1>8. S \in SUBSET Nat /\ 0 \in S /\ \A k \in Nat : k < n /\ k \in S => k + 1 \in S
  <2>1. upTo[0] = 1
    BY <1>6
  <2> QED BY <1>0, <1>1, <1>7, <2>1
<1> HIDE DEF S
<1>9. n \in S
    BY <1>8, ClimbTo
<1> QED
    BY <1>5, <1>9 DEF S, A

----------------------------------------------------------------------------
(***************************************************************************)
(* The shares: a polynomial's values, and what they give at 0.             *)
(***************************************************************************)
Alongside(f, g, n) == \A k \in 1 .. n : f[k - 1] = g[k - 1] => f[k] = g[k]
SameTo(f, g, n)    == \A k \in 0 .. n : f[k] = g[k]

LEMMA AllAlong ==
    ASSUME NEW n \in Nat, NEW f, NEW g, f[0] = g[0], Alongside(f, g, n)
    PROVE  SameTo(f, g, n)
<1> DEFINE S == {k \in Nat : f[k] = g[k]}
<1>1. ASSUME NEW l \in 0 .. n, NEW k \in Nat, k < l, f[k] = g[k] PROVE f[k + 1] = g[k + 1]
  <2>1. k + 1 \in 1 .. n /\ (k + 1) - 1 = k
    BY <1>1
  <2>2. f[(k + 1) - 1] = g[(k + 1) - 1] => f[k + 1] = g[k + 1]
    BY <2>1 DEF Alongside
  <2> QED BY <1>1, <2>1, <2>2
<1>2. ASSUME NEW l \in 0 .. n PROVE f[l] = g[l]
  <2>1. S \in SUBSET Nat /\ 0 \in S /\ l \in Nat
    OBVIOUS
  <2>2. \A k \in Nat : k < l /\ k \in S => k + 1 \in S
    BY <1>1
  <2> HIDE DEF S
  <2>3. l \in S
    BY <2>1, <2>2, ClimbTo
  <2> QED BY <2>3 DEF S
<1> QED
    BY <1>2 DEF SameTo

\* What the coefficients contribute to a value.
Terms(c, x) == [k \in Nat |-> IF k = 0 THEN 0 ELSE c[k] * Raised(x, k - 1)]

LEMMA TermsAre ==
    ASSUME NEW c, Numbers(c), NEW x \in Nat
    PROVE  Numbers(Terms(c, x)) /\ \A k \in Nat \ {0} : Terms(c, x)[k] = c[k] * Raised(x, k - 1)
<1>1. ASSUME NEW k \in Nat, k # 0 PROVE c[k] * Raised(x, k - 1) \in Nat
  <2>1. c[k] \in Nat /\ k - 1 \in Nat
    BY <1>1, NumberAt
  <2>2. Raised(x, k - 1) \in Nat
    BY <2>1, RaisedType
  <2> QED BY <2>1, <2>2
<1>2. \A k \in Nat : Terms(c, x)[k] = IF k = 0 THEN 0 ELSE c[k] * Raised(x, k - 1)
    BY DEF Terms
<1> QED
    BY <1>1, <1>2 DEF Terms, Numbers

LEMMA ShareIs ==
    ASSUME NEW x \in Opening, x \in Nat, NEW n \in Nat, NEW coefficients, Len(coefficients) = n,
           NEW c, Numbers(c), \A k \in 1 .. n : coefficients[k] = c[k]
    PROVE  Shares(coefficients)[x] = Total(Terms(c, x), n) % Q
<1> DEFINE IsPower(f) == f = [k \in 0 .. n |-> IF k = 0 THEN 1 ELSE (f[k - 1] * x) % Q]
           p == [k \in 0 .. n |-> Raised(x, k) % Q]
           power == CHOOSE f : IsPower(f)
           IsValue(f) == f = [k \in 0 .. n |->
                IF k = 0 THEN 0 ELSE (f[k - 1] + coefficients[k] * power[k - 1]) % Q]
           A(k) == Total(Terms(c, x), k)
           v == [k \in 0 .. n |-> A(k) % Q]
           value == CHOOSE f : IsValue(f)
<1>1. Shares(coefficients)[x] = value[n]
    BY DEF Shares
<1>2. Q \in Nat \ {0} /\ 1 % Q = 1 /\ 0 % Q = 0
  <2>1. Q \in Nat \ {0} /\ 1 \in 0 .. Q - 1 /\ 0 \in 0 .. Q - 1
    BY Order
  <2>2. (Q * 0 + 1) % Q = 1 /\ (Q * 0 + 0) % Q = 0
    BY <2>1, RestIs
  <2>3. Q * 0 + 1 = 1 /\ Q * 0 + 0 = 0
    BY <2>1
  <2> QED BY <2>1, <2>2, <2>3
<1>3. ASSUME NEW k \in 1 .. n PROVE Raised(x, k) % Q = ((Raised(x, k - 1) % Q) * x) % Q
  <2>1. k - 1 \in Nat /\ k \in Nat /\ k = (k - 1) + 1
    OBVIOUS
  <2>2. Raised(x, k) = Raised(x, k - 1) * x /\ Raised(x, k - 1) \in Nat
    BY <2>1, RaisedStep, RaisedType
  <2> QED BY <1>2, <2>2, RestOfBoth
<1>4. IsPower(p)
  <2>1. ASSUME NEW k \in 0 .. n
        PROVE  Raised(x, k) % Q = IF k = 0 THEN 1 ELSE (p[k - 1] * x) % Q
    <3>1. CASE k = 0
      BY <1>2, <3>1, RaisedType
    <3>2. CASE k # 0
      <4>1. k \in 1 .. n /\ k - 1 \in 0 .. n
        BY <3>2
      <4>2. p[k - 1] = Raised(x, k - 1) % Q
        BY <4>1
      <4> HIDE DEF p
      <4> QED BY <1>3, <3>2, <4>1, <4>2
    <3> QED BY <3>1, <3>2
  <2>2. p = [k \in 0 .. n |-> IF k = 0 THEN 1 ELSE (p[k - 1] * x) % Q]
    BY <2>1, Zenon
  <2> QED BY <2>2
<1>5. IsPower(power)
    BY <1>4
<1>6. \A k \in 0 .. n : power[k] = p[k]
  <2>1. ASSUME NEW f, IsPower(f)
        PROVE  f[0] = 1 /\ \A k \in 1 .. n : f[k] = (f[k - 1] * x) % Q
    <3>1. \A k \in 0 .. n : f[k] = IF k = 0 THEN 1 ELSE (f[k - 1] * x) % Q
      BY <2>1
    <3> QED BY <3>1
  <2>2. power[0] = 1 /\ \A k \in 1 .. n : power[k] = (power[k - 1] * x) % Q
    BY <1>5, <2>1
  <2>3. p[0] = 1 /\ \A k \in 1 .. n : p[k] = (p[k - 1] * x) % Q
    BY <1>4, <2>1
  <2> HIDE DEF p, power
  <2>4. power[0] = p[0]
    BY <2>2, <2>3
  <2>5. Alongside(power, p, n)
    BY <2>2, <2>3 DEF Alongside
  <2>6. SameTo(power, p, n)
    BY <2>4, <2>5, AllAlong
  <2> QED BY <2>6 DEF SameTo
<1>7. ASSUME NEW k \in 1 .. n PROVE power[k - 1] = Raised(x, k - 1) % Q
    BY <1>6
<1> HIDE DEF power, p
<1>8. A(0) = 0
    BY TermsAre, TotalType
<1>9. ASSUME NEW k \in 1 .. n
      PROVE  A(k) % Q = ((A(k - 1) % Q) + coefficients[k] * power[k - 1]) % Q
  <2> DEFINE a == A(k - 1)
             r == Raised(x, k - 1)
             d == c[k]
  <2>1. k - 1 \in Nat /\ k \in Nat /\ k # 0 /\ k = (k - 1) + 1
    OBVIOUS
  <2>2. A(k) = a + d * r
    <3>1. A(k) = A(k - 1) + Terms(c, x)[k]
      BY <2>1, TermsAre, TotalStep
    <3>2. Terms(c, x)[k] = d * r
      BY <2>1, TermsAre
    <3> QED BY <3>1, <3>2
  <2>3. a \in Nat /\ r \in Nat /\ d \in Nat
    <3>1. a \in Nat
      BY <2>1, TermsAre, TotalType
    <3>2. r \in Nat
      BY <2>1, RaisedType
    <3>3. d \in Nat
      BY <2>1, NumberAt
    <3> QED BY <3>1, <3>2, <3>3
  <2>4. coefficients[k] = d /\ power[k - 1] = r % Q
    BY <1>7
  <2> HIDE DEF A, a, r, d
  <2>5. (a + d * r) % Q = ((a % Q) + d * (r % Q)) % Q
    <3>0. (d * (r % Q)) % Q = (d * r) % Q
      BY <1>2, <2>3, RestOfBoth
    <3> DEFINE b == d * r
               e == d * (r % Q)
               f == a % Q
    <3>1. r % Q \in Nat /\ f \in Nat /\ Cong(f, a)
      BY <2>3, CongRest
    <3>2. b \in Nat /\ e \in Nat /\ Cong(e, b)
      <4>1. b \in Nat /\ e \in Nat
        BY <2>3, <3>1
      <4>2. e % Q = b % Q /\ e \in Int
        BY <3>0, <4>1
      <4>3. Cong(e, e % Q) /\ Cong(b % Q, b) /\ b % Q \in Int
        BY <4>1, CongRest
      <4> HIDE DEF e, b
      <4> QED BY <4>1, <4>2, <4>3, CongOn
    <3> HIDE DEF b, e, f
    <3>3. Cong(f + e, a + b)
      BY <2>3, <3>1, <3>2, CongPlus
    <3> DEFINE s == f + e
               t == a + b
    <3>4. s \in Nat /\ t \in Nat
      BY <2>3, <3>1, <3>2
    <3>5. Cong(s, t)
      BY <3>3
    <3> HIDE DEF s, t
    <3>6. s % Q \in Scalars /\ t % Q \in Scalars /\ Cong(s % Q, s) /\ Cong(t, t % Q)
          /\ s % Q \in Int /\ t % Q \in Int
      BY <3>4, CongRest, SMTT(30)
    <3>7. Cong(s % Q, t % Q)
      BY <3>4, <3>5, <3>6, CongOn
    <3>8. s % Q = t % Q
      BY <3>6, <3>7, CongEqual
    <3> QED BY <3>8 DEF s, t, f, e, b
  <2> QED BY <2>2, <2>4, <2>5 DEF a
<1> HIDE DEF A
<1>10. IsValue(v)
  <2>1. ASSUME NEW k \in 0 .. n
        PROVE  A(k) % Q = IF k = 0 THEN 0 ELSE (v[k - 1] + coefficients[k] * power[k - 1]) % Q
    <3>1. CASE k = 0
      BY <1>2, <1>8, <3>1
    <3>2. CASE k # 0
      <4>1. k \in 1 .. n /\ k - 1 \in 0 .. n
        BY <3>2
      <4>2. v[k - 1] = A(k - 1) % Q
        BY <4>1
      <4> HIDE DEF v
      <4> QED BY <1>9, <3>2, <4>1, <4>2
    <3> QED BY <3>1, <3>2
  <2>2. v = [k \in 0 .. n |->
                IF k = 0 THEN 0 ELSE (v[k - 1] + coefficients[k] * power[k - 1]) % Q]
    BY <2>1, Zenon
  <2> QED BY <2>2
<1>11. IsValue(value)
    BY <1>10
<1>12. \A k \in 0 .. n : value[k] = v[k]
  <2>1. ASSUME NEW f, IsValue(f)
        PROVE  /\ f[0] = 0
               /\ \A k \in 1 .. n : f[k] = (f[k - 1] + coefficients[k] * power[k - 1]) % Q
    <3>1. \A k \in 0 .. n :
             f[k] = IF k = 0 THEN 0 ELSE (f[k - 1] + coefficients[k] * power[k - 1]) % Q
      BY <2>1
    <3> QED BY <3>1
  <2>2. value[0] = 0
        /\ \A k \in 1 .. n : value[k] = (value[k - 1] + coefficients[k] * power[k - 1]) % Q
    BY <1>11, <2>1
  <2>3. v[0] = 0 /\ \A k \in 1 .. n : v[k] = (v[k - 1] + coefficients[k] * power[k - 1]) % Q
    BY <1>10, <2>1
  <2> HIDE DEF v, value
  <2>4. value[0] = v[0]
    BY <2>2, <2>3
  <2>5. Alongside(value, v, n)
    BY <2>2, <2>3 DEF Alongside
  <2>6. SameTo(value, v, n)
    BY <2>4, <2>5, AllAlong
  <2> QED BY <2>6 DEF SameTo
<1>13. value[n] = A(n) % Q
  <2>1. value[n] = v[n]
    BY <1>12
  <2> HIDE DEF value
  <2> QED BY <2>1
<1> QED
    BY <1>1, <1>13 DEF A

\* Sums of sums.
LEMMA TotalPlus ==
    ASSUME NEW g, Numbers(g), NEW h, Numbers(h), NEW p, Numbers(p), NEW n \in Nat, NEW b \in Nat,
           \A k \in 1 .. n : g[k] = p[k] + b * h[k]
    PROVE  Total(g, n) = Total(p, n) + b * Total(h, n)
<1> DEFINE A(k) == Total(g, k)
           B(k) == Total(h, k)
           C(k) == Total(p, k)
           S == {k \in Nat : A(k) = C(k) + b * B(k)}
<1>1. ASSUME NEW k \in Nat
      PROVE  /\ B(k) \in Nat /\ C(k) \in Nat
             /\ A(k + 1) = A(k) + g[k + 1] /\ B(k + 1) = B(k) + h[k + 1]
             /\ C(k + 1) = C(k) + p[k + 1]
  <2>1. A(k + 1) = A(k) + g[k + 1]
    BY TotalStep
  <2>2. B(k) \in Nat /\ B(k + 1) = B(k) + h[k + 1]
    BY TotalType, TotalStep
  <2>3. C(k) \in Nat /\ C(k + 1) = C(k) + p[k + 1]
    BY TotalType, TotalStep
  <2> QED BY <2>1, <2>2, <2>3
<1>2. A(0) = C(0) + b * B(0)
  <2>1. A(0) = 0
    BY TotalType
  <2>2. B(0) = 0
    BY TotalType
  <2>3. C(0) = 0
    BY TotalType
  <2> HIDE DEF A, B, C
  <2> QED BY <2>1, <2>2, <2>3
<1> HIDE DEF A, B, C
<1>3. ASSUME NEW k \in Nat, k < n, A(k) = C(k) + b * B(k)
      PROVE  A(k + 1) = C(k + 1) + b * B(k + 1)
  <2> DEFINE u == B(k)
             v == C(k)
             x == h[k + 1]
             y == p[k + 1]
  <2>1. k + 1 \in 1 .. n /\ k + 1 \in Nat
    BY <1>3
  <2>2. x \in Nat /\ y \in Nat /\ g[k + 1] = y + b * x
    BY <2>1, NumberAt
  <2>3. u \in Nat /\ v \in Nat
    BY <1>1
  <2>4. A(k + 1) = (v + b * u) + (y + b * x) /\ B(k + 1) = u + x /\ C(k + 1) = v + y
    BY <1>1, <1>3, <2>2
  <2> HIDE DEF u, v, x, y
  <2>5. (v + b * u) + (y + b * x) = (v + y) + b * (u + x)
    BY <2>2, <2>3
  <2> QED BY <2>4, <2>5
<1>4. S \in SUBSET Nat /\ 0 \in S /\ \A k \in Nat : k < n /\ k \in S => k + 1 \in S
    BY <1>2, <1>3
<1> HIDE DEF S
<1>5. n \in S
    BY <1>4, ClimbTo
<1> QED
    BY <1>5 DEF S, A, B, C

LEMMA TotalCong ==
    ASSUME NEW g, Numbers(g), NEW h, Numbers(h), NEW n \in Nat,
           \A k \in 1 .. n : Cong(g[k], h[k])
    PROVE  Cong(Total(g, n), Total(h, n))
<1> DEFINE A(k) == Total(g, k)
           B(k) == Total(h, k)
           S == {k \in Nat : Cong(A(k), B(k))}
<1>1. ASSUME NEW k \in Nat
      PROVE  /\ A(k) \in Nat /\ B(k) \in Nat
             /\ A(k + 1) = A(k) + g[k + 1] /\ B(k + 1) = B(k) + h[k + 1]
  <2>1. A(k) \in Nat /\ A(k + 1) = A(k) + g[k + 1]
    BY TotalType, TotalStep
  <2>2. B(k) \in Nat /\ B(k + 1) = B(k) + h[k + 1]
    BY TotalType, TotalStep
  <2> QED BY <2>1, <2>2
<1>2. Cong(A(0), B(0))
  <2>1. A(0) = 0
    BY TotalType
  <2>2. B(0) = 0
    BY TotalType
  <2>3. Cong(0, 0)
    BY CongSame
  <2> HIDE DEF A, B
  <2> QED BY <2>1, <2>2, <2>3
<1> HIDE DEF A, B
<1>3. ASSUME NEW k \in Nat, k < n, Cong(A(k), B(k)) PROVE Cong(A(k + 1), B(k + 1))
  <2> DEFINE u == A(k)
             v == B(k)
             x == g[k + 1]
             y == h[k + 1]
  <2>1. k + 1 \in 1 .. n /\ k + 1 \in Nat
    BY <1>3
  <2>2. x \in Int /\ y \in Int /\ Cong(x, y)
    BY <2>1, NumberAt
  <2>3. u \in Int /\ v \in Int /\ Cong(u, v)
    BY <1>1, <1>3
  <2>4. A(k + 1) = u + x /\ B(k + 1) = v + y
    BY <1>1
  <2> HIDE DEF u, v, x, y
  <2>5. Cong(u + x, v + y)
    BY <2>2, <2>3, CongPlus, Zenon
  <2> QED BY <2>4, <2>5
<1>4. S \in SUBSET Nat /\ 0 \in S /\ \A k \in Nat : k < n /\ k \in S => k + 1 \in S
    BY <1>2, <1>3
<1> HIDE DEF S
<1>5. n \in S
    BY <1>4, ClimbTo
<1> QED
    BY <1>5 DEF S, A, B

\* Every point's part of a value at 0.
Parts(S, share, N) == [t \in Nat |-> Lag(S, t, N) * share[t]]

LEMMA PartsAre ==
    ASSUME NEW S, NEW N, Points(S, N), NEW share, Numbers(share)
    PROVE  /\ Numbers(Parts(S, share, N))
           /\ \A t \in Nat : Parts(S, share, N)[t] = Lag(S, t, N) * share[t]
<1>1. ASSUME NEW t \in Nat PROVE Lag(S, t, N) * share[t] \in Nat
  <2>1. Lag(S, t, N) \in Nat /\ share[t] \in Nat
    BY LagType, NumberAt
  <2> QED BY <2>1
<1>2. \A t \in Nat : Parts(S, share, N)[t] = Lag(S, t, N) * share[t]
    BY DEF Parts
<1>3. Parts(S, share, N) = [t \in Nat |-> Parts(S, share, N)[t]]
    BY DEF Parts
<1> QED
    BY <1>1, <1>2, <1>3 DEF Numbers

\* The polynomial's values, from as many coefficients.
Values(c, k) == [t \in Nat |-> Total(Terms(c, t), k)]

LEMMA ValuesAre ==
    ASSUME NEW c, Numbers(c), NEW k \in Nat
    PROVE  Numbers(Values(c, k)) /\ \A t \in Nat : Values(c, k)[t] = Total(Terms(c, t), k)
<1>1. ASSUME NEW t \in Nat PROVE Total(Terms(c, t), k) \in Nat
    BY TermsAre, TotalType
<1>2. \A t \in Nat : Values(c, k)[t] = Total(Terms(c, t), k)
    BY DEF Values
<1>3. Values(c, k) = [t \in Nat |-> Values(c, k)[t]]
    BY DEF Values
<1> QED
    BY <1>1, <1>2, <1>3 DEF Numbers

LEMMA OneCoefficientMore ==
    ASSUME NEW S, NEW N, Points(S, N), NEW c, Numbers(c), NEW k \in Nat
    PROVE  Total(Parts(S, Values(c, k + 1), N), N)
             = Total(Parts(S, Values(c, k), N), N) + c[k + 1] * Moment(S, k, N)
<1> DEFINE g == Parts(S, Values(c, k + 1), N)
           p == Parts(S, Values(c, k), N)
           h == Weighted(S, k, N)
           b == c[k + 1]
<1>1. Numbers(g)
    BY PartsAre, ValuesAre
<1>2. Numbers(p)
    BY PartsAre, ValuesAre
<1>3. Numbers(h)
    BY MomentType
<1>4. b \in Nat /\ N \in Nat
    BY NumberAt DEF Points
<1>5. ASSUME NEW t \in Nat PROVE g[t] = p[t] + b * h[t]
  <2> DEFINE l == Lag(S, t, N)
             v == Total(Terms(c, t), k)
             r == Raised(t, k)
  <2>1. v \in Nat
    BY TermsAre, TotalType
  <2>2. l \in Nat
    BY LagType
  <2>3. r \in Nat
    BY RaisedType
  <2>4. Total(Terms(c, t), k + 1) = v + b * r
    <3>0. k + 1 \in Nat /\ Numbers(Terms(c, t))
      BY TermsAre
    <3>1. Total(Terms(c, t), k + 1) = v + Terms(c, t)[k + 1]
      <4> DEFINE f == Terms(c, t)
                 m == k + 1
      <4>1. m \in Nat /\ m = k + 1 /\ Numbers(f)
        BY <3>0
      <4> HIDE DEF f, m
      <4>2. Total(f, m) = Total(f, k) + f[m]
        BY <4>1, TotalStep
      <4> QED BY <4>2 DEF f, m
    <3>2. k + 1 \in Nat /\ k + 1 # 0 /\ (k + 1) - 1 = k
      OBVIOUS
    <3>3. Terms(c, t)[k + 1] = b * r
      BY <3>2, TermsAre
    <3> QED BY <3>1, <3>3
  <2>5. p[t] = l * v
    <3>1. p[t] = l * Values(c, k)[t]
      BY ValuesAre, PartsAre
    <3>2. Values(c, k)[t] = v
      BY ValuesAre
    <3> QED BY <3>1, <3>2
  <2>6. g[t] = l * (v + b * r)
    <3>1. g[t] = l * Values(c, k + 1)[t]
      BY ValuesAre, PartsAre
    <3>2. Values(c, k + 1)[t] = Total(Terms(c, t), k + 1)
      BY ValuesAre
    <3> QED BY <2>4, <3>1, <3>2
  <2>7. h[t] = l * r
    BY DEF Weighted
  <2> HIDE DEF g, p, h, b, l, v, r
  <2>8. l * (v + b * r) = l * v + b * (l * r)
    BY <1>4, <2>1, <2>2, <2>3
  <2> QED BY <2>5, <2>6, <2>7, <2>8
<1> HIDE DEF g, p, h, b
<1>6. \A t \in 1 .. N : g[t] = p[t] + b * h[t]
    BY <1>4, <1>5
<1>7. Total(g, N) = Total(p, N) + b * Total(h, N)
    BY <1>1, <1>2, <1>3, <1>4, <1>6, TotalPlus
<1> QED
    BY <1>7 DEF g, p, h, b, Moment

\* Of a polynomial with no more coefficients than there are points, it is the first.
LEMMA ValueAtZero ==
    ASSUME NEW S, NEW N, Points(S, N), NEW n \in Nat \ {0}, Interpolated(S, N, n),
           NEW c, Numbers(c), NEW k \in Nat, 1 <= k, k <= n
    PROVE  Cong(Total(Parts(S, Values(c, k), N), N), c[1])
<1> DEFINE A(m) == Total(Parts(S, Values(c, m), N), N)
           M(m) == Moment(S, m, N)
           T == {m \in Nat : Cong(A(m + 1), c[1])}
<1>1. ASSUME NEW m \in Nat
      PROVE  A(m) \in Nat /\ M(m) \in Nat /\ c[m + 1] \in Nat /\ A(m + 1) = A(m) + c[m + 1] * M(m)
  <2>1. A(m) \in Nat
    <3>1. Numbers(Parts(S, Values(c, m), N)) /\ N \in Nat
      BY ValuesAre, PartsAre DEF Points
    <3> QED BY <3>1, TotalType
  <2>2. M(m) \in Nat
    BY MomentType
  <2>3. c[m + 1] \in Nat
    BY NumberAt
  <2> QED BY <2>1, <2>2, <2>3, OneCoefficientMore
<1>2. A(0) = 0
  <2> DEFINE g == Parts(S, Values(c, 0), N)
  <2>1. Numbers(g) /\ N \in Nat
    BY ValuesAre, PartsAre DEF Points
  <2>2. ASSUME NEW t \in Nat PROVE g[t] = 0
    <3>1. g[t] = Lag(S, t, N) * Values(c, 0)[t]
      BY ValuesAre, PartsAre
    <3>2. Values(c, 0)[t] = Total(Terms(c, t), 0)
      BY ValuesAre
    <3>3. Total(Terms(c, t), 0) = 0
      BY TermsAre, TotalType
    <3>4. Lag(S, t, N) \in Nat
      BY LagType
    <3> HIDE DEF g
    <3> QED BY <3>1, <3>2, <3>3, <3>4
  <2> HIDE DEF g
  <2>3. \A t \in 1 .. N : g[t] = 0
    BY <2>1, <2>2
  <2>4. Folded(plus, 0, g, N) = 0
    BY <2>1, <2>3, PlusIs, FoldedNothing
  <2> QED BY <2>4 DEF g, Total
<1>3. Cong(M(0), 1) /\ \A m \in Nat : 1 <= m /\ m < n => Cong(M(m), 0)
    BY DEF Interpolated
<1> HIDE DEF A, M
<1>4. Cong(A(0 + 1), c[1])
  <2> DEFINE a == c[1]
             m == M(0)
  <2>1. a \in Int /\ m \in Int /\ 1 \in Int /\ A(0 + 1) = a * m /\ a * 1 = a
    BY <1>1, <1>2
  <2>2. Cong(m, 1)
    BY <1>3
  <2> HIDE DEF a, m
  <2>3. Cong(a * m, a * 1)
    BY <2>1, <2>2, CongFactor, Zenon
  <2> QED BY <2>1, <2>3 DEF a
<1>5. ASSUME NEW m \in Nat, m < k - 1, Cong(A(m + 1), c[1]) PROVE Cong(A((m + 1) + 1), c[1])
  <2> DEFINE a == A(m + 1)
             b == c[(m + 1) + 1]
             w == M(m + 1)
             f == c[1]
             x == b * w
             y == b * 0
  <2>1. m + 1 \in Nat /\ 1 <= m + 1 /\ m + 1 < n /\ 0 + 1 = 1
    BY <1>5
  <2>2. a \in Int /\ b \in Int /\ w \in Int /\ A((m + 1) + 1) = a + x /\ 0 \in Int
    BY <1>1, <2>1
  <2>3. Cong(w, 0)
    BY <1>3, <2>1
  <2>4. f \in Int
    BY NumberAt
  <2>5. Cong(a, f)
    BY <1>5
  <2> HIDE DEF a, b, w, f
  <2>6. Cong(x, y)
    BY <2>2, <2>3, CongFactor, Zenon
  <2>7. x \in Int /\ y \in Int /\ f + y = f
    BY <2>2, <2>4
  <2> HIDE DEF x, y
  <2>8. Cong(a + x, f + y)
    BY <2>2, <2>4, <2>5, <2>6, <2>7, CongPlus, Zenon
  <2> QED BY <2>2, <2>7, <2>8 DEF f
<1>6. k - 1 \in Nat /\ (k - 1) + 1 = k
    OBVIOUS
<1>7. T \in SUBSET Nat /\ 0 \in T /\ \A m \in Nat : m < k - 1 /\ m \in T => m + 1 \in T
    BY <1>4, <1>5
<1> HIDE DEF T
<1>8. k - 1 \in T
    BY <1>6, <1>7, ClimbTo
<1> QED
    BY <1>6, <1>8 DEF T, A

LEMMA SharesMeet ==
    ASSUME NEW S, NEW N, Points(S, N), NEW n \in Nat \ {0}, Cardinality(S) = n,
           NEW c, Numbers(c), NEW k \in Nat, 1 <= k, k <= n,
           NEW share, Numbers(share), \A t \in S : share[t] = Values(c, k)[t] % Q
    PROVE  Cong(Total(Parts(S, share, N), N), c[1])
<1> DEFINE g == Parts(S, share, N)
           h == Parts(S, Values(c, k), N)
<1>1. Numbers(g) /\ Numbers(h) /\ N \in Nat
  <2>1. Numbers(g)
    BY PartsAre
  <2>2. Numbers(h)
    BY ValuesAre, PartsAre
  <2> QED BY <2>1, <2>2 DEF Points
<1>2. Cong(Total(h, N), c[1])
    BY Moments, ValueAtZero
<1>3. ASSUME NEW t \in Nat PROVE Cong(g[t], h[t])
  <2> DEFINE l == Lag(S, t, N)
             v == Values(c, k)[t]
             s == share[t]
  <2>1. l \in Nat /\ v \in Nat /\ s \in Nat
    <3>1. l \in Nat
      BY LagType
    <3>2. v \in Nat
      BY ValuesAre, NumberAt
    <3>3. s \in Nat
      BY NumberAt
    <3> QED BY <3>1, <3>2, <3>3
  <2>2. g[t] = l * s
    BY PartsAre
  <2>3. h[t] = l * v
    BY ValuesAre, PartsAre
  <2>4. CASE t \in S
    <3>1. s = v % Q
      BY <2>4
    <3> HIDE DEF l, v, s, g, h
    <3>2. Cong(v % Q, v)
      BY <2>1, CongRest
    <3>3. Cong(s, v) /\ s \in Int /\ v \in Int /\ l \in Int
      BY <2>1, <3>1, <3>2
    <3>4. Cong(l * s, l * v)
      BY <3>3, CongFactor, Zenon
    <3> QED BY <2>2, <2>3, <3>4
  <2>5. CASE t \notin S
    <3>1. l = 0
      BY <2>5 DEF Lag
    <3> HIDE DEF l, v, s, g, h
    <3>2. g[t] = 0 /\ h[t] = 0
      BY <2>1, <2>2, <2>3, <3>1
    <3> QED BY <3>2, CongSame
  <2> QED BY <2>4, <2>5
<1> HIDE DEF g, h
<1>4. \A t \in 1 .. N : Cong(g[t], h[t])
    BY <1>1, <1>3
<1> DEFINE x == Total(g, N)
           y == Total(h, N)
           z == c[1]
<1>5. Cong(x, y)
    BY <1>1, <1>4, TotalCong
<1>6. x \in Int /\ y \in Int /\ z \in Int
  <2>1. x \in Nat
    BY <1>1, TotalType
  <2>2. y \in Nat
    BY <1>1, TotalType
  <2>3. z \in Nat
    BY NumberAt
  <2> QED BY <2>1, <2>2, <2>3
<1>7. Cong(y, z)
    BY <1>2
<1> HIDE DEF x, y, z
<1>8. Cong(x, z)
    BY <1>5, <1>6, <1>7, CongOn, Zenon
<1> QED
    BY <1>8 DEF x, z, g

----------------------------------------------------------------------------
(***************************************************************************)
(* Lists of trustees, each once.                                           *)
(***************************************************************************)
\* A list of as many elements as it has places has each of them once.
LEMMA ListedOnce ==
    ASSUME NEW n \in Nat, NEW N \in Nat, NEW x \in [1 .. n -> 1 .. N],
           Cardinality({x[k] : k \in 1 .. n}) = n
    PROVE  /\ Listed(x, n, N) /\ FirstOf(x, n) \subseteq 1 .. N
           /\ Cardinality(FirstOf(x, n)) = n
<1> DEFINE S == {x[k] : k \in 1 .. n}
<1>1. x \in Surjection(1 .. n, S)
    BY DEF Surjection
<1>2. IsFiniteSet(1 .. n) /\ Cardinality(1 .. n) = n
    BY FS_Interval
<1>3. x \in Injection(1 .. n, S)
    BY <1>1, <1>2, FS_Surjection
<1>4. \A i \in 1 .. n, j \in 1 .. n : x[i] = x[j] => i = j
    BY <1>3 DEF Injection, IsInjective
<1> QED
    BY <1>4 DEF Listed, FirstOf

\* What is multiplied along such a list is multiplied over its elements.
LEMMA MultipliedAlong ==
    ASSUME NEW m \in Nat, m > 1, NEW n \in Nat, NEW N \in Nat, NEW x, Listed(x, n, N),
           NEW f, Numbers(f), NEW s, Len(s) = n, \A k \in 1 .. n : s[k] = f[x[k]]
    PROVE  MultipliedMod(s, m) = Multiplied(Only(f, FirstOf(x, n), 1), N) % m
<1> DEFINE h == Along(f, x, n, 1)
<1>1. \A k \in 1 .. n : x[k] \in Nat
    BY DEF Listed
<1>2. Numbers(h)
    BY <1>1, NumberAt DEF Along, Numbers
<1>3. \A k \in 1 .. n : s[k] = h[k]
    BY DEF Along
<1>4. Multiplied(h, n) = Multiplied(Only(f, FirstOf(x, n), 1), N)
    BY TimesIs, FoldedList DEF Multiplied
<1> HIDE DEF h
<1>5. MultipliedMod(s, m) = Multiplied(h, n) % m
    BY <1>2, <1>3, MultipliedModIs
<1> QED
    BY <1>4, <1>5

LEMMA LambdaIs ==
    ASSUME NEW n \in Nat, NEW N \in Nat, N < Q, NEW x, Listed(x, n, N), NEW t \in FirstOf(x, n)
    PROVE  Lambda(x, t) = Lag(FirstOf(x, n), t, N)
<1> DEFINE S == FirstOf(x, n)
           f == [j \in Nat |-> IF j = t THEN 1 ELSE j]
           g == [j \in Nat |-> IF j = t THEN 1 ELSE (Q + j - t) % Q]
           s == [k \in 1 .. n |-> IF x[k] = t THEN 1 ELSE x[k]]
           r == [k \in 1 .. n |-> IF x[k] = t THEN 1 ELSE (Q + x[k] - t) % Q]
<1>1. DOMAIN x = 1 .. n /\ \A k \in 1 .. n : x[k] \in Nat /\ x[k] \in 1 .. N
    BY DEF Listed
<1>2. S \subseteq 1 .. N /\ t \in 1 .. N /\ Q \in Nat /\ Q > 1
    BY <1>1, Order, SMTT(30) DEF FirstOf
<1>3. Numbers(f)
    BY DEF Numbers
<1>4. Numbers(g)
  <2>1. ASSUME NEW j \in Nat PROVE (Q + j - t) % Q \in Nat
    <3>1. Q + j - t \in Nat
      BY <1>2
    <3> DEFINE a == Q + j - t
    <3> HIDE DEF a
    <3>2. a \in Nat => a % Q \in Nat
      BY CongRest
    <3> QED BY <3>1, <3>2 DEF a
  <2> QED BY <2>1 DEF Numbers
<1>5. Len(s) = n /\ Len(r) = n
    OBVIOUS
<1>6. \A k \in 1 .. n : s[k] = f[x[k]]
    BY <1>1
<1>7. \A k \in 1 .. n : r[k] = g[x[k]]
    BY <1>1
<1>8. Only(f, S, 1) = Above(S, t) /\ Only(g, S, 1) = Below(S, t)
    BY DEF Only, Above, Below
<1>9. Lambda(x, t)
        = (MultipliedMod(s, Q) * ModPow(MultipliedMod(r, Q), Q - 2, Q)) % Q
    BY <1>1 DEF Lambda
<1> HIDE DEF f, g, s, r
<1>10. MultipliedMod(s, Q) = Num(S, t, N) % Q
    BY <1>2, <1>3, <1>5, <1>6, <1>8, MultipliedAlong DEF Num
<1>11. MultipliedMod(r, Q) = Den(S, t, N) % Q
    BY <1>2, <1>4, <1>5, <1>7, <1>8, MultipliedAlong DEF Den
<1> QED
    BY <1>9, <1>10, <1>11 DEF Lag

\* Powers are multiplied by adding the exponents.
LEMMA ProductOfPowers ==
    ASSUME NEW b \in Nat, NEW g, Numbers(g), NEW h, Numbers(h), NEW n \in Nat,
           \A k \in 1 .. n : h[k] % P = Repeated(b, g[k])
    PROVE  Multiplied(h, n) % P = Repeated(b, Total(g, n))
<1> DEFINE A(k) == Multiplied(h, k)
           B(k) == Total(g, k)
           S == {k \in Nat : A(k) % P = Repeated(b, B(k))}
<1>1. ASSUME NEW k \in Nat
      PROVE  /\ A(k) \in Nat /\ B(k) \in Nat
             /\ A(k + 1) = A(k) * h[k + 1] /\ B(k + 1) = B(k) + g[k + 1]
  <2>1. A(k) \in Nat /\ A(k + 1) = A(k) * h[k + 1]
    BY MultipliedType, MultipliedStep
  <2>2. B(k) \in Nat /\ B(k + 1) = B(k) + g[k + 1]
    BY TotalType, TotalStep
  <2> QED BY <2>1, <2>2
<1>2. A(0) % P = Repeated(b, B(0))
  <2>1. A(0) = 1
    BY MultipliedType
  <2>2. B(0) = 0
    BY TotalType
  <2>3. 1 % P = 1 /\ Repeated(b, 0) = 1
    BY Residue, RepeatedIs
  <2> HIDE DEF A, B
  <2> QED BY <2>1, <2>2, <2>3
<1> HIDE DEF A, B
<1>3. ASSUME NEW k \in Nat, k < n, A(k) % P = Repeated(b, B(k))
      PROVE  A(k + 1) % P = Repeated(b, B(k + 1))
  <2> DEFINE u == A(k)
             v == B(k)
             x == h[k + 1]
             y == g[k + 1]
  <2>1. k + 1 \in 1 .. n /\ k + 1 \in Nat
    BY <1>3
  <2>2. x \in Nat /\ y \in Nat /\ x % P = Repeated(b, y)
    BY <2>1, NumberAt
  <2>3. u \in Nat /\ v \in Nat /\ u % P = Repeated(b, v)
    BY <1>1, <1>3
  <2>4. A(k + 1) = u * x /\ B(k + 1) = v + y
    BY <1>1
  <2> HIDE DEF u, v, x, y
  <2>5. Repeated(b, v + y) = TimesMod(u % P, x % P)
    BY <2>2, <2>3, PowerSum
  <2>6. x % P \in Nat
    BY <2>2, Residue
  <2>7. TimesMod(u % P, x % P) = TimesMod(u, x % P)
    BY <2>2, <2>3, <2>6, TimesOfRest
  <2>8. TimesMod(u, x % P) = TimesMod(u, x)
    BY <2>2, <2>3, TimesOfRest
  <2> QED BY <2>4, <2>5, <2>7, <2>8 DEF TimesMod
<1>4. S \in SUBSET Nat /\ 0 \in S /\ \A k \in Nat : k < n /\ k \in S => k + 1 \in S
    BY <1>2, <1>3
<1> HIDE DEF S
<1>5. n \in S
    BY <1>4, ClimbTo
<1> QED
    BY <1>5 DEF S, A, B

\* Exponents that are the same modulo Q give the same power of an element of that order.
LEMMA SamePower ==
    ASSUME NEW a, OfOrder(a), NEW m \in Nat, NEW n \in Nat, Cong(m, n)
    PROVE  Repeated(a, m) = Repeated(a, n)
<1>1. m % Q \in Scalars /\ n % Q \in Scalars /\ m % Q \in Int /\ n % Q \in Int
      /\ Cong(m % Q, m) /\ Cong(n, n % Q)
    BY CongRest
<1> DEFINE x == m % Q
           y == n % Q
<1>2. x \in Int /\ y \in Int /\ Cong(x, m) /\ Cong(n, y) /\ x \in Scalars /\ y \in Scalars
    BY <1>1
<1>3. Repeated(a, x) = Repeated(a, m) /\ Repeated(a, y) = Repeated(a, n)
    BY OrderRest
<1> HIDE DEF x, y
<1>4. Cong(x, n)
    BY <1>2, CongOn
<1>5. Cong(x, y)
    BY <1>2, <1>4, CongOn
<1>6. x = y
    BY <1>2, <1>5, CongEqual
<1> QED
    BY <1>3, <1>6

\* n of the numbers 1 .. N, each once; what a polynomial of k coefficients gives for them;
\* and the powers of b by it and the coefficients at 0.
Chosen(x, n, N) ==
    /\ n \in Nat \ {0} /\ N \in Nat /\ N < Q
    /\ Listed(x, n, N) /\ FirstOf(x, n) \subseteq 1 .. N /\ Cardinality(FirstOf(x, n)) = n
GivenBy(share, c, k, S) == \A t \in S : share[t] = Values(c, k)[t] % Q
Raise(s, b, share, x, n, N) ==
    /\ Len(s) = n
    /\ \A j \in 1 .. n : s[j] = Pow(Pow(b, share[x[j]]), Lag(FirstOf(x, n), x[j], N))

\* Enough trustees' powers of an element combine to its power of the secret.
LEMMA CombinedPowers ==
    ASSUME NEW b, OfOrder(b), NEW x, NEW n, NEW N, Chosen(x, n, N), NEW c, Numbers(c),
           NEW k \in Nat, 1 <= k, k <= n,
           NEW share, Numbers(share), GivenBy(share, c, k, FirstOf(x, n)),
           NEW s, Raise(s, b, share, x, n, N)
    PROVE  MultipliedMod(s, P) = Repeated(b, c[1])
<1> DEFINE S == FirstOf(x, n)
           f == [t \in Nat |-> Pow(Pow(b, share[t]), Lag(S, t, N))]
           h == Only(f, S, 1)
           g == Parts(S, share, N)
<1>0. /\ n \in Nat \ {0} /\ N \in Nat /\ N < Q /\ Listed(x, n, N)
      /\ S \subseteq 1 .. N /\ Cardinality(S) = n /\ Len(s) = n
      /\ \A j \in 1 .. n : s[j] = Pow(Pow(b, share[x[j]]), Lag(S, x[j], N))
      /\ \A t \in S : share[t] = Values(c, k)[t] % Q
    BY DEF Chosen, GivenBy, Raise
<1>1. Points(S, N)
    BY <1>0 DEF Points
<1>2. b \in Nat /\ P \in Nat /\ P > 1
    BY Residue DEF OfOrder
<1>3. ASSUME NEW t \in Nat
      PROVE  /\ Lag(S, t, N) \in Nat /\ share[t] \in Nat
             /\ Pow(Pow(b, share[t]), Lag(S, t, N)) = Repeated(b, Lag(S, t, N) * share[t])
  <2> DEFINE l == Lag(S, t, N)
             v == share[t]
  <2>1. l \in Nat
    BY <1>1, LagType
  <2>2. v \in Nat
    BY NumberAt
  <2> HIDE DEF l, v
  <2>3. Pow(b, v) = Repeated(b, v) /\ Repeated(b, v) \in Nat
    BY <1>2, <2>2, PowIsThePower, PowerType
  <2>4. Pow(Repeated(b, v), l) = Repeated(Repeated(b, v), l)
    BY <2>1, <2>3, PowIsThePower
  <2>5. Repeated(Repeated(b, v), l) = Repeated(b, v * l) /\ v * l = l * v
    BY <1>2, <2>1, <2>2, PowerOfPower
  <2>6. Pow(Pow(b, v), l) = Repeated(b, l * v)
    BY <2>3, <2>4, <2>5
  <2> QED BY <2>1, <2>2, <2>6 DEF l, v
<1>4. Numbers(f) /\ \A t \in Nat : f[t] = Repeated(b, Lag(S, t, N) * share[t])
  <2>1. \A t \in Nat : f[t] = Pow(Pow(b, share[t]), Lag(S, t, N))
    OBVIOUS
  <2>2. ASSUME NEW t \in Nat PROVE f[t] \in Nat
    <3> DEFINE m == Lag(S, t, N) * share[t]
    <3>1. m \in Nat
      <4>1. Lag(S, t, N) \in Nat /\ share[t] \in Nat
        BY <1>3
      <4> QED BY <4>1
    <3>2. f[t] = Repeated(b, m)
      BY <1>3, <2>1
    <3> HIDE DEF m
    <3> QED BY <1>2, <3>1, <3>2, PowerType
  <2>3. f = [t \in Nat |-> f[t]]
    OBVIOUS
  <2> HIDE DEF f
  <2>4. Numbers(f)
    BY <2>2, <2>3 DEF Numbers
  <2> QED BY <1>3, <2>1, <2>4
<1>5. \A j \in 1 .. n : s[j] = f[x[j]]
  <2>1. \A j \in 1 .. n : x[j] \in Nat
    BY <1>0 DEF Listed
  <2> QED BY <1>0, <2>1
<1>6. Numbers(h)
    BY <1>4, TimesIs, OnlyIs
<1>7. Numbers(g) /\ \A t \in Nat : g[t] = Lag(S, t, N) * share[t]
    BY <1>1, PartsAre
<1>8. ASSUME NEW t \in 1 .. N PROVE h[t] % P = Repeated(b, g[t])
  <2>1. t \in Nat
    BY <1>0
  <2>2. CASE t \in S
    <3>1. h[t] = f[t]
      BY <2>1, <2>2 DEF Only
    <3>2. f[t] = Repeated(b, g[t])
      BY <1>4, <1>7, <2>1
    <3>3. g[t] \in Nat
      BY <1>7, <2>1, NumberAt
    <3> HIDE DEF f, g, h
    <3>4. Repeated(b, g[t]) \in Residues
      BY <1>2, <3>3, PowerType
    <3> QED BY <3>1, <3>2, <3>4, Residue
  <2>3. CASE t \notin S
    <3>1. h[t] = 1
      BY <2>1, <2>3 DEF Only
    <3>2. g[t] = 0
      <4>1. Lag(S, t, N) = 0
        BY <2>3 DEF Lag
      <4>2. share[t] \in Nat
        BY <1>3, <2>1
      <4> HIDE DEF g
      <4> QED BY <1>7, <2>1, <4>1, <4>2
    <3> HIDE DEF f, g, h
    <3>3. 1 % P = 1 /\ Repeated(b, 0) = 1
      BY <1>2, Residue, RepeatedIs
    <3> QED BY <3>1, <3>2, <3>3
  <2> QED BY <2>2, <2>3
<1>9. MultipliedMod(s, P) = Multiplied(h, N) % P
  <2> HIDE DEF f
  <2> QED BY <1>0, <1>2, <1>4, <1>5, MultipliedAlong
<1>10. Cong(Total(g, N), c[1])
    BY <1>0, <1>1, SharesMeet
<1> HIDE DEF f, g, h
<1>11. Multiplied(h, N) % P = Repeated(b, Total(g, N))
    BY <1>0, <1>2, <1>6, <1>7, <1>8, ProductOfPowers
<1>12. Total(g, N) \in Nat /\ c[1] \in Nat
  <2>1. Total(g, N) \in Nat
    BY <1>0, <1>7, TotalType
  <2>2. c[1] \in Nat
    BY NumberAt
  <2> QED BY <2>1, <2>2
<1> QED
    BY <1>9, <1>10, <1>11, <1>12, SamePower

----------------------------------------------------------------------------
(***************************************************************************)
(* The logarithm.                                                          *)
(***************************************************************************)
LEMMA DifferentPowers ==
    ASSUME NEW a \in Scalars, NEW b \in Scalars, Repeated(G, a) = Repeated(G, b)
    PROVE  a = b
<1>1. ASSUME NEW m \in Scalars, NEW n \in Scalars, m > n, Repeated(G, m) = Repeated(G, n)
      PROVE  FALSE
  <2> DEFINE d == m - n
  <2>1. d \in Nat \ {0} /\ d < Q /\ m = n + d /\ n \in Nat /\ m \in Nat
    BY <1>1, Order DEF Scalars
  <2> HIDE DEF d
  <2>2. Repeated(G, m) = TimesMod(Repeated(G, n), Repeated(G, d))
    BY <2>1, Order, PowerSum
  <2>3. Repeated(G, n) \in Residues /\ OfOrder(Repeated(G, n)) /\ Repeated(G, d) \in Residues
    BY <2>1, Order, PowerType, OrderOfPower
  <2>4. TimesMod(Repeated(G, n), 1) = Repeated(G, n) /\ 1 \in Residues
    BY <2>3, TimesOne, Residue
  <2>5. TimesMod(Repeated(G, n), Repeated(G, d)) = TimesMod(Repeated(G, n), 1)
    BY <1>1, <2>2, <2>4
  <2>6. Repeated(G, d) = 1
    BY <2>3, <2>4, <2>5, Cancel
  <2>7. Repeated(1, d) = 1 /\ Repeated(1, Q) = 1
    BY <2>1, Order, PowerOfOne
  <2>8. OfOrder(1) /\ OfOrder(G)
    BY <2>4, <2>7, Order DEF OfOrder
  <2>9. G = 1
    BY <2>1, <2>6, <2>7, <2>8, SameRoot
  <2> QED BY <2>9 DEF G
<1>2. a \in Int /\ b \in Int
    BY Order DEF Scalars
<1>3. a < b \/ a = b \/ a > b
    BY <1>2
<1> QED
    BY <1>1, <1>3

LEMMA StepIs ==
    ASSUME NEW M \in Nat, M < Q
    PROVE  StepOf(M) \in Nat \ {0} /\ StepOf(M) < Q /\ StepOf(M) * StepOf(M) >= M + 1
<1> DEFINE Fits(s) == s * s >= M + 1 /\ (s - 1) * (s - 1) < M + 1
           T == {s \in Nat : s * s >= M + 1}
<1>1. \E s \in 1 .. (M + 1) : Fits(s)
  <2>1. M + 1 \in T
    <3>1. (M + 1) * (M + 1) = M * M + (M + M) + 1 /\ M * M \in Nat
      OBVIOUS
    <3> QED BY <3>1
  <2>2. PICK s \in T : \A m \in T : s <= m
    <3>1. T \in SUBSET Nat /\ T # {}
      BY <2>1
    <3> HIDE DEF T
    <3> QED BY <3>1, Smallest
  <2>3. s \in Nat /\ s * s >= M + 1 /\ s <= M + 1
    BY <2>1, <2>2
  <2>4. s # 0
    BY <2>3
  <2>5. s - 1 \notin T /\ s - 1 \in Nat
    BY <2>2, <2>3, <2>4
  <2>6. (s - 1) * (s - 1) \in Nat
    BY <2>5
  <2>7. (s - 1) * (s - 1) < M + 1
    BY <2>5, <2>6
  <2> QED BY <2>3, <2>4, <2>7
<1> DEFINE s == StepOf(M)
<1>2. s \in 1 .. (M + 1) /\ s * s >= M + 1 /\ (s - 1) * (s - 1) < M + 1
    BY <1>1 DEF StepOf
<1> HIDE DEF s
<1>3. s < Q
  <2>1. CASE s <= 2
    BY <1>2, <2>1, Order
  <2>2. CASE s > 2
    <3> DEFINE d == s - 1
    <3>1. d \in Nat /\ d >= 2 /\ s = d + 1 /\ d * d < M + 1
      BY <1>2, <2>2
    <3> HIDE DEF d
    <3>2. d * d >= 2 * d
      <4>1. (d - 2) \in Nat /\ (d - 2) * d \in Nat /\ (d - 2) * d = d * d - 2 * d
        BY <3>1
      <4>2. d * d \in Nat
        BY <3>1
      <4> HIDE DEF d
      <4> QED BY <3>1, <4>1, <4>2
    <3>3. d * d \in Nat
      BY <3>1
    <3> QED BY <3>1, <3>2, <3>3, Order
  <2> QED BY <1>2, <2>1, <2>2
<1> QED
    BY <1>2, <1>3 DEF s

\* Every number of votes that is looked for is found.
LEMMA LogarithmIs ==
    ASSUME NEW M \in Nat, M < Q, NEW v \in 0 .. M
    PROVE  DiscreteLog(Repeated(G, v), M) = v
<1> DEFINE s == StepOf(M)
           target == Repeated(G, v)
           factor == Pow(Pow(G, s), Q - 1)
           Top(w) == CHOOSE j \in 0 .. s : Pow(G, j) = w /\ \A k \in (j + 1) .. s : Pow(G, k) # w
           W == {Pow(G, j) : j \in 0 .. s}
           baby == [w \in W |-> Top(w)]
           gamma(i) == TimesMod(target, Pow(factor, i))
           hits == {i \in 0 .. s : gamma(i) \in DOMAIN baby /\ i * s + baby[gamma(i)] <= M}
           first == CHOOSE i \in hits : \A k \in hits : i <= k
<1>1. DiscreteLog(target, M) = IF hits = {} THEN NoLogarithm ELSE first * s + baby[gamma(first)]
    BY DEF DiscreteLog
<1>2. s \in Nat \ {0} /\ s < Q /\ s * s >= M + 1 /\ v \in Nat /\ v <= M
    BY StepIs
<1>3. DOMAIN baby = W
    OBVIOUS
<1> HIDE DEF s
<1>4. \A j \in 0 .. s : j \in Nat /\ j \in Scalars /\ Pow(G, j) = Repeated(G, j)
  <2>1. \A j \in 0 .. s : j \in Nat /\ j \in Scalars
    BY <1>2, Order DEF Scalars
  <2> QED BY <2>1, Order, PowIsThePower
<1>5. ASSUME NEW j \in 0 .. s PROVE Repeated(G, j) \in W /\ baby[Repeated(G, j)] = j
  <2>1. Repeated(G, j) \in W
    BY <1>4
  <2>2. ASSUME NEW i \in 0 .. s, Pow(G, i) = Repeated(G, j) PROVE i = j
    BY <1>4, <2>2, DifferentPowers
  <2>3. Pow(G, j) = Repeated(G, j)
    BY <1>4
  <2>4. \A k \in (j + 1) .. s : Pow(G, k) # Repeated(G, j)
    <3>1. \A k \in (j + 1) .. s : k \in 0 .. s /\ k # j
      BY <1>2
    <3> QED BY <2>2, <3>1
  <2>5. Top(Repeated(G, j)) = j
    <3>1. Top(Repeated(G, j)) \in 0 .. s /\ Pow(G, Top(Repeated(G, j))) = Repeated(G, j)
      BY <2>3, <2>4
    <3> QED BY <2>2, <3>1
  <2> QED BY <2>1, <2>5
<1>6. ASSUME NEW w \in W PROVE \E j \in 0 .. s : w = Repeated(G, j) /\ baby[w] = j
    BY <1>4, <1>5, <1>6
<1> HIDE DEF baby, W
\* factor is the inverse of the power by a step.
<1>7. factor = Repeated(Repeated(G, s), Q - 1) /\ factor \in Nat /\ Repeated(G, s) \in Nat
      /\ OfOrder(Repeated(G, s)) /\ OfOrder(factor)
  <2>1. Pow(G, s) = Repeated(G, s) /\ Repeated(G, s) \in Nat /\ OfOrder(Repeated(G, s))
    BY <1>2, Order, PowIsThePower, OrderOfPower
  <2>2. Q - 1 \in Nat
    BY Order
  <2> QED BY <2>1, <2>2, PowIsThePower, OrderOfPower
<1>8. TimesMod(factor, Repeated(G, s)) = 1
  <2> DEFINE r == Repeated(G, s)
  <2>1. OfOrder(r) /\ r \in Nat
    BY <1>7
  <2> HIDE DEF r
  <2>2. Repeated(r, (Q - 1) + 1) = TimesMod(Repeated(r, Q - 1), r)
    BY <2>1, Order, PowerStep
  <2>3. Repeated(r, (Q - 1) + 1) = 1
    BY <2>1, Order DEF OfOrder
  <2> QED BY <1>7, <2>2, <2>3 DEF r
<1> HIDE DEF factor
\* A giant step takes that many from the exponent.
<1>9. ASSUME NEW i \in 0 .. s, NEW j \in Nat
      PROVE  (gamma(i) = Repeated(G, j)) <=> (target = Repeated(G, i * s + j))
  <2> DEFINE f == Pow(factor, i)
             r == Repeated(G, i * s)
             w == Repeated(G, j)
  <2>1. i \in Nat /\ i * s \in Nat /\ s * i = i * s
    BY <1>2
  <2>2. OfOrder(r) /\ r \in Nat
    BY <2>1, Order, OrderOfPower
  <2>3. OfOrder(w) /\ w \in Nat
    BY Order, OrderOfPower
  <2>4. OfOrder(target) /\ target \in Nat
    BY <1>2, Order, OrderOfPower
  <2>5. f = Repeated(factor, i) /\ OfOrder(f) /\ f \in Nat
    BY <1>7, <2>1, PowIsThePower, OrderOfPower
  <2>6. r = Repeated(Repeated(G, s), i)
    BY <1>2, <2>1, Order, PowerOfPower
  <2>7. TimesMod(f, r) = 1
    <3>1. Repeated(TimesMod(factor, Repeated(G, s)), i)
            = TimesMod(Repeated(factor, i), Repeated(Repeated(G, s), i))
      BY <1>7, <2>1, PowerOfProduct
    <3>2. Repeated(1, i) = 1
      BY <2>1, PowerOfOne
    <3> QED BY <1>8, <2>5, <2>6, <3>1, <3>2
  <2>8. Repeated(G, i * s + j) = TimesMod(r, w)
    BY <2>1, Order, PowerSum
  <2>9. gamma(i) = TimesMod(target, f)
    OBVIOUS
  <2> HIDE DEF f, r, w, target
  <2>10. target \in Residues /\ w \in Residues /\ f \in Residues /\ r \in Residues
    BY <2>2, <2>3, <2>4, <2>5 DEF OfOrder
  <2>11. TimesMod(r, f) = 1
    BY <2>2, <2>5, <2>7, TimesType
  <2>12. ASSUME TimesMod(target, f) = w PROVE target = TimesMod(r, w)
    <3>1. TimesMod(TimesMod(target, f), r) = TimesMod(target, TimesMod(f, r))
      BY <2>2, <2>4, <2>5, TimesTogether
    <3>2. TimesMod(target, 1) = target
      BY <2>10, TimesOne
    <3>3. TimesMod(w, r) = TimesMod(r, w)
      BY <2>2, <2>3, TimesType
    <3> QED BY <2>7, <2>12, <3>1, <3>2, <3>3
  <2>13. ASSUME target = TimesMod(r, w) PROVE TimesMod(target, f) = w
    <3>1. TimesMod(w, r) = TimesMod(r, w)
      BY <2>2, <2>3, TimesType
    <3>2. TimesMod(TimesMod(w, r), f) = TimesMod(w, TimesMod(r, f))
      BY <2>2, <2>3, <2>5, TimesTogether
    <3>3. TimesMod(w, 1) = w
      BY <2>10, TimesOne
    <3> QED BY <2>11, <2>13, <3>1, <3>2, <3>3
  <2>14. (TimesMod(target, f) = w) <=> (target = TimesMod(r, w))
    BY <2>12, <2>13
  <2> QED BY <2>8, <2>9, <2>14 DEF w
<1>10. ASSUME NEW i \in hits PROVE i * s + baby[gamma(i)] = v
  <2>1. i \in 0 .. s /\ gamma(i) \in W /\ i * s + baby[gamma(i)] <= M
    BY <1>3
  <2>2. PICK j \in 0 .. s : gamma(i) = Repeated(G, j) /\ baby[gamma(i)] = j
    BY <1>6, <2>1
  <2>3. i * s \in Nat /\ j \in Nat
    BY <1>2, <2>1
  <2>4. target = Repeated(G, i * s + j)
    BY <1>9, <2>1, <2>2, <2>3
  <2>5. i * s + j \in Scalars /\ v \in Scalars
    BY <1>2, <2>1, <2>2, <2>3, Order DEF Scalars
  <2>6. v = i * s + j
    BY <2>4, <2>5, DifferentPowers
  <2> QED BY <2>2, <2>6
<1>11. hits # {} /\ hits \in SUBSET Nat
  <2> DEFINE i == v \div s
             j == v % s
  <2>1. i \in Nat /\ j \in 0 .. s - 1 /\ v = s * i + j
    BY <1>2, RestOf
  <2> HIDE DEF i, j
  <2>2. j \in 0 .. s /\ j \in Nat /\ i * s + j = v /\ s * i = i * s
    BY <1>2, <2>1
  <2>3. i <= s
    <3> SUFFICES ASSUME i > s PROVE FALSE
      BY <1>2, <2>1
    <3>1. i - s \in Nat /\ s * (i - s) \in Nat /\ s * (i - s) = s * i - s * s
      BY <1>2, <2>1
    <3>2. s * i \in Nat /\ s * s \in Nat
      BY <1>2, <2>1
    <3> QED BY <1>2, <2>1, <3>1, <3>2
  <2>4. i \in 0 .. s
    BY <1>2, <2>1, <2>3
  <2>5. gamma(i) = Repeated(G, j)
    BY <1>9, <2>2, <2>4
  <2>6. gamma(i) \in W /\ baby[gamma(i)] = j
    BY <1>5, <2>2, <2>5
  <2>7. i * s + baby[gamma(i)] <= M
    BY <1>2, <2>2, <2>6
  <2>8. i \in hits
    BY <1>3, <2>4, <2>6, <2>7
  <2>9. \A k \in hits : k \in Nat
    BY <1>2
  <2> QED BY <2>8, <2>9
<1>12. first \in hits
  <2> HIDE DEF hits
  <2>1. \E i \in hits : \A k \in hits : i <= k
    BY <1>11, Smallest
  <2> QED BY <2>1
<1> HIDE DEF first, hits
<1>13. DiscreteLog(target, M) = v
    BY <1>1, <1>10, <1>11, <1>12
<1> QED
    BY <1>13

----------------------------------------------------------------------------
(***************************************************************************)
(* The key in shares.                                                      *)
(***************************************************************************)
\* Who can answer two challenges for the same commitments has raised both bases to
\* the same exponent.
LEMMA TwoResponses ==
    ASSUME NEW x \in Nat, NEW h, OfOrder(h), NEW t, OfOrder(t),
           NEW a \in Residues, NEW b \in Residues,
           NEW e \in Scalars, NEW f \in Scalars, e > f, NEW r \in Scalars, NEW s \in Scalars,
           Repeated(G, r) = TimesMod(a, Repeated(Repeated(G, x), e)),
           Repeated(G, s) = TimesMod(a, Repeated(Repeated(G, x), f)),
           Repeated(h, r) = TimesMod(b, Repeated(t, e)),
           Repeated(h, s) = TimesMod(b, Repeated(t, f))
    PROVE  t = Repeated(h, x)
<1>1. /\ e \in Nat /\ f \in Nat /\ r \in Nat /\ s \in Nat /\ e \in 0 .. Q /\ f \in 0 .. Q
      /\ x * e \in Nat /\ x * f \in Nat
    BY Order DEF Scalars
<1>2. G \in Nat /\ h \in Nat /\ t \in Nat /\ a \in Nat /\ b \in Nat /\ OfOrder(G)
    BY Order, Residue DEF OfOrder
<1> DEFINE m == r + x * f
           n == s + x * e
           w == Repeated(G, x)
           y == Repeated(h, x)
<1>3. m \in Nat /\ n \in Nat
    BY <1>1
<1>4. OfOrder(w) /\ w \in Nat /\ OfOrder(y) /\ y \in Nat
    BY <1>2, OrderOfPower
<1>5. ASSUME NEW g, OfOrder(g), g \in Nat, NEW v, v = Repeated(g, x)
      PROVE  /\ Repeated(g, m) = TimesMod(Repeated(g, r), Repeated(v, f))
             /\ Repeated(g, n) = TimesMod(Repeated(g, s), Repeated(v, e))
  <2>1. Repeated(v, f) = Repeated(g, x * f) /\ Repeated(v, e) = Repeated(g, x * e)
    BY <1>1, <1>5, PowerOfPower
  <2>2. Repeated(g, r + x * f) = TimesMod(Repeated(g, r), Repeated(g, x * f))
    BY <1>1, <1>5, PowerSum
  <2>3. Repeated(g, s + x * e) = TimesMod(Repeated(g, s), Repeated(g, x * e))
    BY <1>1, <1>5, PowerSum
  <2> QED BY <2>1, <2>2, <2>3
<1>6. /\ Repeated(G, m) = TimesMod(Repeated(G, r), Repeated(w, f))
      /\ Repeated(G, n) = TimesMod(Repeated(G, s), Repeated(w, e))
    BY <1>2, <1>5
<1>7. /\ Repeated(h, m) = TimesMod(Repeated(h, r), Repeated(y, f))
      /\ Repeated(h, n) = TimesMod(Repeated(h, s), Repeated(y, e))
    BY <1>2, <1>5
<1> HIDE DEF m, n
\* Of the same commitment, once with each of the two.
<1>8. ASSUME NEW c \in Nat, NEW u \in Nat, NEW v \in Nat
      PROVE  TimesMod(TimesMod(c, u), v) = TimesMod(c, TimesMod(u, v))
    BY <1>8, TimesTogether
<1>9. Repeated(G, m) = Repeated(G, n)
  <2> DEFINE u == Repeated(w, e)
             v == Repeated(w, f)
  <2>1. u \in Nat /\ v \in Nat
    BY <1>1, <1>4, PowerType
  <2>2. Repeated(G, m) = TimesMod(TimesMod(a, u), v) /\ Repeated(G, n) = TimesMod(TimesMod(a, v), u)
    BY <1>6
  <2> HIDE DEF u, v
  <2>3. TimesMod(u, v) = TimesMod(v, u)
    BY <2>1, TimesType
  <2> QED BY <1>2, <1>8, <2>1, <2>2, <2>3
<1>10. Repeated(h, m) = Repeated(h, n)
  <2>2. Repeated(G, m % Q) = Repeated(G, n % Q) /\ m % Q \in Scalars /\ n % Q \in Scalars
    BY <1>2, <1>3, <1>9, OrderRest, CongRest
  <2>3. m % Q = n % Q
    BY <2>2, DifferentPowers
  <2>4. Repeated(h, m % Q) = Repeated(h, m) /\ Repeated(h, n % Q) = Repeated(h, n)
    BY <1>3, OrderRest
  <2> QED BY <2>3, <2>4
<1>11. OfOrder(b)
  <2>1. OfOrder(Repeated(h, r))
    BY <1>1, OrderOfPower
  <2> QED BY <1>1, <2>1, FactorOfOrder
<1>12. TimesMod(Repeated(t, e), Repeated(y, f)) = TimesMod(Repeated(t, f), Repeated(y, e))
  <2> DEFINE k == Repeated(t, e)
             l == Repeated(t, f)
             u == Repeated(y, e)
             v == Repeated(y, f)
  <2>1. u \in Nat /\ v \in Nat /\ k \in Nat /\ l \in Nat
    BY <1>1, <1>2, <1>4, PowerType
  <2>2. Repeated(h, m) = TimesMod(TimesMod(b, k), v) /\ Repeated(h, n) = TimesMod(TimesMod(b, l), u)
    BY <1>7
  <2> HIDE DEF k, l, u, v
  <2>2a. TimesMod(TimesMod(b, k), v) = TimesMod(b, TimesMod(k, v))
    BY <1>2, <2>1, TimesTogether
  <2>2b. TimesMod(TimesMod(b, l), u) = TimesMod(b, TimesMod(l, u))
    BY <1>2, <2>1, TimesTogether
  <2>3. TimesMod(b, TimesMod(k, v)) = TimesMod(b, TimesMod(l, u))
    BY <1>10, <2>2, <2>2a, <2>2b
  <2>4. TimesMod(k, v) \in Residues /\ TimesMod(l, u) \in Residues
    BY <2>1, TimesType
  <2>5. TimesMod(k, v) = TimesMod(l, u)
    BY <1>11, <2>3, <2>4, Cancel
  <2> QED BY <2>5 DEF k, l, u, v
<1>13. TimesMod(Repeated(y, e), Repeated(t, f)) = TimesMod(Repeated(t, e), Repeated(y, f))
  <2>1. Repeated(y, e) \in Nat /\ Repeated(t, f) \in Nat
    BY <1>1, <1>2, <1>4, PowerType
  <2>2. TimesMod(Repeated(y, e), Repeated(t, f)) = TimesMod(Repeated(t, f), Repeated(y, e))
    BY <2>1, TimesType
  <2> QED BY <1>12, <2>2
<1> QED
    BY <1>4, <1>13, SameFromTwo DEF y

\* The shares are of the secret, as the polynomial's values.
KeyIsShared ==
    /\ secret \in Nat
    /\ \E others \in [1 .. (TrusteeThreshold - 1) -> Random] :
          shares = Shares(<<secret>> \o others)

LEMMA TrusteesAre ==
    /\ TrusteeCount \in Nat /\ TrusteeCount < Q /\ Opening = 1 .. TrusteeCount
    /\ TrusteeThreshold \in Nat \ {0} /\ TrusteeThreshold <= TrusteeCount
    /\ MaxVotes \in Nat /\ MaxVotes < Q /\ Random \subseteq Nat
<1>1. Q \in Nat
    BY Order
<1>2. TrusteeCount \in Nat /\ TrusteeCount < Q
    BY <1>1, ThresholdAssumption
<1>3. TrusteeThreshold \in Nat \ {0} /\ TrusteeThreshold <= TrusteeCount
    BY <1>2, ThresholdAssumption
<1>4. MaxVotes \in Nat /\ MaxVotes < Q
    BY <1>1, ThresholdAssumption
<1>5. Random \subseteq Nat
    BY ThresholdAssumption, DrawnAre
<1> QED
    BY <1>2, <1>3, <1>4, <1>5 DEF Opening

LEMMA SharesAre ==
    ASSUME KeyIsShared
    PROVE  /\ shares \in [Opening -> Scalars]
           /\ \E c : /\ Numbers(c) /\ c[1] = secret
                     /\ \A t \in Opening : shares[t] = Values(c, TrusteeThreshold)[t] % Q
<1> DEFINE n == TrusteeThreshold
<1>1. PICK others \in [1 .. (n - 1) -> Random] : shares = Shares(<<secret>> \o others)
    BY DEF KeyIsShared
<1> DEFINE coefficients == <<secret>> \o others
           c == [k \in Nat |-> IF k \in 1 .. n THEN coefficients[k] ELSE 0]
<1>2. n \in Nat \ {0} /\ secret \in Nat /\ Random \subseteq Nat
    BY TrusteesAre DEF KeyIsShared
<1>3. Len(coefficients) = n /\ coefficients[1] = secret
      /\ \A k \in 1 .. n : coefficients[k] \in Nat
  <2>1. others \in Seq(Nat) /\ Len(others) = n - 1
    <3>0. n - 1 \in Nat
      BY <1>2
    <3> DEFINE p == n - 1
    <3> HIDE DEF p
    <3>1. others \in [1 .. p -> Random]
      BY DEF p
    <3>2. others = [i \in 1 .. p |-> others[i]] /\ \A i \in 1 .. p : others[i] \in Nat
      BY <1>2, <3>1
    <3>3. others \in Seq(Nat) /\ Len(others) = p
      BY <3>0, <3>2 DEF p
    <3> QED BY <3>3 DEF p
  <2>2. <<secret>> \in Seq(Nat) /\ Len(<<secret>>) = 1
    BY <1>2
  <2>3. coefficients \in Seq(Nat) /\ Len(coefficients) = n
    <3>1. Len(coefficients) = 1 + Len(others) /\ coefficients \in Seq(Nat)
      BY <2>1, <2>2
    <3>2. 1 + (n - 1) = n
      BY <1>2
    <3> QED BY <2>1, <3>1, <3>2
  <2>4. coefficients[1] = secret
    BY <2>1, <2>2
  <2> HIDE DEF coefficients
  <2>5. \A k \in 1 .. n : coefficients[k] \in Nat
    BY <1>2, <2>3
  <2> QED BY <2>3, <2>4, <2>5
<1> HIDE DEF coefficients
<1>4. Numbers(c) /\ c[1] = secret /\ \A k \in 1 .. n : coefficients[k] = c[k]
    BY <1>2, <1>3 DEF Numbers
<1> HIDE DEF c
<1>5. ASSUME NEW t \in Opening
      PROVE  /\ Shares(coefficients)[t] = Values(c, n)[t] % Q
             /\ Values(c, n)[t] % Q \in Scalars
  <2>1. t \in Nat
    BY TrusteesAre
  <2>2. Shares(coefficients)[t] = Total(Terms(c, t), n) % Q
    BY <1>2, <1>3, <1>4, <2>1, ShareIs
  <2>3. Values(c, n)[t] = Total(Terms(c, t), n) /\ Values(c, n)[t] \in Nat
    BY <1>2, <1>4, <2>1, ValuesAre, NumberAt
  <2> QED BY <2>2, <2>3, CongRest
<1>6. shares = Shares(coefficients)
    BY <1>1 DEF coefficients
<1>7. DOMAIN Shares(coefficients) = Opening
      /\ Shares(coefficients) = [t \in Opening |-> Shares(coefficients)[t]]
    BY DEF Shares
<1>8. shares \in [Opening -> Scalars]
  <2> DEFINE f == Shares(coefficients)
  <2>1. f = [t \in Opening |-> f[t]] /\ \A t \in Opening : f[t] \in Scalars
    BY <1>5, <1>7
  <2> HIDE DEF f
  <2>2. f \in [Opening -> Scalars]
    BY <2>1
  <2> QED BY <1>6, <2>2 DEF f
<1> QED
    BY <1>4, <1>5, <1>6, <1>8

\* Powers by different trustees' shares, as many as the threshold asks for, are combined
\* to the power by the secret.
LEMMA SharesCombine ==
    ASSUME KeyIsShared, NEW b, OfOrder(b), NEW n \in TrusteeThreshold .. TrusteeCount,
           NEW x \in [1 .. n -> Opening], Cardinality({x[k] : k \in 1 .. n}) = n,
           NEW s, Len(s) = n,
           \A j \in 1 .. n :
              s[j] = Pow(Pow(b, shares[x[j]]), Lag(FirstOf(x, n), x[j], TrusteeCount))
    PROVE  MultipliedMod(s, P) = Repeated(b, secret)
<1> DEFINE N == TrusteeCount
           k == TrusteeThreshold
<1>1. /\ N \in Nat /\ N < Q /\ n \in Nat \ {0} /\ n \in Nat /\ k \in Nat /\ 1 <= k /\ k <= n
      /\ Opening = 1 .. N
    BY TrusteesAre
<1>2. PICK c : /\ Numbers(c) /\ c[1] = secret
               /\ \A t \in Opening : shares[t] = Values(c, k)[t] % Q
    BY SharesAre
<1> DEFINE share == [t \in Nat |-> IF t \in Opening THEN shares[t] ELSE 0]
<1>3. Numbers(share)
  <2>1. \A t \in Opening : shares[t] \in Nat
    BY SharesAre, DrawnAre
  <2> QED BY <2>1 DEF Numbers
<1>4. Chosen(x, n, N) /\ FirstOf(x, n) \subseteq Opening
    BY <1>1, ListedOnce DEF Chosen
<1>5. \A t \in Opening : share[t] = shares[t]
    BY <1>1
<1> HIDE DEF share
<1>6. GivenBy(share, c, k, FirstOf(x, n))
    BY <1>2, <1>4, <1>5 DEF GivenBy
<1>7. Raise(s, b, share, x, n, N)
    BY <1>5 DEF Raise
<1> HIDE DEF N, k
<1>8. MultipliedMod(s, P) = Repeated(b, c[1])
    BY <1>1, <1>2, <1>3, <1>4, <1>6, <1>7, CombinedPowers
<1> QED
    BY <1>2, <1>8

\* A sum is a ciphertext of the votes in it.
SumIs(s) ==
    /\ cast[s] \in 0 .. MaxVotes
    /\ \E n \in Nat : sums[s] = Encrypt(Pow(G, secret), cast[s], n)

LEMMA SumFields ==
    ASSUME secret \in Nat, NEW s, SumIs(s)
    PROVE  /\ cast[s] \in Nat /\ cast[s] <= MaxVotes
           /\ OfOrder(sums[s].c1) /\ OfOrder(sums[s].c2)
           /\ OfOrder(Repeated(sums[s].c1, secret))
           /\ sums[s].c2 = TimesMod(Repeated(sums[s].c1, secret), Repeated(G, cast[s]))
           /\ sums[s] = [c1 |-> sums[s].c1, c2 |-> sums[s].c2]
<1>1. cast[s] \in Nat /\ cast[s] <= MaxVotes
    BY TrusteesAre DEF SumIs
<1>2. PICK n \in Nat : sums[s] = Encrypt(Pow(G, secret), cast[s], n)
    BY DEF SumIs
<1> DEFINE h == Repeated(G, secret)
           b == Repeated(G, n)
           v == Repeated(G, cast[s])
<1>3. /\ OfOrder(h) /\ h \in Nat /\ Pow(G, secret) = h
      /\ OfOrder(b) /\ b \in Nat /\ Pow(G, n) = b
      /\ OfOrder(v) /\ v \in Nat /\ Pow(G, cast[s]) = v
  <2>1. OfOrder(h) /\ h \in Nat /\ Pow(G, secret) = h
    BY Order, OrderOfPower, PowIsThePower
  <2>2. OfOrder(b) /\ b \in Nat /\ Pow(G, n) = b
    BY Order, OrderOfPower, PowIsThePower
  <2>3. OfOrder(v) /\ v \in Nat /\ Pow(G, cast[s]) = v
    BY <1>1, Order, OrderOfPower, PowIsThePower
  <2> QED BY <2>1, <2>2, <2>3
<1>4. Repeated(h, n) = Repeated(b, secret)
    BY Order, PowersChange
<1> HIDE DEF h, b, v
<1>5. sums[s] = [c1 |-> b, c2 |-> TimesMod(Repeated(b, secret), v)]
  <2>1. Pow(h, n) = Repeated(h, n)
    BY <1>3, PowIsThePower
  <2> QED BY <1>2, <1>3, <1>4, <2>1 DEF Encrypt
<1>6. OfOrder(Repeated(b, secret)) /\ OfOrder(TimesMod(Repeated(b, secret), v))
    BY <1>3, OrderOfPower, OrderOfProduct
<1> QED
    BY <1>1, <1>3, <1>5, <1>6 DEF v

\* What is divided by a power of the secret, and what is left.
LEMMA Divided ==
    ASSUME NEW m, OfOrder(m), NEW v, OfOrder(v)
    PROVE  /\ TimesMod(TimesMod(m, v), Pow(m, Q - 1)) = v
           /\ TimesMod(TimesMod(m, v), ModPow(m, P - 2, P)) = v
<1>1. /\ m \in Nat /\ v \in Nat /\ m \in Residues /\ v \in Residues /\ Q - 1 \in Nat
      /\ (Q - 1) + 1 = Q /\ P - 2 = Q + (Q - 1) /\ P - 2 \in Nat /\ Q \in Nat
    BY Order, Residue DEF OfOrder
<1> DEFINE i == Repeated(m, Q - 1)
<1>2. i \in Nat /\ i \in Residues /\ Pow(m, Q - 1) = i
    BY <1>1, PowerType, PowIsThePower
<1>3. ModPow(m, P - 2, P) = i
  <2>1. Pow(m, P - 2) = Repeated(m, P - 2)
    BY <1>1, PowIsThePower
  <2>2. Repeated(m, Q + (Q - 1)) = TimesMod(Repeated(m, Q), Repeated(m, Q - 1))
    BY <1>1, PowerSum
  <2>3. Repeated(m, Q) = 1
    BY DEF OfOrder
  <2>4. TimesMod(1, i) = i
    BY <1>2, TimesOne
  <2> QED BY <1>1, <2>1, <2>2, <2>3, <2>4 DEF Pow
<1>4. TimesMod(i, m) = 1
    BY <1>1, PowerStep DEF OfOrder
<1> HIDE DEF i
<1>5. TimesMod(TimesMod(m, v), i) = v
  <2>1. TimesMod(m, v) = TimesMod(v, m) /\ TimesMod(m, i) = TimesMod(i, m)
    BY <1>1, <1>2, TimesType
  <2>2. TimesMod(TimesMod(v, m), i) = TimesMod(v, TimesMod(m, i))
    BY <1>1, <1>2, TimesTogether
  <2>3. TimesMod(v, 1) = v
    BY <1>1, TimesOne
  <2> QED BY <1>4, <2>1, <2>2, <2>3
<1> QED
    BY <1>2, <1>3, <1>5

LEMMA CombineIs ==
    ASSUME KeyIsShared, NEW s, SumIs(s), NEW n \in TrusteeThreshold .. TrusteeCount,
           NEW list, DOMAIN list = 1 .. n, Len(list) = n, MayCombine(list),
           \A k \in 1 .. n : /\ list[k].trustee \in Opening
                             /\ list[k].value = Pow(sums[s].c1, shares[list[k].trustee])
    PROVE  DiscreteLog(Combine(sums[s], list), MaxVotes) = cast[s]
<1> DEFINE x == [k \in 1 .. n |-> list[k].trustee]
           b == sums[s].c1
           r == [k \in 1 .. n |-> Pow(list[k].value, Lambda(x, x[k]))]
           m == Repeated(b, secret)
           v == Repeated(G, cast[s])
<1>1. n \in Nat /\ secret \in Nat
    BY TrusteesAre DEF KeyIsShared
<1>2. x \in [1 .. n -> Opening] /\ DOMAIN x = 1 .. n
    OBVIOUS
<1>3. Cardinality({x[k] : k \in 1 .. n}) = n
  <2>1. {x[k] : k \in 1 .. n} = {list[k].trustee : k \in DOMAIN list}
    OBVIOUS
  <2> QED BY <2>1 DEF MayCombine
<1>4. Len(r) = n
    BY <1>1
<1>5. Combine(sums[s], list) = TimesMod(sums[s].c2, Pow(MultipliedMod(r, P), Q - 1))
    BY DEF Combine
<1>6. ASSUME NEW j \in 1 .. n
      PROVE  r[j] = Pow(Pow(b, shares[x[j]]), Lag(FirstOf(x, n), x[j], TrusteeCount))
  <2>1. Listed(x, n, TrusteeCount) /\ x[j] \in FirstOf(x, n)
    <3>1. x[j] \in FirstOf(x, n)
      BY DEF FirstOf
    <3> HIDE DEF x
    <3> QED BY <1>1, <1>2, <1>3, <3>1, TrusteesAre, ListedOnce
  <2>2. r[j] = Pow(Pow(b, shares[x[j]]), Lambda(x, x[j]))
    OBVIOUS
  <2> HIDE DEF x, r
  <2>3. Lambda(x, x[j]) = Lag(FirstOf(x, n), x[j], TrusteeCount)
    BY <1>1, <2>1, TrusteesAre, LambdaIs
  <2> QED BY <2>2, <2>3
<1> HIDE DEF x, r
<1>7. OfOrder(b) /\ OfOrder(m) /\ sums[s].c2 = TimesMod(m, v) /\ cast[s] \in 0 .. MaxVotes
      /\ cast[s] \in Nat
    BY <1>1, SumFields DEF SumIs
<1> HIDE DEF b
<1>8. MultipliedMod(r, P) = m
    BY <1>2, <1>3, <1>4, <1>6, <1>7, SharesCombine
<1>9. OfOrder(v)
    BY <1>7, Order, OrderOfPower
<1> HIDE DEF m
<1>10. Combine(sums[s], list) = v
  <2> HIDE DEF v
  <2> QED BY <1>5, <1>7, <1>8, <1>9, Divided
<1> QED
    BY <1>7, <1>10, TrusteesAre, LogarithmIs

----------------------------------------------------------------------------
(***************************************************************************)
(* The reader's tool finds the same coefficients.                          *)
(***************************************************************************)
LEMMA RestOfAny ==
    ASSUME NEW m \in Nat \ {0}, NEW a \in Int
    PROVE  /\ a \div m \in Int /\ a % m \in 0 .. m - 1
           /\ a = m * (a \div m) + (a % m)
    OBVIOUS

LEMMA DifferenceIs ==
    ASSUME NEW j \in Nat, NEW t \in Nat, t < Q
    PROVE  /\ (Q + j - t) % Q \in Nat /\ ((j - t) % Q) + Q \in Nat
           /\ Cong(((j - t) % Q) + Q, (Q + j - t) % Q)
<1> DEFINE a == j - t
           b == Q + j - t
           r == a % Q
           s == b % Q
           k == a \div Q
           l == b \div Q
<1>1. Q \in Nat \ {0} /\ a \in Int /\ b \in Int /\ b = a + Q
    BY Order
<1>2. k \in Int /\ r \in 0 .. Q - 1 /\ a = Q * k + r
    BY <1>1, RestOfAny
<1>3. l \in Int /\ s \in 0 .. Q - 1 /\ b = Q * l + s
    BY <1>1, RestOfAny
<1>4. r \in Nat /\ s \in Nat
    BY <1>1, <1>2, <1>3
<1> HIDE DEF a, b, r, s, k, l
<1>5. r + Q = s + Q * ((l - k) - 0) /\ (l - k) - 0 \in Int
    BY <1>1, <1>2, <1>3, <1>4
<1>6. Cong(r + Q, s)
    BY <1>5 DEF Cong
<1> QED
    BY <1>1, <1>4, <1>6 DEF r, s, a, b

LEMMA LagrangeIs ==
    ASSUME NEW n \in Nat, NEW N \in Nat, N < Q, NEW x, Listed(x, n, N), NEW t \in FirstOf(x, n)
    PROVE  lagrange(t, x) = Lag(FirstOf(x, n), t, N)
<1> DEFINE S == FirstOf(x, n)
           f == [j \in Nat |-> IF j = t THEN 1 ELSE j]
           g == [j \in Nat |-> IF j = t THEN 1 ELSE ((j - t) % Q) + Q]
           s == [k \in 1 .. n |-> IF x[k] = t THEN 1 ELSE x[k]]
           r == [k \in 1 .. n |-> IF x[k] = t THEN 1 ELSE ((x[k] - t) % Q) + Q]
           d == Only(g, S, 1)
           e == Below(S, t)
<1>1. DOMAIN x = 1 .. n /\ \A k \in 1 .. n : x[k] \in Nat /\ x[k] \in 1 .. N
    BY DEF Listed
<1>2. S \subseteq 1 .. N /\ t \in 1 .. N /\ t \in Nat /\ t < Q /\ Q \in Nat /\ Q > 1
    BY <1>1, Order, SMTT(30) DEF FirstOf
<1>3. Numbers(f)
    BY DEF Numbers
<1>4. Numbers(g)
    BY <1>2, DifferenceIs DEF Numbers
<1>5. Len(s) = n /\ Len(r) = n
    OBVIOUS
<1>6. \A k \in 1 .. n : s[k] = f[x[k]]
    BY <1>1
<1>7. \A k \in 1 .. n : r[k] = g[x[k]]
    BY <1>1
<1>8. Only(f, S, 1) = Above(S, t)
    BY DEF Only, Above
<1>9. lagrange(t, x) = (MultipliedMod(s, Q) * ModPow(MultipliedMod(r, Q), Q - 2, Q)) % Q
    BY <1>1 DEF lagrange, inverse
<1>10. Numbers(d) /\ Numbers(e)
  <2>1. Points(S, N)
    BY <1>2 DEF Points
  <2> HIDE DEF g
  <2>2. Numbers(d)
    BY <1>4, TimesIs, OnlyIs
  <2> QED BY <1>2, <2>1, <2>2, FactorsAre
<1>11. ASSUME NEW k \in 1 .. N PROVE Cong(d[k], e[k])
  <2>1. k \in Nat
    OBVIOUS
  <2>2. CASE k \in S /\ k # t
    <3>1. d[k] = ((k - t) % Q) + Q /\ e[k] = (Q + k - t) % Q
      BY <2>1, <2>2 DEF Only, Below
    <3> HIDE DEF d, e
    <3> QED BY <1>2, <2>1, <3>1, DifferenceIs
  <2>3. CASE ~(k \in S /\ k # t)
    <3>1. d[k] = 1 /\ e[k] = 1
      BY <2>1, <2>3 DEF Only, Below
    <3> HIDE DEF d, e
    <3> QED BY <3>1, CongSame
  <2> QED BY <2>2, <2>3
<1> HIDE DEF f, s
<1>12. MultipliedMod(s, Q) = Num(S, t, N) % Q
    BY <1>2, <1>3, <1>5, <1>6, <1>8, MultipliedAlong DEF Num
<1>13. MultipliedMod(r, Q) = Multiplied(d, N) % Q
  <2> HIDE DEF g, r
  <2> QED BY <1>2, <1>4, <1>5, <1>7, MultipliedAlong
<1> DEFINE u == Multiplied(d, N)
           v == Multiplied(e, N)
<1> HIDE DEF d, e, r, g
<1>14. u \in Nat /\ v \in Nat /\ Cong(u, v)
    BY <1>10, <1>11, MultipliedType, MultipliedAlike
<1>15. v = Den(S, t, N)
    BY DEF Den, e
<1> HIDE DEF u, v
<1>16. u % Q = v % Q
  <2> DEFINE p == u % Q
             q == v % Q
  <2>1. p \in Scalars /\ q \in Scalars /\ p \in Int /\ q \in Int /\ Cong(p, u) /\ Cong(v, q)
    BY <1>14, CongRest
  <2> HIDE DEF p, q
  <2>2. Cong(p, v)
    BY <1>14, <2>1, CongOn
  <2>3. Cong(p, q)
    BY <1>14, <2>1, <2>2, CongOn
  <2>4. p = q
    BY <2>1, <2>3, CongEqual
  <2> QED BY <2>4 DEF p, q
<1>17. MultipliedMod(r, Q) = Den(S, t, N) % Q
    BY <1>13, <1>15, <1>16 DEF u
<1> QED
    BY <1>9, <1>12, <1>17 DEF Lag

\* A set as a sequence has each element once.
LEMMA SequenceOfSet ==
    ASSUME NEW S, IsFiniteSet(S), NEW n, n = Cardinality(S)
    PROVE  /\ n \in Nat /\ SetToSeq(S) \in [1 .. n -> S] /\ Len(SetToSeq(S)) = n
           /\ \A i \in 1 .. n, j \in 1 .. n : SetToSeq(S)[i] = SetToSeq(S)[j] => i = j
           /\ {SetToSeq(S)[k] : k \in 1 .. n} = S
<1>1. n \in Nat
    BY FS_CardinalityType
<1>2. \E f \in [1 .. n -> S] : IsInjective(f)
  <2>1. IsFiniteSet(1 .. n) /\ Cardinality(1 .. n) = n
    BY <1>1, FS_Interval
  <2>2. ExistsBijection(1 .. n, S)
    BY <2>1, FS_SameCardinalityBij
  <2>3. PICK f : f \in Bijection(1 .. n, S)
    BY <2>2 DEF ExistsBijection
  <2>4. f \in Injection(1 .. n, S)
    BY <2>3 DEF Bijection
  <2> QED BY <2>4 DEF Injection
<1> DEFINE x == SetToSeq(S)
<1>3. x \in [1 .. n -> S] /\ IsInjective(x)
    BY <1>2 DEF SetToSeq
<1> HIDE DEF x
<1>4. \A i \in 1 .. n, j \in 1 .. n : x[i] = x[j] => i = j
    BY <1>3 DEF IsInjective
<1>5. Len(x) = n
    BY <1>1, <1>3
<1>6. x \in Surjection(1 .. n, S)
  <2>1. IsFiniteSet(1 .. n) /\ Cardinality(1 .. n) = n
    BY <1>1, FS_Interval
  <2>2. x \in Injection(1 .. n, S)
    BY <1>3 DEF Injection
  <2> QED BY <2>1, <2>2, FS_Injection
<1>7. {x[k] : k \in 1 .. n} = S
  <2>1. \A y \in S : \E k \in 1 .. n : x[k] = y
    BY <1>6 DEF Surjection
  <2> QED BY <1>3, <2>1
<1> QED
    BY <1>1, <1>3, <1>4, <1>5, <1>7 DEF x

\* The tool's combination of powers by the shares of some trustees.
LEMMA combineAtIs ==
    ASSUME KeyIsShared, NEW b, OfOrder(b), NEW S \in SUBSET Opening,
           Cardinality(S) \in TrusteeThreshold .. TrusteeCount,
           NEW values, DOMAIN values = S, \A t \in S : values[t] = Pow(b, shares[t])
    PROVE  combineAt(values) = Repeated(b, secret)
<1> DEFINE n == Cardinality(S)
           x == SetToSeq(S)
           r == [k \in 1 .. n |-> Pow(values[x[k]], lagrange(x[k], x))]
           N == TrusteeCount
<1>1. IsFiniteSet(S)
  <2>1. IsFiniteSet(1 .. N)
    BY TrusteesAre, FS_Interval
  <2> QED BY <2>1, TrusteesAre, FS_Subset
<1>2. /\ n \in Nat /\ x \in [1 .. n -> S] /\ Len(x) = n /\ DOMAIN x = 1 .. n
      /\ {x[k] : k \in 1 .. n} = S /\ n \in TrusteeThreshold .. TrusteeCount
  <2>1. /\ n \in Nat /\ x \in [1 .. n -> S] /\ Len(x) = n
        /\ {x[k] : k \in 1 .. n} = S
    BY <1>1, SequenceOfSet
  <2> QED BY <2>1
<1>3. combineAt(values) = MultipliedMod(r, P)
    BY <1>2 DEF combineAt
<1> HIDE DEF n, x
<1>4. x \in [1 .. n -> Opening] /\ Cardinality({x[k] : k \in 1 .. n}) = n
    BY <1>2 DEF n
<1>5. Len(r) = n
    BY <1>2
<1>6. ASSUME NEW j \in 1 .. n
      PROVE  r[j] = Pow(Pow(b, shares[x[j]]), Lag(FirstOf(x, n), x[j], N))
  <2>1. Listed(x, n, N) /\ x[j] \in FirstOf(x, n) /\ x[j] \in S
    <3>1. x[j] \in FirstOf(x, n) /\ x[j] \in S
      BY <1>2 DEF FirstOf
    <3> QED BY <1>2, <1>4, <3>1, TrusteesAre, ListedOnce
  <2>2. r[j] = Pow(Pow(b, shares[x[j]]), lagrange(x[j], x))
    BY <2>1
  <2> HIDE DEF r
  <2>3. lagrange(x[j], x) = Lag(FirstOf(x, n), x[j], N)
    BY <1>2, <2>1, TrusteesAre, LagrangeIs
  <2> QED BY <2>2, <2>3
<1> HIDE DEF r
<1>7. MultipliedMod(r, P) = Repeated(b, secret)
    BY <1>2, <1>4, <1>5, <1>6, SharesCombine
<1> QED
    BY <1>3, <1>7

----------------------------------------------------------------------------
(***************************************************************************)
(* What always holds of the shares and the sums.                           *)
(***************************************************************************)
LEMMA SubgroupIs ==
    ASSUME NEW v
    PROVE  /\ InSubgroup(v) => OfOrder(v) /\ v \in Nat /\ v > 1 /\ v < P
           /\ OfOrder(v) /\ v # 1 => InSubgroup(v)
           /\ OfOrder(v) => v \in Elements
<1>1. P \in Nat /\ P >= 7 /\ Q - 1 \in Nat /\ (Q - 1) + 1 = Q /\ Residues = 0 .. P - 1
    BY Residue, Order DEF Residues
<1>2. ASSUME v \in Residues
      PROVE  v \in Nat /\ (Pow(v, Q - 1) * v) % P = Repeated(v, Q)
  <2>1. v \in Nat
    BY <1>2, Residue
  <2>2. Pow(v, Q - 1) = Repeated(v, Q - 1)
    BY <1>1, <2>1, PowIsThePower
  <2>3. Repeated(v, Q) = TimesMod(Repeated(v, Q - 1), v)
    BY <1>1, <2>1, PowerStep
  <2> QED BY <2>1, <2>2, <2>3 DEF TimesMod
<1>3. ASSUME InSubgroup(v) PROVE OfOrder(v) /\ v \in Nat /\ v > 1 /\ v < P
  <2>1. v \in 2 .. P - 1 /\ (Pow(v, Q - 1) * v) % P = 1
    BY <1>3 DEF InSubgroup
  <2>2. v \in Residues /\ v \in Nat /\ v > 1 /\ v < P
    BY <1>1, <2>1
  <2>3. Repeated(v, Q) = 1
    BY <1>2, <2>1, <2>2
  <2> QED BY <2>2, <2>3 DEF OfOrder
<1>4. ASSUME OfOrder(v) PROVE v \in Elements
  <2>1. v \in Residues /\ Repeated(v, Q) = 1
    BY <1>4 DEF OfOrder
  <2>2. v # 0
    <3> SUFFICES ASSUME v = 0 PROVE FALSE
      OBVIOUS
    <3>1. Repeated(0, Q) = TimesMod(Repeated(0, Q - 1), 0)
      BY <1>1, PowerStep
    <3>2. Repeated(0, Q - 1) \in Nat
      BY <1>1, PowerType
    <3> DEFINE w == Repeated(0, Q - 1)
    <3> HIDE DEF w
    <3>3. w \in Nat => TimesMod(w, 0) = 0
      <4>1. w \in Nat => w * 0 = 0
        OBVIOUS
      <4>2. P * 0 + 0 = 0 /\ (P * 0 + 0) % P = 0
        BY <1>1, RestIs
      <4> QED BY <4>1, <4>2 DEF TimesMod
    <3> QED BY <2>1, <3>1, <3>2, <3>3 DEF w
  <2> QED BY <1>1, <2>1, <2>2 DEF Elements
<1>5. ASSUME OfOrder(v), v # 1 PROVE InSubgroup(v)
  <2>1. v \in Elements /\ v \in Residues /\ Repeated(v, Q) = 1
    BY <1>4, <1>5 DEF OfOrder
  <2>2. v \in 2 .. P - 1
    BY <1>1, <1>5, <2>1 DEF Elements
  <2> QED BY <1>2, <2>1, <2>2 DEF InSubgroup
<1> QED
    BY <1>3, <1>4, <1>5

\* Who has contributed to s.
Holders(s) == {d.trustee : d \in {e \in contributed : e.of = s}}

ContributionIs(d) ==
    /\ d.trustee \in Opening /\ d.of \in Sums
    /\ d.value = Pow(sums[d.of].c1, shares[d.trustee])

OpenedIs(s) ==
    /\ opened = <<[of |-> s, votes |-> cast[s]]>>
    /\ Cardinality(Holders(s)) \in TrusteeThreshold .. TrusteeCount

StatementIs(c) ==
    /\ c = statement[1] /\ c.share \in Nat
    /\ c.c.c1 = 1 \/ InSubgroup(c.c.c1)
    /\ c.c.c2 = G
    /\ c.value \in Elements /\ c.a \in Elements /\ c.b \in Elements

Replied(challenge) ==
    \E response \in Scalars :
        PartialHolds(Pow(G, statement[1].share), statement[1].c, statement[1].value,
            [a |-> statement[1].a, b |-> statement[1].b, challenge |-> challenge,
             response |-> response])

\* The order in which things come.
InTurn ==
    /\ shares = <<>> => sums = <<>>
    /\ sums = <<>> => contributed = {} /\ opened = <<>>
    /\ statement = <<>> => replies = {}
    /\ replies \subseteq Scalars

KeyIInv ==
    /\ shares # <<>> => KeyIsShared
    /\ sums # <<>> => \A s \in Sums : SumIs(s)

ContributionIInv ==
    /\ \A d \in contributed : ContributionIs(d)
    /\ \A d \in contributed, e \in contributed : d.trustee = e.trustee => d = e

\* A challenge was asked for by the trustee herself, for the sum she contributed to,
\* until somebody asks for another.
OracleIInv ==
    /\ guessed = elsewhere
    /\ ~elsewhere =>
          \A transcript \in DOMAIN hash : \E d \in contributed :
              transcript[1] = d.of /\ transcript[2] = d.trustee

ClaimIInv ==
    /\ statement # <<>> => \E c : StatementIs(c)
    /\ \A challenge \in replies : Replied(challenge)

ThresholdIInv ==
    /\ InTurn /\ KeyIInv /\ ContributionIInv /\ OracleIInv /\ ClaimIInv
    /\ opened # <<>> => \E s \in Sums : OpenedIs(s)

LEMMA ThresholdBegins == ThresholdInit => ThresholdIInv
<1> SUFFICES ASSUME ThresholdInit PROVE ThresholdIInv
    OBVIOUS
<1>1. /\ shares = <<>> /\ sums = <<>> /\ contributed = {} /\ opened = <<>> /\ statement = <<>>
      /\ replies = {} /\ hash = <<>> /\ guessed = FALSE /\ elsewhere = FALSE
    BY DEF ThresholdInit
<1>2. DOMAIN hash = {}
    BY <1>1
<1> QED
    BY <1>1, <1>2 DEF ThresholdIInv, InTurn, KeyIInv, ContributionIInv, OracleIInv, ClaimIInv

\* What is not touched stays.
LEMMA KeyStays ==
    ASSUME KeyIInv, secret' = secret, shares' = shares, sums' = sums, cast' = cast
    PROVE  KeyIInv'
<1>1. ASSUME shares' # <<>> PROVE KeyIsShared'
    BY <1>1 DEF KeyIInv, KeyIsShared
<1>2. ASSUME sums' # <<>>, NEW s \in Sums PROVE SumIs(s)'
    BY <1>2 DEF KeyIInv, SumIs
<1> QED
    BY <1>1, <1>2 DEF KeyIInv

LEMMA ContributionsStay ==
    ASSUME ContributionIInv, shares' = shares, sums' = sums, contributed' = contributed
    PROVE  ContributionIInv'
    BY DEF ContributionIInv, ContributionIs

LEMMA ClaimsStay ==
    ASSUME ClaimIInv, statement' = statement, replies' = replies
    PROVE  ClaimIInv'
    BY DEF ClaimIInv, StatementIs, Replied, PartialHolds

LEMMA OpenedStays ==
    ASSUME opened' = opened, cast' = cast, contributed' = contributed, NEW s, OpenedIs(s)
    PROVE  OpenedIs(s)'
    BY DEF OpenedIs, Holders

LEMMA SplitKeeps ==
    ASSUME ThresholdIInv, Split
    PROVE  ThresholdIInv'
<1>1. /\ shares = <<>> /\ sums' = sums /\ cast' = cast /\ contributed' = contributed
      /\ hash' = hash /\ guessed' = guessed /\ elsewhere' = elsewhere /\ opened' = opened
      /\ statement' = statement /\ replies' = replies
    BY DEF Split
<1>2. PICK s \in Random, others \in [1 .. (TrusteeThreshold - 1) -> Random] :
          secret' = s /\ shares' = Shares(<<s>> \o others)
    BY DEF Split
<1>3. sums = <<>> /\ contributed = {} /\ opened = <<>>
    BY <1>1 DEF ThresholdIInv, InTurn
<1>4. KeyIInv'
  <2>1. KeyIsShared'
    BY <1>2, TrusteesAre DEF KeyIsShared
  <2> QED BY <1>1, <1>3, <2>1 DEF KeyIInv
<1>5. InTurn'
    BY <1>1, <1>3 DEF ThresholdIInv, InTurn
<1>6. ContributionIInv'
    BY <1>1, <1>3 DEF ContributionIInv
<1>7. OracleIInv'
    BY <1>1 DEF ThresholdIInv, OracleIInv
<1>8. ClaimIInv'
    BY <1>1, ClaimsStay DEF ThresholdIInv
<1> QED
    BY <1>1, <1>3, <1>4, <1>5, <1>6, <1>7, <1>8 DEF ThresholdIInv

LEMMA VotesAreInKeeps ==
    ASSUME ThresholdIInv, VotesAreIn
    PROVE  ThresholdIInv'
<1>1. /\ shares # <<>> /\ sums = <<>> /\ secret' = secret /\ shares' = shares
      /\ contributed' = contributed
      /\ hash' = hash /\ guessed' = guessed /\ elsewhere' = elsewhere /\ opened' = opened
      /\ statement' = statement /\ replies' = replies
    BY DEF VotesAreIn
<1>2. PICK votes \in [Sums -> VoteCounts], nonces \in [Sums -> Random \cup {0}] :
          /\ sums' = [s \in Sums |-> Encrypt(Pow(G, secret), votes[s], nonces[s])]
          /\ cast' = votes
    BY DEF VotesAreIn
<1>3. contributed = {} /\ opened = <<>>
    BY <1>1 DEF ThresholdIInv, InTurn
<1>4. KeyIInv'
  <2>1. KeyIsShared'
    BY <1>1 DEF ThresholdIInv, KeyIInv, KeyIsShared
  <2>2. ASSUME NEW s \in Sums PROVE SumIs(s)'
    <3>1. votes[s] \in 0 .. MaxVotes
      BY <1>2, ThresholdAssumption
    <3>2. nonces[s] \in Nat
      <4>1. nonces \in [Sums -> Random \cup {0}]
        BY <1>2
      <4>2. nonces[s] \in Random \cup {0}
        BY <4>1
      <4>3. Random \subseteq Nat
        BY TrusteesAre
      <4>4. 0 \in Nat
        OBVIOUS
      <4> QED BY <4>2, <4>3, <4>4, Zenon
    <3>3. sums'[s] = Encrypt(Pow(G, secret), votes[s], nonces[s])
      BY <1>2
    <3> QED BY <1>1, <1>2, <3>1, <3>2, <3>3 DEF SumIs
  <2> QED BY <2>1, <2>2 DEF KeyIInv
<1>5. InTurn'
    BY <1>1, <1>3 DEF ThresholdIInv, InTurn
<1>6. ContributionIInv'
    BY <1>1, <1>3 DEF ContributionIInv
<1>7. OracleIInv'
    BY <1>1 DEF ThresholdIInv, OracleIInv
<1>8. ClaimIInv'
    BY <1>1, ClaimsStay DEF ThresholdIInv
<1> QED
    BY <1>1, <1>3, <1>4, <1>5, <1>6, <1>7, <1>8 DEF ThresholdIInv

\* What the oracle knows after a question.
LEMMA AskedAre ==
    ASSUME NEW transcript, NEW challenge, HashIs(transcript, challenge)
    PROVE  DOMAIN hash' \subseteq DOMAIN hash \cup {transcript}
    BY DEF HashIs

LEMMA ContributeKeeps ==
    ASSUME ThresholdIInv, NEW t \in Opening, NEW s \in Sums, Contribute(t, s)
    PROVE  ThresholdIInv'
<1>1. /\ sums # <<>> /\ opened = <<>> /\ ~elsewhere /\ \A d \in contributed : d.trustee # t
      /\ secret' = secret /\ shares' = shares /\ sums' = sums /\ cast' = cast
      /\ guessed' = guessed /\ elsewhere' = elsewhere /\ opened' = opened
      /\ statement' = statement /\ replies' = replies
    BY DEF Contribute
<1> DEFINE c == sums[s]
           value == Pow(c.c1, shares[t])
           transcript(a, b) == PartialTranscript(s, t, PublicShare(t), c, value, a, b)
           new(a, b, challenge, response) ==
               [trustee |-> t, of |-> s, value |-> value,
                proof |-> [a |-> a, b |-> b, challenge |-> challenge, response |-> response]]
<1>2. \E w \in Random, challenge \in HashValues :
         /\ HashIs(transcript(Pow(G, w), Pow(c.c1, w)), challenge)
         /\ contributed' = contributed \cup
               {new(Pow(G, w), Pow(c.c1, w), challenge, (w + challenge * shares[t]) % Q)}
    BY DEF Contribute, PartiallyDecrypt
<1>3. PICK a, b, challenge, response :
         /\ HashIs(transcript(a, b), challenge)
         /\ contributed' = contributed \cup {new(a, b, challenge, response)}
  <2> HIDE DEF transcript, new, c
  <2> QED BY <1>2
<1> DEFINE d == new(a, b, challenge, response)
<1>4. d.trustee = t /\ d.of = s /\ d.value = Pow(sums[s].c1, shares[t])
    BY Zenon
<1>5. transcript(a, b)[1] = s /\ transcript(a, b)[2] = t
    BY DEF PartialTranscript
<1>6. DOMAIN hash' \subseteq DOMAIN hash \cup {transcript(a, b)}
  <2> HIDE DEF transcript
  <2> QED BY <1>3, AskedAre
<1>7. contributed' = contributed \cup {d}
    BY <1>3
<1> HIDE DEF d, transcript, new, c, value
<1>8. KeyIInv'
    BY <1>1, KeyStays DEF ThresholdIInv
<1>9. InTurn'
    BY <1>1 DEF ThresholdIInv, InTurn
<1>10. ContributionIInv'
  <2>1. ASSUME NEW e \in contributed' PROVE ContributionIs(e)'
    <3>1. CASE e \in contributed
      BY <1>1, <3>1 DEF ThresholdIInv, ContributionIInv, ContributionIs
    <3>2. CASE e = d
      BY <1>1, <1>4, <3>2 DEF ContributionIs
    <3> QED BY <1>7, <3>1, <3>2
  <2>2. ASSUME NEW e \in contributed', NEW f \in contributed', e.trustee = f.trustee PROVE e = f
    <3>1. CASE e \in contributed /\ f \in contributed
      BY <2>2, <3>1 DEF ThresholdIInv, ContributionIInv
    <3>2. CASE e = d \/ f = d
      BY <1>1, <1>4, <1>7, <2>2, <3>2
    <3> QED BY <1>7, <3>1, <3>2
  <2> QED BY <2>1, <2>2 DEF ContributionIInv
<1>11. OracleIInv'
  <2>1. guessed' = elsewhere'
    BY <1>1 DEF ThresholdIInv, OracleIInv
  <2>2. ASSUME NEW r \in DOMAIN hash' PROVE \E e \in contributed' : r[1] = e.of /\ r[2] = e.trustee
    <3>1. CASE r \in DOMAIN hash
      <4>1. PICK e \in contributed : r[1] = e.of /\ r[2] = e.trustee
        BY <1>1, <3>1 DEF ThresholdIInv, OracleIInv
      <4> QED BY <1>7, <4>1
    <3>2. CASE r = transcript(a, b)
      BY <1>4, <1>5, <1>7, <3>2
    <3> QED BY <1>6, <3>1, <3>2
  <2> QED BY <2>1, <2>2 DEF OracleIInv
<1>12. ClaimIInv'
    BY <1>1, ClaimsStay DEF ThresholdIInv
<1> QED
    BY <1>1, <1>8, <1>9, <1>10, <1>11, <1>12 DEF ThresholdIInv

LEMMA AcceptElsewhereKeeps ==
    ASSUME ThresholdIInv, NEW d \in contributed, NEW s \in Sums, AcceptElsewhere(d, s)
    PROVE  ThresholdIInv'
<1>1. /\ d.of # s /\ ~elsewhere /\ elsewhere' = TRUE
      /\ guessed' = (TranscriptFor(d, s) \notin DOMAIN hash)
      /\ secret' = secret /\ shares' = shares /\ sums' = sums /\ cast' = cast
      /\ contributed' = contributed /\ opened' = opened
      /\ statement' = statement /\ replies' = replies
    BY DEF AcceptElsewhere
<1>2. TranscriptFor(d, s) \notin DOMAIN hash
  <2> SUFFICES ASSUME TranscriptFor(d, s) \in DOMAIN hash PROVE FALSE
    OBVIOUS
  <2>1. PICK e \in contributed : TranscriptFor(d, s)[1] = e.of /\ TranscriptFor(d, s)[2] = e.trustee
    BY <1>1 DEF ThresholdIInv, OracleIInv
  <2>2. TranscriptFor(d, s)[1] = s /\ TranscriptFor(d, s)[2] = d.trustee
    BY DEF TranscriptFor, PartialTranscript
  <2>3. e = d
    BY <2>1, <2>2 DEF ThresholdIInv, ContributionIInv
  <2> QED BY <1>1, <2>1, <2>2, <2>3
<1>3. KeyIInv'
    BY <1>1, KeyStays DEF ThresholdIInv
<1>4. InTurn'
    BY <1>1 DEF ThresholdIInv, InTurn
<1>5. ContributionIInv'
    BY <1>1, ContributionsStay DEF ThresholdIInv
<1>6. OracleIInv'
    BY <1>1, <1>2 DEF OracleIInv
<1>7. ClaimIInv'
    BY <1>1, ClaimsStay DEF ThresholdIInv
<1>8. opened' # <<>> => \E r \in Sums : OpenedIs(r)'
    BY <1>1, OpenedStays DEF ThresholdIInv
<1> QED
    BY <1>3, <1>4, <1>5, <1>6, <1>7, <1>8 DEF ThresholdIInv

LEMMA OpenSumKeeps ==
    ASSUME ThresholdIInv, NEW s \in Sums, sums # <<>>, OpenSum(s)
    PROVE  ThresholdIInv'
<1>1. /\ opened = <<>> /\ secret' = secret /\ shares' = shares /\ sums' = sums /\ cast' = cast
      /\ contributed' = contributed /\ hash' = hash /\ guessed' = guessed
      /\ elsewhere' = elsewhere /\ statement' = statement /\ replies' = replies
    BY DEF OpenSum
<1>2a. PICK n \in TrusteeThreshold .. TrusteeCount :
          \E list \in [1 .. n -> {d \in contributed : d.of = s /\ Holds(d)}] :
             /\ MayCombine(list)
             /\ opened' = <<[of |-> s, votes |-> DiscreteLog(Combine(sums[s], list), MaxVotes)]>>
    BY DEF OpenSum
<1>2. PICK list \in [1 .. n -> {d \in contributed : d.of = s /\ Holds(d)}] :
          /\ MayCombine(list)
          /\ opened' = <<[of |-> s, votes |-> DiscreteLog(Combine(sums[s], list), MaxVotes)]>>
    BY <1>2a
<1>3. KeyIsShared /\ SumIs(s)
  <2>1. shares # <<>>
    BY DEF ThresholdIInv, InTurn
  <2> QED BY <2>1 DEF ThresholdIInv, KeyIInv
<1>4. n \in Nat /\ DOMAIN list = 1 .. n /\ Len(list) = n
    BY TrusteesAre
<1>5. \A k \in 1 .. n : /\ list[k] \in contributed /\ list[k].of = s
                        /\ list[k].trustee \in Opening
                        /\ list[k].value = Pow(sums[s].c1, shares[list[k].trustee])
  <2>1. \A k \in 1 .. n : list[k] \in contributed /\ list[k].of = s
    OBVIOUS
  <2> QED BY <2>1 DEF ThresholdIInv, ContributionIInv, ContributionIs
<1>6. DiscreteLog(Combine(sums[s], list), MaxVotes) = cast[s]
    BY <1>2, <1>3, <1>4, <1>5, CombineIs
<1>7. Cardinality(Holders(s)) \in TrusteeThreshold .. TrusteeCount
  <2> DEFINE T == {list[k].trustee : k \in DOMAIN list}
             N == TrusteeCount
  <2>1. Holders(s) \subseteq 1 .. N
    BY TrusteesAre DEF Holders, ThresholdIInv, ContributionIInv, ContributionIs
  <2>2. IsFiniteSet(1 .. N) /\ Cardinality(1 .. N) = N
    BY TrusteesAre, FS_Interval
  <2>3. IsFiniteSet(Holders(s)) /\ Cardinality(Holders(s)) <= N /\ Cardinality(Holders(s)) \in Nat
    BY <2>1, <2>2, FS_Subset, FS_CardinalityType
  <2>4. T \subseteq Holders(s)
    BY <1>4, <1>5 DEF Holders
  <2>5. Cardinality(T) <= Cardinality(Holders(s))
    BY <2>3, <2>4, FS_Subset
  <2>6. Cardinality(T) = n
    BY <1>2, <1>4 DEF MayCombine
  <2> HIDE DEF T
  <2> QED BY <2>3, <2>5, <2>6, TrusteesAre
<1>8. OpenedIs(s)'
  <2>1. Holders(s)' = Holders(s)
    BY <1>1 DEF Holders
  <2> QED BY <1>1, <1>2, <1>6, <1>7, <2>1 DEF OpenedIs
<1>9. KeyIInv'
    BY <1>1, KeyStays DEF ThresholdIInv
<1>10. InTurn'
    BY <1>1 DEF ThresholdIInv, InTurn
<1>11. ContributionIInv'
    BY <1>1, ContributionsStay DEF ThresholdIInv
<1>12. OracleIInv'
    BY <1>1 DEF ThresholdIInv, OracleIInv
<1>13. ClaimIInv'
    BY <1>1, ClaimsStay DEF ThresholdIInv
<1> QED
    BY <1>8, <1>9, <1>10, <1>11, <1>12, <1>13 DEF ThresholdIInv

LEMMA StateKeeps ==
    ASSUME ThresholdIInv, State
    PROVE  ThresholdIInv'
<1>1. /\ statement = <<>> /\ secret' = secret /\ shares' = shares /\ sums' = sums /\ cast' = cast
      /\ contributed' = contributed /\ hash' = hash /\ guessed' = guessed
      /\ elsewhere' = elsewhere /\ opened' = opened /\ replies' = replies
    BY DEF State
<1>2. PICK x \in ClaimedShares, c1 \in Subgroup \cup {1}, value \in Elements, a \in Elements,
           b \in Elements :
          statement' = <<[share |-> x, c |-> [c1 |-> c1, c2 |-> G], value |-> value,
                          a |-> a, b |-> b]>>
    BY DEF State
<1>3. replies = {}
    BY <1>1 DEF ThresholdIInv, InTurn
<1>4. KeyIInv'
    BY <1>1, KeyStays DEF ThresholdIInv
<1>5. InTurn'
    BY <1>1, <1>3 DEF ThresholdIInv, InTurn
<1>6. ContributionIInv'
    BY <1>1, ContributionsStay DEF ThresholdIInv
<1>7. OracleIInv'
    BY <1>1 DEF ThresholdIInv, OracleIInv
<1>8. ClaimIInv'
  <2> DEFINE r == [share |-> x, c |-> [c1 |-> c1, c2 |-> G], value |-> value, a |-> a, b |-> b]
  <2>1. x \in Nat
    BY ThresholdAssumption, DrawnAre
  <2>2. c1 = 1 \/ InSubgroup(c1)
    BY DEF Subgroup
  <2>3. statement'[1] = r
    BY <1>2
  <2>4. r.share = x /\ r.c.c1 = c1 /\ r.c.c2 = G /\ r.value = value /\ r.a = a /\ r.b = b
    OBVIOUS
  <2> HIDE DEF r
  <2>5. StatementIs(r)'
    BY <2>1, <2>2, <2>3, <2>4 DEF StatementIs
  <2> QED BY <1>1, <1>3, <2>5 DEF ClaimIInv
<1>9. opened' # <<>> => \E s \in Sums : OpenedIs(s)'
    BY <1>1, OpenedStays DEF ThresholdIInv
<1> QED
    BY <1>4, <1>5, <1>6, <1>7, <1>8, <1>9 DEF ThresholdIInv

LEMMA ReplyToKeeps ==
    ASSUME ThresholdIInv, NEW challenge \in Scalars, ReplyTo(challenge)
    PROVE  ThresholdIInv'
<1>1. /\ statement # <<>> /\ secret' = secret /\ shares' = shares /\ sums' = sums /\ cast' = cast
      /\ contributed' = contributed /\ hash' = hash /\ guessed' = guessed
      /\ elsewhere' = elsewhere /\ opened' = opened /\ statement' = statement
      /\ replies' = replies \cup {challenge}
    BY DEF ReplyTo
<1>2. Replied(challenge)
    BY DEF ReplyTo, Replied
<1>3. KeyIInv'
    BY <1>1, KeyStays DEF ThresholdIInv
<1>4. InTurn'
    BY <1>1 DEF ThresholdIInv, InTurn
<1>5. ContributionIInv'
    BY <1>1, ContributionsStay DEF ThresholdIInv
<1>6. OracleIInv'
    BY <1>1 DEF ThresholdIInv, OracleIInv
<1>7. ClaimIInv'
  <2>1. statement' # <<>> => \E c : StatementIs(c)'
    BY <1>1 DEF ThresholdIInv, ClaimIInv, StatementIs
  <2>2. ASSUME NEW e \in replies' PROVE Replied(e)'
    <3>1. Replied(e)
      BY <1>1, <1>2 DEF ThresholdIInv, ClaimIInv
    <3> QED BY <1>1, <3>1 DEF Replied, PartialHolds
  <2> QED BY <2>1, <2>2 DEF ClaimIInv
<1>8. opened' # <<>> => \E s \in Sums : OpenedIs(s)'
    BY <1>1, OpenedStays DEF ThresholdIInv
<1> QED
    BY <1>3, <1>4, <1>5, <1>6, <1>7, <1>8 DEF ThresholdIInv

LEMMA ThresholdStepKeeps ==
    ASSUME ThresholdIInv, [ThresholdNext]_thresholdVars
    PROVE  ThresholdIInv'
<1>1. CASE UNCHANGED thresholdVars
  <2>1. /\ secret' = secret /\ shares' = shares /\ sums' = sums /\ cast' = cast
        /\ contributed' = contributed /\ hash' = hash /\ guessed' = guessed
        /\ elsewhere' = elsewhere /\ opened' = opened /\ statement' = statement
        /\ replies' = replies
    BY <1>1 DEF thresholdVars
  <2>2. KeyIInv'
    BY <2>1, KeyStays DEF ThresholdIInv
  <2>3. InTurn'
    BY <2>1 DEF ThresholdIInv, InTurn
  <2>4. ContributionIInv'
    BY <2>1, ContributionsStay DEF ThresholdIInv
  <2>5. OracleIInv'
    BY <2>1 DEF ThresholdIInv, OracleIInv
  <2>6. ClaimIInv'
    BY <2>1, ClaimsStay DEF ThresholdIInv
  <2>7. opened' # <<>> => \E s \in Sums : OpenedIs(s)'
    BY <2>1, OpenedStays DEF ThresholdIInv
  <2> QED BY <2>2, <2>3, <2>4, <2>5, <2>6, <2>7 DEF ThresholdIInv
<1>2. CASE ThresholdNext
  <2>1. CASE Split
    BY <2>1, SplitKeeps
  <2>2. CASE VotesAreIn
    BY <2>2, VotesAreInKeeps
  <2>3. ASSUME NEW t \in Opening, NEW s \in Sums, Contribute(t, s) PROVE ThresholdIInv'
    BY <2>3, ContributeKeeps
  <2>4. ASSUME NEW d \in contributed, NEW s \in Sums, AcceptElsewhere(d, s) PROVE ThresholdIInv'
    BY <2>4, AcceptElsewhereKeeps
  <2>5. ASSUME NEW s \in Sums, sums # <<>>, OpenSum(s) PROVE ThresholdIInv'
    BY <2>5, OpenSumKeeps
  <2>6. CASE State
    BY <2>6, StateKeeps
  <2>7. ASSUME NEW challenge \in Scalars, ReplyTo(challenge) PROVE ThresholdIInv'
    BY <2>7, ReplyToKeeps
  <2> QED BY <1>2, <2>1, <2>2, <2>3, <2>4, <2>5, <2>6, <2>7 DEF ThresholdNext
<1> QED
    BY <1>1, <1>2

\* What follows of the types.
LEMMA ThresholdTypes ==
    ASSUME ThresholdIInv
    PROVE  ThresholdTypeOK
<1>1. shares # <<>> => shares \in [Opening -> Scalars]
    BY SharesAre DEF ThresholdIInv, KeyIInv
<1>2. ASSUME NEW d \in contributed
      PROVE  d.trustee \in Opening /\ d.of \in Sums /\ d.value \in Elements
  <2>1. ContributionIs(d)
    BY DEF ThresholdIInv, ContributionIInv
  <2>2. KeyIsShared /\ SumIs(d.of)
    BY <2>1 DEF ThresholdIInv, InTurn, KeyIInv, ContributionIs
  <2>3. OfOrder(sums[d.of].c1)
    BY <2>2, SumFields DEF KeyIsShared
  <2>4. shares[d.trustee] \in Nat
    BY <2>1, <2>2, SharesAre, DrawnAre DEF ContributionIs
  <2>5. OfOrder(Repeated(sums[d.of].c1, shares[d.trustee]))
        /\ Pow(sums[d.of].c1, shares[d.trustee]) = Repeated(sums[d.of].c1, shares[d.trustee])
    <3> DEFINE b == sums[d.of].c1
               e == shares[d.trustee]
    <3>1. OfOrder(b) /\ e \in Nat
      BY <2>3, <2>4
    <3> HIDE DEF b, e
    <3>2. b \in Nat
      BY <3>1, Residue DEF OfOrder
    <3>3. OfOrder(Repeated(b, e)) /\ Pow(b, e) = Repeated(b, e)
      BY <3>1, <3>2, OrderOfPower, PowIsThePower
    <3> QED BY <3>3 DEF b, e
  <2>6. OfOrder(d.value)
    BY <2>1, <2>5 DEF ContributionIs
  <2> QED BY <2>1, <2>6, SubgroupIs DEF ContributionIs
<1>3. guessed => elsewhere
    BY DEF ThresholdIInv, OracleIInv
<1>4. replies \subseteq Scalars
    BY DEF ThresholdIInv, InTurn
<1> QED
    BY <1>1, <1>2, <1>3, <1>4 DEF ThresholdTypeOK

\* What was opened is the number of votes, of a sum that enough trustees contributed to.
LEMMA OpenedIsRight ==
    ASSUME ThresholdIInv, opened # <<>>
    PROVE  /\ KeyIsShared
           /\ \E s \in Sums : /\ SumIs(s) /\ opened[1].of = s /\ opened[1].votes = cast[s]
                              /\ Cardinality(Holders(s)) \in TrusteeThreshold .. TrusteeCount
<1>1. PICK s \in Sums : OpenedIs(s)
    BY DEF ThresholdIInv
<1>2. KeyIsShared /\ SumIs(s)
    BY <1>1 DEF ThresholdIInv, InTurn, KeyIInv
<1>3. opened[1].of = s /\ opened[1].votes = cast[s]
    BY <1>1 DEF OpenedIs
<1> QED
    BY <1>1, <1>2, <1>3 DEF OpenedIs

\* A value that is answered for twice is the power by the share.
LEMMA TwiceIsTheShare ==
    ASSUME ThresholdIInv
    PROVE  OnlyTheShareIsProved
<1> SUFFICES ASSUME Cardinality(replies) > 1
             PROVE  statement[1].value = Pow(statement[1].c.c1, statement[1].share)
    BY DEF OnlyTheShareIsProved
<1>1. replies \subseteq Scalars /\ replies \subseteq Nat
    BY DrawnAre DEF ThresholdIInv, InTurn
<1>2. \E e \in replies, f \in replies : e > f
  <2>1. replies # {}
    BY FS_EmptySet
  <2>2. PICK e \in replies : TRUE
    BY <2>1
  <2>3. replies # {e}
    <3>1. Cardinality({e}) = 1
      BY FS_Singleton
    <3> QED BY <3>1
  <2>4. PICK f \in replies : f # e
    BY <2>2, <2>3
  <2>5. e \in Nat /\ f \in Nat
    BY <1>1, <2>2, <2>4
  <2> QED BY <2>2, <2>4, <2>5
<1>3. PICK e \in replies, f \in replies : e > f
    BY <1>2
<1>4. statement # <<>>
    BY <1>3 DEF ThresholdIInv, InTurn
<1>5. PICK c : StatementIs(c)
    BY <1>4 DEF ThresholdIInv, ClaimIInv
<1> DEFINE b == c.c.c1
           t == c.value
           x == c.share
           y == Repeated(G, x)
<1>6. /\ c = statement[1] /\ x \in Nat /\ (b = 1 \/ InSubgroup(b)) /\ t \in Elements
      /\ c.a \in Elements /\ c.b \in Elements
    BY <1>5 DEF StatementIs
<1>7. OfOrder(y) /\ y \in Nat /\ Pow(G, x) = y
    BY <1>6, Order, OrderOfPower, PowIsThePower
<1>8. ASSUME NEW k \in replies
      PROVE  \E r \in Scalars :
                /\ ValueFits(b, t)
                /\ Pow(G, r) = TimesMod(c.a, Pow(y, k)) /\ Pow(b, r) = TimesMod(c.b, Pow(t, k))
  <2>1. Replied(k)
    BY DEF ThresholdIInv, ClaimIInv
  <2>2. PICK r \in Scalars :
           PartialHolds(Pow(G, x), c.c, t, [a |-> c.a, b |-> c.b, challenge |-> k, response |-> r])
    BY <1>6, <2>1 DEF Replied
  <2> QED BY <1>7, <2>2 DEF PartialHolds
<1> HIDE DEF b, t, x, y
<1>9. OfOrder(b) /\ OfOrder(t) /\ (b = 1 => t = 1)
  <2>1. ValueFits(b, t)
    BY <1>3, <1>8
  <2>2. OfOrder(1)
    BY Order, Residue, PowerOfOne DEF OfOrder
  <2>3. CASE b = 1
    BY <2>1, <2>2, <2>3 DEF ValueFits
  <2>4. CASE b # 1
    BY <1>6, <2>1, <2>4, SubgroupIs DEF ValueFits
  <2> QED BY <2>3, <2>4
<1>10. b \in Nat /\ t \in Nat /\ c.a \in Residues /\ c.b \in Residues
  <2>1. P \in Nat /\ Elements \subseteq Residues
    BY Residue DEF Elements, Residues
  <2> QED BY <1>6, <1>9, <2>1, Residue DEF OfOrder
<1>11. ASSUME NEW k \in replies
       PROVE  \E r \in Scalars : /\ Repeated(G, r) = TimesMod(c.a, Repeated(y, k))
                                 /\ Repeated(b, r) = TimesMod(c.b, Repeated(t, k))
  <2>1. PICK r \in Scalars :
           Pow(G, r) = TimesMod(c.a, Pow(y, k)) /\ Pow(b, r) = TimesMod(c.b, Pow(t, k))
    BY <1>8
  <2>2. r \in Nat /\ k \in Nat
    BY <1>1, <2>1, DrawnAre
  <2>3. Pow(G, r) = Repeated(G, r) /\ Pow(y, k) = Repeated(y, k)
    BY <1>7, <2>2, Order, PowIsThePower
  <2>4. Pow(b, r) = Repeated(b, r) /\ Pow(t, k) = Repeated(t, k)
    BY <1>10, <2>2, PowIsThePower
  <2> QED BY <2>1, <2>3, <2>4
<1>12. PICK r \in Scalars : /\ Repeated(G, r) = TimesMod(c.a, Repeated(y, e))
                            /\ Repeated(b, r) = TimesMod(c.b, Repeated(t, e))
    BY <1>3, <1>11
<1>13. PICK s \in Scalars : /\ Repeated(G, s) = TimesMod(c.a, Repeated(y, f))
                            /\ Repeated(b, s) = TimesMod(c.b, Repeated(t, f))
    BY <1>3, <1>11
<1>14. e \in Scalars /\ f \in Scalars /\ e > f
    BY <1>1, <1>3
<1>15. t = Repeated(b, x)
  <2> DEFINE u == c.a
             v == c.b
  <2>1. u \in Residues /\ v \in Residues
    BY <1>10
  <2>2. /\ Repeated(G, r) = TimesMod(u, Repeated(Repeated(G, x), e))
        /\ Repeated(b, r) = TimesMod(v, Repeated(t, e))
    BY <1>12 DEF y
  <2>3. /\ Repeated(G, s) = TimesMod(u, Repeated(Repeated(G, x), f))
        /\ Repeated(b, s) = TimesMod(v, Repeated(t, f))
    BY <1>13 DEF y
  <2> HIDE DEF u, v
  <2> QED BY <1>6, <1>9, <1>14, <2>1, <2>2, <2>3, TwoResponses
<1>16. Pow(b, x) = Repeated(b, x)
    BY <1>6, <1>10, PowIsThePower
<1> QED
    BY <1>6, <1>15, <1>16 DEF t, b, x

LEMMA SharesOpen ==
    ASSUME ThresholdIInv
    PROVE  SharesOpenTheSum
<1>1. OpenedIsTheSum
    BY OpenedIsRight DEF OpenedIsTheSum
<1>2. PartialStaysWithItsSum
    BY DEF PartialStaysWithItsSum, ThresholdIInv, OracleIInv
<1> QED
    BY <1>1, <1>2, TwiceIsTheShare DEF SharesOpenTheSum

LEMMA SameAccepted ==
    ASSUME ThresholdIInv
    PROVE  SameAreAccepted
<1> SUFFICES ASSUME statement # <<>>, NEW challenge \in Scalars, NEW response \in Scalars
             PROVE  LET proof == [a |-> statement[1].a, b |-> statement[1].b,
                                  challenge |-> challenge, response |-> response]
                        share == Pow(G, statement[1].share)
                    IN checkPartial(share, statement[1].c, statement[1].value, proof)
                       <=> PartialHolds(share, statement[1].c, statement[1].value, proof)
    BY DEF SameAreAccepted
<1>1. PICK c : StatementIs(c)
    BY DEF ThresholdIInv, ClaimIInv
<1> DEFINE x == c.share
           b == c.c.c1
           y == Pow(G, x)
           t == c.value
           proof == [a |-> c.a, b |-> c.b, challenge |-> challenge, response |-> response]
<1>2. /\ c = statement[1] /\ x \in Nat /\ (b = 1 \/ InSubgroup(b)) /\ t \in Elements
      /\ c.a \in Elements /\ c.b \in Elements /\ c.c.c2 = G
    BY <1>1 DEF StatementIs
<1>3. y \in Nat /\ b \in Nat /\ t \in Nat /\ G \in Nat /\ P \in Nat
  <2>1. y \in Nat
    <3>1. G \in Nat /\ x \in Nat
      BY <1>2, Order
    <3> HIDE DEF x
    <3>2. Pow(G, x) = Repeated(G, x) /\ Repeated(G, x) \in Nat
      BY <3>1, PowIsThePower, PowerType
    <3> QED BY <3>2
  <2>2. b \in Nat
    <3>1. b = 1 \/ InSubgroup(b)
      BY <1>2
    <3> HIDE DEF b
    <3>2. CASE b = 1
      BY <3>2
    <3>3. CASE InSubgroup(b)
      BY <3>3, SubgroupIs
    <3> QED BY <3>1, <3>2, <3>3
  <2>3. t \in Nat
    <3>1. t \in Elements
      BY <1>2
    <3> HIDE DEF t
    <3> QED BY <3>1, Residue DEF Elements
  <2> QED BY <2>1, <2>2, <2>3, Order, Residue
<1>4. ASSUME NEW v \in Nat PROVE inSubgroup(v) <=> InSubgroup(v)
    BY <1>3 DEF inSubgroup, InSubgroup
<1>5. /\ proof.a = c.a /\ proof.b = c.b /\ proof.challenge = challenge
      /\ proof.response = response
    OBVIOUS
<1> HIDE DEF y, b, t, proof
<1>6. /\ inSubgroup(y) <=> InSubgroup(y)
      /\ (b = 1 \/ inSubgroup(b)) <=> IsGroupElement(b)
      /\ (G = 1 \/ inSubgroup(G)) <=> IsGroupElement(G)
      /\ FitsTheSum(b, t) <=> ValueFits(b, t)
    BY <1>3, <1>4 DEF IsGroupElement, FitsTheSum, ValueFits
<1>7. IsResidue(t) /\ IsResidue(proof.a) /\ IsResidue(proof.b)
    BY <1>2, <1>5 DEF IsResidue, Elements, t
<1>8. checkPartial(y, c.c, t, proof) <=> PartialHolds(y, c.c, t, proof)
    BY <1>2, <1>5, <1>6, <1>7 DEF checkPartial, PartialHolds, b
<1> QED
    BY <1>2, <1>8 DEF y, t, proof

LEMMA SameCounted ==
    ASSUME ThresholdIInv
    PROVE  SameAreCounted
<1> SUFFICES ASSUME opened # <<>>
             PROVE  /\ SharesBelongToKey(Pow(G, secret))
                    /\ \A count \in 0 .. MaxVotes :
                          CountHolds(opened[1].of, count) <=> count = opened[1].votes
    BY DEF SameAreCounted
<1>1. KeyIsShared
    BY OpenedIsRight
<1>2. PICK s \in Sums : /\ SumIs(s) /\ opened[1].of = s /\ opened[1].votes = cast[s]
                        /\ Cardinality(Holders(s)) \in TrusteeThreshold .. TrusteeCount
    BY OpenedIsRight
<1>3. secret \in Nat
    BY <1>1 DEF KeyIsShared
<1>4. SharesBelongToKey(Pow(G, secret))
  <2> SUFFICES ASSUME NEW pair \in SUBSET Opening, Cardinality(pair) = 2
               PROVE  combineAt([t \in pair |-> PublicShare(t)]) = Pow(G, secret)
    BY DEF SharesBelongToKey
  <2> DEFINE values == [t \in pair |-> PublicShare(t)]
  <2>1. DOMAIN values = pair /\ \A t \in pair : values[t] = Pow(G, shares[t])
    BY DEF PublicShare
  <2>2. Cardinality(pair) \in TrusteeThreshold .. TrusteeCount
    <3>1. IsFiniteSet(1 .. TrusteeCount) /\ Cardinality(1 .. TrusteeCount) = TrusteeCount
      BY TrusteesAre, FS_Interval
    <3>2. Cardinality(pair) <= TrusteeCount
      BY <3>1, TrusteesAre, FS_Subset
    <3> QED BY <3>2, TrusteesAre, ToolAssumption
  <2> HIDE DEF values
  <2>3. combineAt(values) = Repeated(G, secret)
    BY <1>1, <2>1, <2>2, Order, combineAtIs
  <2> QED BY <1>3, <2>3, Order, PowIsThePower DEF values
<1> DEFINE b == sums[s].c1
           m == Repeated(b, secret)
           v == Repeated(G, cast[s])
<1>5. /\ OfOrder(b) /\ OfOrder(m) /\ sums[s].c2 = TimesMod(m, v) /\ cast[s] \in Nat
      /\ cast[s] <= MaxVotes
    BY <1>2, <1>3, SumFields
<1>6. combineAt(UsableValues(s)) = m
  <2> DEFINE values == UsableValues(s)
             S == Holders(s)
  <2>1. DOMAIN values = S
    BY DEF UsableValues, Holders
  <2>2. S \in SUBSET Opening
    BY DEF Holders, ThresholdIInv, ContributionIInv, ContributionIs
  <2>3. ASSUME NEW t \in S PROVE values[t] = Pow(b, shares[t])
    <3> DEFINE d == CHOOSE e \in contributed : e.trustee = t /\ e.of = s
    <3>1. values[t] = d.value
      BY DEF UsableValues, Holders
    <3>2. \E e \in contributed : e.trustee = t /\ e.of = s
      BY DEF Holders
    <3>3. d \in contributed /\ d.trustee = t /\ d.of = s
      BY <3>2
    <3> HIDE DEF d, values
    <3>4. d.value = Pow(sums[d.of].c1, shares[d.trustee])
      BY <3>3 DEF ThresholdIInv, ContributionIInv, ContributionIs
    <3> QED BY <3>1, <3>3, <3>4
  <2> HIDE DEF values, S, b
  <2>4. Cardinality(S) \in TrusteeThreshold .. TrusteeCount
    BY <1>2 DEF S
  <2>5. combineAt(values) = Repeated(b, secret)
    BY <1>1, <1>5, <2>1, <2>2, <2>3, <2>4, combineAtIs
  <2> QED BY <2>5 DEF values
<1>7. ASSUME NEW count \in 0 .. MaxVotes PROVE CountHolds(s, count) <=> count = cast[s]
  <2>1. count \in Nat /\ count \in Scalars /\ cast[s] \in Scalars
    BY <1>5, TrusteesAre, Order DEF Scalars
  <2>2. OfOrder(v)
    BY <1>5, Order, OrderOfPower
  <2> HIDE DEF m, b
  <2>3. (sums[s].c2 * inverse(combineAt(UsableValues(s)), P)) % P = v
    <3> HIDE DEF v
    <3>1. TimesMod(TimesMod(m, v), ModPow(m, P - 2, P)) = v
      BY <1>5, <2>2, Divided
    <3> QED BY <1>5, <1>6, <3>1 DEF inverse, TimesMod
  <2>4. Pow(G, count) = Repeated(G, count)
    BY <2>1, Order, PowIsThePower
  <2>5. CountHolds(s, count) <=> Repeated(G, count) = v
    BY <2>3, <2>4 DEF CountHolds
  <2> QED BY <2>1, <2>5, DifferentPowers
<1> QED
    BY <1>2, <1>4, <1>7

\* The counting by one or two trustees, as many as the tool reads, out of however many,
\* in any group of the code's form and for any random numbers and votes: what is opened
\* is what was voted, a value that is proved is the power by the trustee's share, and
\* the tool that a reader runs accepts what the server accepts and finds the same count.
THEOREM SharesAlwaysOpenTheSum ==
    ThresholdSpec => [](ThresholdTypeOK /\ SharesOpenTheSum /\ ToolAgrees)
<1>1. ThresholdInit => ThresholdIInv
    BY ThresholdBegins
<1>2. ThresholdIInv /\ [ThresholdNext]_thresholdVars => ThresholdIInv'
    BY ThresholdStepKeeps
<1>3. ThresholdIInv => ThresholdTypeOK /\ SharesOpenTheSum /\ ToolAgrees
    BY ThresholdTypes, SharesOpen, SameAccepted, SameCounted DEF ToolAgrees
<1> QED
    BY <1>1, <1>2, <1>3, PTL DEF ThresholdSpec

----------------------------------------------------------------------------
(***************************************************************************)
(* Lists that name everything of a set once, and the sort of rows.         *)
(***************************************************************************)
Once(s, S) ==
    /\ s \in Seq(S)
    /\ \A i, j \in 1 .. Len(s) : s[i] = s[j] => i = j
    /\ \A e \in S : \E i \in 1 .. Len(s) : s[i] = e

LEMMA OnceIs ==
    ASSUME NEW n \in Nat, NEW S, NEW s \in [1 .. n -> S],
           \A i, j \in 1 .. n : s[i] = s[j] => i = j,
           \A e \in S : \E i \in 1 .. n : s[i] = e
    PROVE  Once(s, S) /\ Len(s) = n
<1>1. s \in Seq(S) /\ Len(s) = n
    OBVIOUS
<1> QED
    BY <1>1 DEF Once

LEMMA NothingOnce == Once(<<>>, {})
    BY DEF Once

LEMMA OnceJoined ==
    ASSUME NEW s, NEW S, Once(s, S), NEW t, NEW T, Once(t, T), S \cap T = {}
    PROVE  Once(s \o t, S \cup T)
<1> DEFINE a == Len(s)
           b == Len(t)
           st == s \o t
<1>1. s \in Seq(S \cup T) /\ t \in Seq(S \cup T) /\ s \in Seq(S) /\ t \in Seq(T)
    BY DEF Once
<1>2. a \in Nat /\ b \in Nat
    BY <1>1
<1>3. /\ \A i \in 1 .. a : s[i] \in S
      /\ \A i \in 1 .. b : t[i] \in T
    BY <1>1
<1>4. /\ st \in Seq(S \cup T) /\ Len(st) = a + b
      /\ \A i \in 1 .. (a + b) : st[i] = IF i <= a THEN s[i] ELSE t[i - a]
    BY <1>1, ConcatProperties
<1>5. ASSUME NEW i \in 1 .. (a + b), NEW j \in 1 .. (a + b), st[i] = st[j] PROVE i = j
  <2>1. CASE i <= a /\ j <= a
    <3>1. i \in 1 .. a /\ j \in 1 .. a /\ s[i] = s[j]
      BY <1>2, <1>4, <1>5, <2>1
    <3> QED BY <3>1 DEF Once
  <2>2. CASE i <= a /\ ~(j <= a)
    <3>1. i \in 1 .. a /\ j - a \in 1 .. b /\ s[i] = t[j - a]
      BY <1>2, <1>4, <1>5, <2>2
    <3> QED BY <1>3, <3>1
  <2>3. CASE ~(i <= a) /\ j <= a
    <3>1. j \in 1 .. a /\ i - a \in 1 .. b /\ t[i - a] = s[j]
      BY <1>2, <1>4, <1>5, <2>3
    <3> QED BY <1>3, <3>1
  <2>4. CASE ~(i <= a) /\ ~(j <= a)
    <3>1. i - a \in 1 .. b /\ j - a \in 1 .. b /\ t[i - a] = t[j - a]
      BY <1>2, <1>4, <1>5, <2>4
    <3>2. i - a = j - a
      BY <3>1 DEF Once
    <3> QED BY <1>2, <3>2
  <2> QED BY <2>1, <2>2, <2>3, <2>4
<1>6. ASSUME NEW e \in S \cup T PROVE \E i \in 1 .. (a + b) : st[i] = e
  <2>1. CASE e \in S
    <3>1. PICK i \in 1 .. a : s[i] = e
      BY <2>1 DEF Once
    <3>2. i \in 1 .. (a + b) /\ i <= a
      BY <1>2
    <3>3. st[i] = e
      BY <1>4, <3>1, <3>2
    <3> QED BY <3>2, <3>3
  <2>2. CASE e \in T
    <3>1. PICK i \in 1 .. b : t[i] = e
      BY <2>2 DEF Once
    <3>2. i + a \in 1 .. (a + b) /\ ~(i + a <= a) /\ (i + a) - a = i
      BY <1>2
    <3>3. st[i + a] = e
      BY <1>4, <3>1, <3>2
    <3> QED BY <3>2, <3>3
  <2> QED BY <2>1, <2>2
<1> HIDE DEF st
<1>7. Once(st, S \cup T)
    BY <1>4, <1>5, <1>6 DEF Once
<1> QED
    BY <1>7 DEF st

\* The lists of a list, joined one by one.
JoinedUp(f, seqs, n) == f = [i \in 1 .. n |-> IF i = 1 THEN seqs[i] ELSE f[i - 1] \o seqs[i]]

LEMMA JoinsThere ==
    ASSUME NEW seqs, NEW n \in Nat
    PROVE  \E f : JoinedUp(f, seqs, n)
<1> DEFINE S == {m \in Nat : \E f : JoinedUp(f, seqs, m)}
<1>1. S \in SUBSET Nat
    OBVIOUS
<1>2. 0 \in S
  <2> DEFINE f == [i \in 1 .. 0 |-> 0]
  <2>1. JoinedUp(f, seqs, 0)
    BY DEF JoinedUp
  <2> HIDE DEF f
  <2> QED BY <2>1
<1>3. ASSUME NEW m \in Nat, m \in S PROVE m + 1 \in S
  <2>1. PICK f : JoinedUp(f, seqs, m)
    BY <1>3
  <2> DEFINE g == [i \in 1 .. (m + 1) |->
                      IF i \in 1 .. m THEN f[i]
                      ELSE IF i = 1 THEN seqs[i] ELSE f[i - 1] \o seqs[i]]
  <2>2. ASSUME NEW i \in 1 .. (m + 1)
        PROVE  g[i] = IF i = 1 THEN seqs[i] ELSE g[i - 1] \o seqs[i]
    <3>1. i # 1 => i - 1 \in 1 .. m /\ i - 1 \in 1 .. (m + 1)
      OBVIOUS
    <3>2. i # 1 => g[i - 1] = f[i - 1]
      BY <3>1
    <3>3. CASE i \in 1 .. m
      <4>1. f[i] = IF i = 1 THEN seqs[i] ELSE f[i - 1] \o seqs[i]
        BY <2>1, <3>3 DEF JoinedUp
      <4> QED BY <3>2, <3>3, <4>1
    <3>4. CASE i \notin 1 .. m
      BY <3>2, <3>4
    <3> QED BY <3>3, <3>4
  <2>3. g = [i \in 1 .. (m + 1) |-> g[i]]
    OBVIOUS
  <2> HIDE DEF g
  <2>4. JoinedUp(g, seqs, m + 1)
    BY <2>2, <2>3 DEF JoinedUp
  <2> QED BY <2>4
<1> HIDE DEF S
<1>4. n \in S
    BY <1>1, <1>2, <1>3, ClimbTo
<1> QED
    BY <1>4 DEF S

LEMMA OnceFlattened ==
    ASSUME NEW n \in Nat, NEW seqs, Len(seqs) = n, n = 0 => seqs = <<>>, NEW U,
           \A i \in 1 .. n : Once(seqs[i], U[i]),
           \A i, j \in 1 .. n : i # j => U[i] \cap U[j] = {}
    PROVE  Once(FlattenSeq(seqs), UNION {U[i] : i \in 1 .. n})
<1>1. CASE n = 0
  <2>1. FlattenSeq(seqs) = <<>>
    BY <1>1 DEF FlattenSeq
  <2>2. UNION {U[i] : i \in 1 .. n} = {}
    BY <1>1
  <2> QED BY <2>1, <2>2, NothingOnce
<1>2. CASE n # 0
  <2> DEFINE f == CHOOSE g : JoinedUp(g, seqs, n)
             Upto(m) == UNION {U[i] : i \in 1 .. m}
             S == {m \in Nat : m # 0 => Once(f[m], Upto(m))}
  <2>1. FlattenSeq(seqs) = f[n]
    BY <1>2 DEF FlattenSeq, JoinedUp
  <2>2. JoinedUp(f, seqs, n)
    BY JoinsThere
  <2> HIDE DEF f
  <2>3. ASSUME NEW i \in 1 .. n
        PROVE  f[i] = IF i = 1 THEN seqs[i] ELSE f[i - 1] \o seqs[i]
    BY <2>2 DEF JoinedUp
  <2>4. S \in SUBSET Nat /\ 0 \in S
    OBVIOUS
  <2>5. ASSUME NEW m \in Nat, m < n, m \in S PROVE m + 1 \in S
    <3>1. m + 1 \in 1 .. n /\ (m + 1) - 1 = m /\ m + 1 \in Nat
      BY <2>5
    <3>2. Once(seqs[m + 1], U[m + 1])
      BY <3>1
    <3>3. Upto(m + 1) = Upto(m) \cup U[m + 1]
      <4>1. \A i : i \in 1 .. (m + 1) <=> i \in 1 .. m \/ i = m + 1
        OBVIOUS
      <4> QED BY <4>1
    <3>4. CASE m = 0
      <4>1. f[m + 1] = seqs[m + 1]
        BY <2>3, <3>1, <3>4
      <4>2. Upto(m) = {}
        BY <3>4
      <4>3. Upto(m + 1) = U[m + 1]
        BY <3>3, <4>2
      <4> QED BY <3>1, <3>2, <4>1, <4>3
    <3>5. CASE m # 0
      <4>1. f[m + 1] = f[m] \o seqs[m + 1]
        <5>1. m + 1 # 1
          BY <3>5
        <5>2. f[m + 1] = IF m + 1 = 1 THEN seqs[m + 1] ELSE f[(m + 1) - 1] \o seqs[m + 1]
          BY <2>3, <3>1
        <5>3. f[(m + 1) - 1] = f[m]
          BY <3>1
        <5> QED BY <5>1, <5>2, <5>3
      <4>2. Once(f[m], Upto(m))
        BY <2>5, <3>5
      <4>3. Upto(m) \cap U[m + 1] = {}
        <5>1. ASSUME NEW i \in 1 .. m PROVE U[i] \cap U[m + 1] = {}
          <6>1. i \in 1 .. n /\ i # m + 1
            BY <3>1
          <6> QED BY <3>1, <6>1
        <5> QED BY <5>1
      <4> HIDE DEF Upto
      <4>4. Once(f[m] \o seqs[m + 1], Upto(m) \cup U[m + 1])
        BY <3>2, <4>2, <4>3, OnceJoined
      <4> QED BY <3>1, <3>3, <4>1, <4>4
    <3> QED BY <3>4, <3>5
  <2> HIDE DEF S
  <2>6. n \in S
    BY <2>4, <2>5, ClimbTo
  <2> QED BY <1>2, <2>1, <2>6 DEF S
<1> QED
    BY <1>1, <1>2

\* The rows of a list in the order of their places: nothing is left to sort.
Rising(list, n) ==
    /\ n \in Nat /\ Len(list) = n /\ list = [i \in 1 .. n |-> list[i]]
    /\ \A i \in 1 .. n : list[i].displayOrder \in Nat
    /\ \A i, j \in 1 .. n : i < j => list[i].displayOrder < list[j].displayOrder

LEMMA SortedRising ==
    ASSUME NEW list, NEW n, Rising(list, n)
    PROVE  Sorted(list) = list
<1>1. n \in Nat /\ DOMAIN list = 1 .. n
    BY DEF Rising
<1>2. ASSUME NEW i \in 1 .. n PROVE Cardinality(Ahead(list, i)) = i - 1
  <2>1. i \in Nat /\ i - 1 \in Nat
    BY <1>1
  <2>2. ASSUME NEW j \in 1 .. n
        PROVE  j \in Ahead(list, i) <=> j < i
    <3>1. j < i => list[j].displayOrder < list[i].displayOrder
      BY DEF Rising
    <3>2. i < j => list[i].displayOrder < list[j].displayOrder
      BY DEF Rising
    <3>3. list[i].displayOrder \in Nat /\ list[j].displayOrder \in Nat
      BY DEF Rising
    <3>4. j < i \/ i = j \/ i < j
      BY <1>1
    <3>5. j \in Nat
      BY <1>1
    <3>6. j \in Ahead(list, i) <=>
            \/ list[j].displayOrder < list[i].displayOrder
            \/ list[j].displayOrder = list[i].displayOrder /\ j < i
      BY <1>1 DEF Ahead
    <3> QED BY <2>1, <3>1, <3>2, <3>3, <3>4, <3>5, <3>6
  <2>3. Ahead(list, i) \subseteq 1 .. n
    BY <1>1 DEF Ahead
  <2>4. Ahead(list, i) = 1 .. (i - 1)
    <3>1. \A j : j \in 1 .. (i - 1) <=> j \in 1 .. n /\ j < i
      BY <1>1, <2>1
    <3> QED BY <2>2, <2>3, <3>1
  <2> QED BY <2>1, <2>4, FS_Interval
<1>3. ASSUME NEW place \in 1 .. n
      PROVE  (CHOOSE i \in 1 .. n : Cardinality(Ahead(list, i)) = place - 1) = place
  <2>1. ASSUME NEW i \in 1 .. n, Cardinality(Ahead(list, i)) = place - 1 PROVE i = place
    BY <1>1, <1>2, <2>1
  <2>2. Cardinality(Ahead(list, place)) = place - 1
    BY <1>2
  <2> QED BY <2>1, <2>2
<1>4. Sorted(list) = [place \in 1 .. n |-> list[place]]
  <2> DEFINE at(place) == CHOOSE i \in 1 .. n : Cardinality(Ahead(list, i)) = place - 1
  <2>1. Sorted(list) = [place \in 1 .. n |-> list[at(place)]]
    BY <1>1 DEF Sorted
  <2>2. \A place \in 1 .. n : at(place) = place
    BY <1>3
  <2> HIDE DEF at
  <2> QED BY <2>1, <2>2
<1> QED
    BY <1>4 DEF Rising

\* More rows stand ahead of the later one.
LEMMA AheadGrows ==
    ASSUME NEW n \in Nat, NEW list, DOMAIN list = 1 .. n,
           \A i \in 1 .. n : list[i].displayOrder \in Nat,
           NEW i \in 1 .. n, NEW j \in 1 .. n, list[i].displayOrder < list[j].displayOrder
    PROVE  Cardinality(Ahead(list, i)) < Cardinality(Ahead(list, j))
<1> DEFINE A == Ahead(list, i)
           B == Ahead(list, j)
<1>1. IsFiniteSet(1 .. n)
    BY FS_Interval
<1>2. A \subseteq 1 .. n /\ B \subseteq 1 .. n
    BY DEF Ahead
<1>3. A \subseteq B
  <2>1. ASSUME NEW k \in A PROVE k \in B
    <3>1. k \in 1 .. n
      BY <1>2
    <3>2. \/ list[k].displayOrder < list[i].displayOrder
          \/ list[k].displayOrder = list[i].displayOrder
      BY <2>1 DEF Ahead
    <3>3. /\ list[k].displayOrder \in Nat /\ list[i].displayOrder \in Nat
          /\ list[j].displayOrder \in Nat
      BY <3>1
    <3>4. list[k].displayOrder < list[j].displayOrder
      BY <3>2, <3>3
    <3> QED BY <3>1, <3>4 DEF Ahead
  <2> QED BY <2>1
<1>4. i \in B /\ i \notin A
  <2>1. list[i].displayOrder \in Nat /\ ~(i < i)
    OBVIOUS
  <2>2. ~(list[i].displayOrder < list[i].displayOrder)
    BY <2>1
  <2> QED BY <2>1, <2>2 DEF Ahead
<1>5. IsFiniteSet(A) /\ IsFiniteSet(B)
    BY <1>1, <1>2, FS_Subset
<1> HIDE DEF A, B
<1>6. Cardinality(A) <= Cardinality(B) /\ (Cardinality(A) = Cardinality(B) => A = B)
    BY <1>3, <1>5, FS_Subset
<1>7. Cardinality(A) \in Nat /\ Cardinality(B) \in Nat /\ A # B
    BY <1>4, <1>5, FS_CardinalityType
<1>8. Cardinality(A) < Cardinality(B)
    BY <1>6, <1>7
<1> QED
    BY <1>8 DEF A, B

\* Rows of which no two have one place.
Placed(R) ==
    /\ IsFiniteSet(R)
    /\ \A r \in R : r.displayOrder \in Nat
    /\ \A r, q \in R : r.displayOrder = q.displayOrder => r = q

LEMMA OrderByIs ==
    ASSUME NEW R, Placed(R)
    PROVE  Rising(OrderBy(R), Cardinality(R)) /\ Once(OrderBy(R), R)
<1> DEFINE n == Cardinality(R)
           x == SetToSeq(R)
           at == [i \in 1 .. n |-> Cardinality(Ahead(x, i)) + 1]
           from == [k \in 1 .. n |-> CHOOSE i \in 1 .. n : Cardinality(Ahead(x, i)) = k - 1]
           o == OrderBy(R)
<1>1. IsFiniteSet(R)
    BY DEF Placed
<1>2. n \in Nat /\ x \in [1 .. n -> R] /\ Len(x) = n
    BY <1>1, SequenceOfSet
<1>3. /\ \A i \in 1 .. n, j \in 1 .. n : x[i] = x[j] => i = j
      /\ {x[k] : k \in 1 .. n} = R
    BY <1>1, SequenceOfSet
<1>4. DOMAIN x = 1 .. n /\ \A i \in 1 .. n : x[i] \in R
    BY <1>2
<1>5. IsFiniteSet(1 .. n) /\ Cardinality(1 .. n) = n
    BY <1>2, FS_Interval
<1> HIDE DEF n, x
<1>6. \A i \in 1 .. n : x[i].displayOrder \in Nat
    BY <1>4 DEF Placed
<1>7. ASSUME NEW i \in 1 .. n, NEW j \in 1 .. n, i # j
      PROVE  \/ x[i].displayOrder < x[j].displayOrder
             \/ x[j].displayOrder < x[i].displayOrder
  <2>1. x[i].displayOrder # x[j].displayOrder
    BY <1>3, <1>4, <1>7 DEF Placed
  <2>2. x[i].displayOrder \in Nat /\ x[j].displayOrder \in Nat
    BY <1>6
  <2> QED BY <2>1, <2>2
<1>8. ASSUME NEW i \in 1 .. n
      PROVE  Cardinality(Ahead(x, i)) \in Nat /\ Cardinality(Ahead(x, i)) < n
  <2> DEFINE A == Ahead(x, i)
  <2>1. A \subseteq 1 .. n /\ i \notin A
    <3>1. x[i].displayOrder \in Nat /\ ~(i < i)
      BY <1>2, <1>6
    <3>2. ~(x[i].displayOrder < x[i].displayOrder)
      BY <3>1
    <3> QED BY <1>4, <3>1, <3>2 DEF Ahead
  <2> HIDE DEF A
  <2>2. IsFiniteSet(A) /\ Cardinality(A) <= n /\ (Cardinality(A) = n => A = 1 .. n)
    BY <1>5, <2>1, FS_Subset
  <2>3. Cardinality(A) \in Nat /\ Cardinality(A) # n
    BY <2>1, <2>2, FS_CardinalityType
  <2>4. Cardinality(A) \in Nat /\ Cardinality(A) < n
    BY <1>2, <2>2, <2>3
  <2> QED BY <2>4 DEF A
<1>9. ASSUME NEW i \in 1 .. n, NEW j \in 1 .. n, x[i].displayOrder < x[j].displayOrder
      PROVE  Cardinality(Ahead(x, i)) < Cardinality(Ahead(x, j))
    BY <1>2, <1>4, <1>6, <1>9, AheadGrows
<1>10. at \in [1 .. n -> 1 .. n]
  <2>1. ASSUME NEW i \in 1 .. n PROVE Cardinality(Ahead(x, i)) + 1 \in 1 .. n
    BY <1>2, <1>8
  <2> QED BY <2>1
<1>11. ASSUME NEW i \in 1 .. n, NEW j \in 1 .. n,
              Cardinality(Ahead(x, i)) = Cardinality(Ahead(x, j))
       PROVE  i = j
  <2>1. Cardinality(Ahead(x, i)) \in Nat /\ Cardinality(Ahead(x, j)) \in Nat
    BY <1>8
  <2>2. ~(Cardinality(Ahead(x, i)) < Cardinality(Ahead(x, j)))
        /\ ~(Cardinality(Ahead(x, j)) < Cardinality(Ahead(x, i)))
    BY <1>11, <2>1
  <2> QED BY <1>7, <1>9, <2>2
<1>12. at \in Injection(1 .. n, 1 .. n)
  <2>1. ASSUME NEW i \in 1 .. n, NEW j \in 1 .. n, at[i] = at[j] PROVE i = j
    <3>1. Cardinality(Ahead(x, i)) + 1 = Cardinality(Ahead(x, j)) + 1
      BY <2>1
    <3>2. Cardinality(Ahead(x, i)) \in Nat /\ Cardinality(Ahead(x, j)) \in Nat
      BY <1>8
    <3>3. Cardinality(Ahead(x, i)) = Cardinality(Ahead(x, j))
      BY <3>1, <3>2
    <3> QED BY <1>11, <3>3
  <2>2. DOMAIN at = 1 .. n
    OBVIOUS
  <2> HIDE DEF at
  <2> QED BY <1>10, <2>1, <2>2 DEF Injection, IsInjective
<1>13. at \in Surjection(1 .. n, 1 .. n)
  <2> HIDE DEF at
  <2> QED BY <1>5, <1>12, FS_Injection, Zenon
<1>14. ASSUME NEW k \in 1 .. n
       PROVE  from[k] \in 1 .. n /\ Cardinality(Ahead(x, from[k])) = k - 1
  <2>1. PICK i \in 1 .. n : at[i] = k
    <3> HIDE DEF at
    <3> QED BY <1>13 DEF Surjection
  <2>2. Cardinality(Ahead(x, i)) + 1 = k /\ Cardinality(Ahead(x, i)) \in Nat
    BY <1>8, <2>1
  <2>3. Cardinality(Ahead(x, i)) = k - 1
    BY <2>2
  <2> QED BY <2>3
<1>15. ASSUME NEW i \in 1 .. n
       PROVE  \E k \in 1 .. n : from[k] = i
  <2>1. at[i] \in 1 .. n /\ Cardinality(Ahead(x, i)) \in Nat
    BY <1>8, <1>10
  <2>2. Cardinality(Ahead(x, i)) = at[i] - 1
    BY <2>1
  <2>3. from[at[i]] \in 1 .. n /\ Cardinality(Ahead(x, from[at[i]])) = at[i] - 1
    BY <1>14, <2>1
  <2>4. from[at[i]] = i
    <3> HIDE DEF at, from
    <3> QED BY <1>11, <2>2, <2>3
  <2> QED BY <2>1, <2>4
<1>16. o = [k \in 1 .. n |-> x[from[k]]]
    BY <1>4 DEF OrderBy, Sorted, x
<1> HIDE DEF at, from, o
<1>17. o \in [1 .. n -> R] /\ Len(o) = n /\ o = [k \in 1 .. n |-> o[k]]
  <2>1. o \in [1 .. n -> R]
    BY <1>4, <1>14, <1>16
  <2> QED BY <1>2, <2>1
<1>18. ASSUME NEW k \in 1 .. n, NEW m \in 1 .. n, k < m
       PROVE  o[k].displayOrder < o[m].displayOrder
  <2>1. /\ from[k] \in 1 .. n /\ from[m] \in 1 .. n
        /\ Cardinality(Ahead(x, from[k])) = k - 1 /\ Cardinality(Ahead(x, from[m])) = m - 1
    BY <1>14
  <2>2. k \in Nat /\ m \in Nat /\ k - 1 < m - 1 /\ ~(m - 1 < k - 1)
    BY <1>2, <1>18
  <2>3. from[k] # from[m]
    BY <2>1, <2>2
  <2>4. ~(x[from[m]].displayOrder < x[from[k]].displayOrder)
    BY <1>9, <2>1, <2>2
  <2>5. x[from[k]].displayOrder < x[from[m]].displayOrder
    BY <1>7, <2>1, <2>3, <2>4
  <2>6. o[k] = x[from[k]] /\ o[m] = x[from[m]]
    BY <1>16
  <2> QED BY <2>5, <2>6
<1>19. \A k \in 1 .. n : o[k] \in R
    BY <1>17
<1>20. Rising(o, n)
    BY <1>2, <1>17, <1>18, <1>19 DEF Rising, Placed
<1>21. ASSUME NEW k \in 1 .. n, NEW m \in 1 .. n, o[k] = o[m] PROVE k = m
  <2>1. k \in Nat /\ m \in Nat /\ (k < m \/ m < k \/ k = m)
    BY <1>2
  <2>2. o[k].displayOrder \in Nat /\ o[k].displayOrder = o[m].displayOrder
    BY <1>19, <1>21 DEF Placed
  <2>3. ~(o[k].displayOrder < o[m].displayOrder) /\ ~(o[m].displayOrder < o[k].displayOrder)
    BY <2>2
  <2> QED BY <1>18, <2>1, <2>3
<1>22. ASSUME NEW r \in R PROVE \E k \in 1 .. n : o[k] = r
  <2>1. PICK i \in 1 .. n : x[i] = r
    BY <1>3
  <2>2. PICK k \in 1 .. n : from[k] = i
    BY <1>15
  <2> QED BY <1>16, <2>1, <2>2
<1>23. Once(o, R)
    BY <1>2, <1>17, <1>21, <1>22, OnceIs
<1> QED
    BY <1>20, <1>23 DEF n, o

----------------------------------------------------------------------------
(***************************************************************************)
(* The options of a ballot.                                                *)
(***************************************************************************)
\* The rows of a ballot: no two have one id, and no two of one list have one place.
OptionIInv ==
    /\ allowsCandidateVote \in BOOLEAN
    /\ Placed(parties) /\ Placed(answers) /\ IsFiniteSet(candidates)
    /\ \A p \in parties : p.id \in PartyIds /\ p.displayOrder \in DisplayOrders
    /\ \A a \in answers : a.id \in AnswerIds
    /\ \A c \in candidates : c.displayOrder \in Nat /\ c.party \in {p.id : p \in parties}
    /\ \A p, q \in parties : p.id = q.id => p = q
    /\ \A a, b \in answers : a.id = b.id => a = b
    /\ \A c, d \in candidates :
          \/ c.id = d.id
          \/ c.party = d.party /\ c.displayOrder = d.displayOrder
          => c = d

LEMMA OptionBegins ==
    ASSUME OptionInit
    PROVE  OptionIInv
<1>1. IsFiniteSet({})
    BY FS_EmptySet
<1>2. parties = {} /\ candidates = {} /\ answers = {} /\ allowsCandidateVote \in BOOLEAN
    BY DEF OptionInit
<1> QED
    BY <1>1, <1>2 DEF OptionIInv, Placed

LEMMA OptionStepKeeps ==
    ASSUME OptionIInv, [OptionNext]_optionVars
    PROVE  OptionIInv'
<1> USE DEF OptionIInv
<1>1. CASE UNCHANGED optionVars
    BY <1>1 DEF optionVars, Placed
<1>2. ASSUME NEW i \in PartyIds, NEW place \in DisplayOrders, AddParty(i, place)
      PROVE  OptionIInv'
  <2> DEFINE new == [id |-> i, displayOrder |-> place]
  <2>1. /\ parties' = parties \cup {new} /\ candidates' = candidates /\ answers' = answers
        /\ allowsCandidateVote' = allowsCandidateVote
        /\ new.id = i /\ new.displayOrder = place
    BY <1>2 DEF AddParty
  <2>2. \A p \in parties : p.id # i /\ p.displayOrder # place
    BY <1>2 DEF AddParty, Taken
  <2>3. place \in Nat
    BY OptionAssumption DEF DisplayOrders
  <2> HIDE DEF new
  <2>4. Placed(parties')
    <3>1. IsFiniteSet(parties \cup {new})
      BY FS_AddElement DEF Placed
    <3> QED BY <2>1, <2>2, <2>3, <3>1 DEF Placed
  <2>5. Placed(answers')
    BY <2>1
  <2>6. /\ \A p \in parties' : p.id \in PartyIds /\ p.displayOrder \in DisplayOrders
        /\ \A p, q \in parties' : p.id = q.id => p = q
    BY <2>1, <2>2
  <2>7. \A c \in candidates' : c.displayOrder \in Nat /\ c.party \in {p.id : p \in parties'}
    BY <2>1
  <2> QED BY <2>1, <2>4, <2>5, <2>6, <2>7
<1>3. ASSUME NEW i \in CandidateIds, NEW p \in parties, NEW place \in DisplayOrders,
             AddCandidate(i, p, place)
      PROVE  OptionIInv'
  <2> DEFINE new == [id |-> i, party |-> p.id, displayOrder |-> place]
  <2>1. /\ candidates' = candidates \cup {new} /\ parties' = parties /\ answers' = answers
        /\ allowsCandidateVote' = allowsCandidateVote
        /\ new.id = i /\ new.displayOrder = place /\ new.party = p.id
    BY <1>3 DEF AddCandidate
  <2>2. \A c \in candidates : c.id # i /\ (c.party = p.id => c.displayOrder # place)
    BY <1>3 DEF AddCandidate, Taken
  <2>3. place \in Nat
    BY OptionAssumption DEF DisplayOrders
  <2> HIDE DEF new
  <2>4. IsFiniteSet(candidates')
    BY <2>1, FS_AddElement
  <2>5. Placed(answers') /\ Placed(parties')
    BY <2>1
  <2>6. \A c \in candidates' : c.displayOrder \in Nat /\ c.party \in {q.id : q \in parties'}
    BY <2>1, <2>3
  <2>7. \A c, d \in candidates' :
          \/ c.id = d.id
          \/ c.party = d.party /\ c.displayOrder = d.displayOrder
          => c = d
    BY <2>1, <2>2
  <2> QED BY <2>1, <2>4, <2>5, <2>6, <2>7
<1>4. ASSUME NEW i \in AnswerIds, NEW place \in DisplayOrders, AddAnswer(i, place)
      PROVE  OptionIInv'
  <2> DEFINE new == [id |-> i, displayOrder |-> place]
  <2>1. /\ answers' = answers \cup {new} /\ candidates' = candidates /\ parties' = parties
        /\ allowsCandidateVote' = allowsCandidateVote
        /\ new.id = i /\ new.displayOrder = place
    BY <1>4 DEF AddAnswer
  <2>2. \A a \in answers : a.id # i /\ a.displayOrder # place
    BY <1>4 DEF AddAnswer, Taken
  <2>3. place \in Nat
    BY OptionAssumption DEF DisplayOrders
  <2> HIDE DEF new
  <2>4. Placed(answers')
    <3>1. IsFiniteSet(answers \cup {new})
      BY FS_AddElement DEF Placed
    <3> QED BY <2>1, <2>2, <2>3, <3>1 DEF Placed
  <2>5. Placed(parties')
    BY <2>1
  <2>6. /\ \A a \in answers' : a.id \in AnswerIds
        /\ \A a, b \in answers' : a.id = b.id => a = b
    BY <2>1, <2>2
  <2> QED BY <2>1, <2>4, <2>5, <2>6
<1> QED
    BY <1>1, <1>2, <1>3, <1>4 DEF OptionNext

\* The candidates of a party, the parties and the answers, as they are read.
RowsOf(p) == {c \in candidates : c.party = p.id}

LEMMA ReadInOrder ==
    ASSUME OptionIInv
    PROVE  /\ Rising(OrderBy(parties), Cardinality(parties)) /\ Once(OrderBy(parties), parties)
           /\ Rising(OrderBy(answers), Cardinality(answers)) /\ Once(OrderBy(answers), answers)
           /\ \A p : /\ Rising(CandidatesOf(p), Cardinality(RowsOf(p)))
                     /\ Once(CandidatesOf(p), RowsOf(p))
<1>1. Placed(parties) /\ Placed(answers)
    BY DEF OptionIInv
<1>2. ASSUME NEW p
      PROVE  /\ Rising(CandidatesOf(p), Cardinality(RowsOf(p)))
             /\ Once(CandidatesOf(p), RowsOf(p))
  <2>1. Placed(RowsOf(p))
    <3>1. RowsOf(p) \subseteq candidates
      BY DEF RowsOf
    <3>2. IsFiniteSet(RowsOf(p))
      BY <3>1, FS_Subset DEF OptionIInv
    <3> QED BY <3>1, <3>2 DEF Placed, OptionIInv, RowsOf
  <2>2. Rising(OrderBy(RowsOf(p)), Cardinality(RowsOf(p))) /\ Once(OrderBy(RowsOf(p)), RowsOf(p))
    BY <2>1, OrderByIs
  <2> QED BY <2>2 DEF CandidatesOf, RowsOf
<1> QED
    BY <1>1, <1>2, OrderByIs

\* The list that the rows of the lists make, none of them sorted again.
PartyOf(p) == [kind |-> "PARTY", party |-> p.id]
NamedOf(p, c) == [kind |-> "CANDIDATE", party |-> p.id, candidate |-> c.id]
AnswerOf(a) == [kind |-> "OPTION", option |-> a.id]

PartyList(ps, n) == [i \in 1 .. n |-> PartyOf(ps[i])]
NamedList(ps, cs, n) == [i \in 1 .. n |-> [j \in 1 .. Len(cs[i]) |-> NamedOf(ps[i], cs[i][j])]]
AnswerList(as, m) == [i \in 1 .. m |-> AnswerOf(as[i])]

ListOf(allows, ps, cs, n, as, m) ==
    <<[kind |-> "BLANK"]>> \o PartyList(ps, n)
        \o (IF allows THEN FlattenSeq(NamedList(ps, cs, n)) ELSE <<>>) \o AnswerList(as, m)

LEMMA CanonicalIs ==
    ASSUME NEW allows, NEW list, NEW n, Rising(list, n), NEW opts, NEW m, Rising(opts, m),
           NEW cs, DOMAIN cs = 1 .. n,
           \A i \in 1 .. n : cs[i] = list[i].candidates /\ \E k : Rising(cs[i], k)
    PROVE  canonicalOptions([allowsCandidateVote |-> allows, parties |-> list, options |-> opts])
              = ListOf(allows, list, cs, n, opts, m)
<1> DEFINE shape == [allowsCandidateVote |-> allows, parties |-> list, options |-> opts]
           of(p) == [j \in DOMAIN Sorted(p.candidates) |->
                        [kind |-> "CANDIDATE", party |-> p.id, candidate |-> Sorted(p.candidates)[j].id]]
<1>1. /\ shape.allowsCandidateVote = allows /\ shape.parties = list /\ shape.options = opts
    OBVIOUS
<1> HIDE DEF shape
<1>2. Sorted(list) = list /\ Sorted(opts) = opts
    BY SortedRising
<1>3. DOMAIN list = 1 .. n /\ DOMAIN opts = 1 .. m
    BY DEF Rising
<1>4. canonicalOptions(shape)
        = <<[kind |-> "BLANK"]>>
          \o [i \in 1 .. n |-> [kind |-> "PARTY", party |-> list[i].id]]
          \o (IF allows THEN FlattenSeq([i \in 1 .. n |-> of(list[i])]) ELSE <<>>)
          \o [i \in 1 .. m |-> [kind |-> "OPTION", option |-> opts[i].id]]
    BY <1>1, <1>2, <1>3 DEF canonicalOptions, Each, Blank, Party, Candidate, Answer
<1>5. ASSUME NEW i \in 1 .. n
      PROVE  of(list[i]) = [j \in 1 .. Len(cs[i]) |-> NamedOf(list[i], cs[i][j])]
  <2>1. PICK k : Rising(cs[i], k)
    OBVIOUS
  <2>2. Sorted(list[i].candidates) = cs[i] /\ DOMAIN cs[i] = 1 .. Len(cs[i])
    BY <2>1, SortedRising DEF Rising
  <2> QED BY <2>2 DEF NamedOf
<1>6. [i \in 1 .. n |-> of(list[i])] = NamedList(list, cs, n)
  <2> HIDE DEF of
  <2> QED BY <1>5 DEF NamedList
<1>7. /\ [i \in 1 .. n |-> [kind |-> "PARTY", party |-> list[i].id]] = PartyList(list, n)
      /\ [i \in 1 .. m |-> [kind |-> "OPTION", option |-> opts[i].id]] = AnswerList(opts, m)
    BY DEF PartyList, PartyOf, AnswerList, AnswerOf
<1> HIDE DEF of
<1> QED
    BY <1>4, <1>6, <1>7 DEF ListOf, shape

\* Rows that are numbered anew have their ids and their order.
LEMMA NumberedRising ==
    ASSUME NEW list, NEW n, Rising(list, n)
    PROVE  /\ Rising(Numbered(list), n) /\ Len(Numbered(list)) = Len(list)
           /\ \A i \in 1 .. n : Numbered(list)[i].id = list[i].id
<1>1. n \in Nat /\ DOMAIN list = 1 .. n /\ Len(list) = n
    BY DEF Rising
<1>2. Numbered(list) = [i \in 1 .. n |-> [id |-> list[i].id, displayOrder |-> i]]
    BY <1>1 DEF Numbered
<1> DEFINE s == Numbered(list)
<1>3. /\ s = [i \in 1 .. n |-> s[i]] /\ Len(s) = n
      /\ \A i \in 1 .. n : s[i].displayOrder = i /\ s[i].id = list[i].id
    BY <1>1, <1>2
<1> HIDE DEF s
<1>4. Rising(s, n)
  <2>1. \A i \in 1 .. n : i \in Nat
    BY <1>1
  <2> QED BY <1>1, <1>3, <2>1 DEF Rising
<1> QED
    BY <1>1, <1>3, <1>4 DEF s

\* The list of a state.
IsQuestion == kind = "FRAGA"
PartiesHere == IF IsQuestion THEN {} ELSE parties
AnswersHere == IF IsQuestion THEN answers ELSE {}
ListHere ==
    LET ps == OrderBy(PartiesHere)
    IN ListOf(~IsQuestion /\ allowsCandidateVote, ps,
              [i \in 1 .. Cardinality(PartiesHere) |-> CandidatesOf(ps[i])],
              Cardinality(PartiesHere), OrderBy(AnswersHere), Cardinality(AnswersHere))

LEMMA NoRows == OrderBy({}) = <<>> /\ Cardinality({}) = 0 /\ Rising(<<>>, 0)
<1>1. Placed({})
    BY FS_EmptySet DEF Placed
<1>2. Cardinality({}) = 0
    BY FS_EmptySet
<1>3. Rising(OrderBy({}), 0)
    BY <1>1, <1>2, OrderByIs
<1>4. OrderBy({}) = <<>>
    BY <1>3 DEF Rising
<1> QED
    BY <1>2, <1>3, <1>4

LEMMA HereInOrder ==
    ASSUME OptionIInv
    PROVE  /\ Rising(OrderBy(PartiesHere), Cardinality(PartiesHere))
           /\ Once(OrderBy(PartiesHere), PartiesHere)
           /\ Rising(OrderBy(AnswersHere), Cardinality(AnswersHere))
           /\ Once(OrderBy(AnswersHere), AnswersHere)
<1>1. Placed({})
    BY FS_EmptySet DEF Placed
<1>2. Placed(PartiesHere) /\ Placed(AnswersHere)
    BY <1>1 DEF OptionIInv, PartiesHere, AnswersHere
<1> QED
    BY <1>2, OrderByIs

LEMMA ThePage ==
    ASSUME OptionIInv
    PROVE  OptionsOfThePage = ListHere
<1> DEFINE ps == OrderBy(PartiesHere)
           n == Cardinality(PartiesHere)
           as == OrderBy(AnswersHere)
           m == Cardinality(AnswersHere)
           allows == ~IsQuestion /\ allowsCandidateVote
           list == [i \in 1 .. n |-> [id |-> ps[i].id, displayOrder |-> ps[i].displayOrder,
                                      candidates |-> CandidatesOf(ps[i])]]
           cs == [i \in 1 .. n |-> CandidatesOf(ps[i])]
<1>1. Rising(ps, n) /\ Rising(as, m)
    BY HereInOrder
<1>2. n \in Nat /\ DOMAIN ps = 1 .. n
    BY <1>1 DEF Rising
<1>3. OptionsOfThePage
        = canonicalOptions([allowsCandidateVote |-> allows, parties |-> list, options |-> as])
  <2>1. CASE IsQuestion
    <3>1. PartiesHere = {} /\ AnswersHere = answers /\ ~allows
      BY <2>1 DEF PartiesHere, AnswersHere
    <3>2. n = 0
      BY <3>1, NoRows
    <3>3. list = <<>>
      BY <3>2
    <3>4. allows = FALSE
      BY <3>1
    <3> HIDE DEF list, allows
    <3>5. OptionsOfThePage
            = canonicalOptions([allowsCandidateVote |-> FALSE, parties |-> <<>>,
                                options |-> OrderBy(answers)])
      BY <2>1 DEF IsQuestion, OptionsOfThePage, getBallotChoices
    <3> QED BY <3>1, <3>3, <3>4, <3>5
  <2>2. CASE ~IsQuestion
    <3>1. PartiesHere = parties /\ AnswersHere = {}
      BY <2>2 DEF PartiesHere, AnswersHere
    <3>2. as = <<>>
      BY <3>1, NoRows
    <3>3. allows = allowsCandidateVote
      BY <2>2 DEF OptionIInv
    <3>4. PartiesWithCandidates = list
      BY <1>2, <3>1 DEF PartiesWithCandidates, Each
    <3> HIDE DEF list, allows, as
    <3>5. OptionsOfThePage
            = canonicalOptions([allowsCandidateVote |-> allowsCandidateVote,
                                parties |-> PartiesWithCandidates, options |-> <<>>])
      BY <2>2 DEF IsQuestion, OptionsOfThePage, getBallotChoices
    <3> QED BY <3>2, <3>3, <3>4, <3>5
  <2> QED BY <2>1, <2>2
<1>4. Rising(list, n)
  <2>1. n \in Nat /\ Len(list) = n
    BY <1>2
  <2> QED BY <1>1, <2>1 DEF Rising
<1>5. ASSUME NEW i \in 1 .. n
      PROVE  cs[i] = list[i].candidates /\ \E k : Rising(cs[i], k)
  <2>1. cs[i] = CandidatesOf(ps[i]) /\ list[i].candidates = CandidatesOf(ps[i])
    OBVIOUS
  <2>2. Rising(CandidatesOf(ps[i]), Cardinality(RowsOf(ps[i])))
    BY ReadInOrder
  <2> QED BY <2>1, <2>2
<1>6. DOMAIN cs = 1 .. n
    OBVIOUS
<1>7. \A i \in 1 .. n : list[i].id = ps[i].id
    OBVIOUS
<1> HIDE DEF list, cs, n, m, ps, as, allows
<1>8. canonicalOptions([allowsCandidateVote |-> allows, parties |-> list, options |-> as])
        = ListOf(allows, list, cs, n, as, m)
    BY <1>1, <1>4, <1>5, <1>6, CanonicalIs
<1>9. ListOf(allows, list, cs, n, as, m) = ListOf(allows, ps, cs, n, as, m)
  <2>1. PartyList(list, n) = PartyList(ps, n)
    BY <1>7 DEF PartyList, PartyOf
  <2>2. NamedList(list, cs, n) = NamedList(ps, cs, n)
    BY <1>7 DEF NamedList, NamedOf
  <2> QED BY <2>1, <2>2 DEF ListOf
<1>10. ListHere = ListOf(allows, ps, cs, n, as, m)
    BY DEF ListHere, allows, ps, cs, n, as, m
<1> QED
    BY <1>3, <1>8, <1>9, <1>10

LEMMA TheServer ==
    ASSUME OptionIInv
    PROVE  getEncryptedBallotShape = ListHere
<1> DEFINE ps == OrderBy(PartiesHere)
           n == Cardinality(PartiesHere)
           as == OrderBy(AnswersHere)
           m == Cardinality(AnswersHere)
           allows == ~IsQuestion /\ allowsCandidateVote
           list == [i \in 1 .. n |-> [id |-> ps[i].id, displayOrder |-> i,
                                      candidates |-> Numbered(CandidatesOf(ps[i]))]]
           cs == [i \in 1 .. n |-> CandidatesOf(ps[i])]
           ds == [i \in 1 .. n |-> Numbered(CandidatesOf(ps[i]))]
<1>1. Rising(ps, n) /\ Rising(as, m)
    BY HereInOrder
<1>2. n \in Nat /\ DOMAIN ps = 1 .. n
    BY <1>1 DEF Rising
<1>3. getEncryptedBallotShape
        = canonicalOptions([allowsCandidateVote |-> allows, parties |-> list,
                            options |-> Numbered(as)])
  <2>1. CASE IsQuestion
    <3>1. PartiesHere = {} /\ AnswersHere = answers
      BY <2>1 DEF PartiesHere, AnswersHere
    <3>2. n = 0
      BY <3>1, NoRows
    <3>3. list = <<>>
      BY <3>2
    <3>4. DOMAIN <<>> = 1 .. 0
      OBVIOUS
    <3>5. getEncryptedBallotShape
            = canonicalOptions([allowsCandidateVote |-> allows, parties |-> <<>>,
                                options |-> Numbered(OrderBy(answers))])
      BY <2>1, <3>4 DEF IsQuestion, getEncryptedBallotShape
    <3> HIDE DEF list, allows
    <3> QED BY <3>1, <3>3, <3>5
  <2>2. CASE ~IsQuestion
    <3>1. PartiesHere = parties /\ AnswersHere = {}
      BY <2>2 DEF PartiesHere, AnswersHere
    <3>2. as = <<>>
      BY <3>1, NoRows
    <3>3. Numbered(as) = <<>>
      BY <3>2 DEF Numbered
    <3>4. getEncryptedBallotShape
            = canonicalOptions([allowsCandidateVote |-> allows, parties |-> list, options |-> <<>>])
      BY <1>2, <2>2, <3>1 DEF IsQuestion, getEncryptedBallotShape
    <3> HIDE DEF list, allows, as
    <3> QED BY <3>3, <3>4
  <2> QED BY <2>1, <2>2
<1>4. Rising(list, n)
  <2>1. Len(list) = n
    BY <1>2
  <2>2. list = [i \in 1 .. n |-> list[i]] /\ \A i \in 1 .. n : list[i].displayOrder = i
    OBVIOUS
  <2> HIDE DEF list
  <2> QED BY <1>2, <2>1, <2>2 DEF Rising
<1>5. ASSUME NEW i \in 1 .. n
      PROVE  /\ ds[i] = list[i].candidates /\ \E k : Rising(ds[i], k)
             /\ Len(cs[i]) = Len(ds[i])
             /\ \A j \in 1 .. Len(cs[i]) : cs[i][j].id = ds[i][j].id
  <2> DEFINE c == CandidatesOf(ps[i])
             k == Cardinality(RowsOf(ps[i]))
  <2>1. cs[i] = c /\ ds[i] = Numbered(c) /\ list[i].candidates = Numbered(c)
    OBVIOUS
  <2>2. Rising(c, k)
    BY ReadInOrder
  <2> HIDE DEF c, k, cs, ds, list
  <2>3. Rising(Numbered(c), k) /\ Len(Numbered(c)) = Len(c)
        /\ \A j \in 1 .. k : Numbered(c)[j].id = c[j].id
    BY <2>2, NumberedRising
  <2>4. Len(c) = k
    BY <2>2 DEF Rising
  <2> QED BY <2>1, <2>3, <2>4
<1>6. DOMAIN ds = 1 .. n
    OBVIOUS
<1>7. \A i \in 1 .. n : list[i].id = ps[i].id
    OBVIOUS
<1>8. Rising(Numbered(as), m) /\ \A i \in 1 .. m : Numbered(as)[i].id = as[i].id
    BY <1>1, NumberedRising
<1> HIDE DEF list, cs, ds, n, m, ps, as, allows
<1>9. canonicalOptions([allowsCandidateVote |-> allows, parties |-> list, options |-> Numbered(as)])
        = ListOf(allows, list, ds, n, Numbered(as), m)
    BY <1>4, <1>5, <1>6, <1>8, CanonicalIs
<1>10. ListOf(allows, ps, cs, n, as, m) = ListOf(allows, list, ds, n, Numbered(as), m)
  <2>1. PartyList(ps, n) = PartyList(list, n)
    BY <1>7 DEF PartyList, PartyOf
  <2>2. NamedList(ps, cs, n) = NamedList(list, ds, n)
    BY <1>5, <1>7 DEF NamedList, NamedOf
  <2>3. AnswerList(as, m) = AnswerList(Numbered(as), m)
    BY <1>8 DEF AnswerList, AnswerOf
  <2> QED BY <2>1, <2>2, <2>3 DEF ListOf
<1>11. ListHere = ListOf(allows, ps, cs, n, as, m)
    BY DEF ListHere, allows, ps, cs, n, as, m
<1> QED
    BY <1>3, <1>9, <1>10, <1>11

\* Everything is named once, if what names it tells it from the rest.
LEMMA OnceNamed ==
    ASSUME NEW s, NEW S, Once(s, S), NEW n, Len(s) = n, NEW f,
           \A a, b \in S : f[a] = f[b] => a = b
    PROVE  Once([i \in 1 .. n |-> f[s[i]]], {f[e] : e \in S})
<1> DEFINE T == {f[e] : e \in S}
           t == [i \in 1 .. n |-> f[s[i]]]
<1>1. n \in Nat /\ \A i \in 1 .. n : s[i] \in S
    BY DEF Once
<1>2. t \in [1 .. n -> T]
    BY <1>1
<1>3. ASSUME NEW i \in 1 .. n, NEW j \in 1 .. n, t[i] = t[j] PROVE i = j
  <2>1. f[s[i]] = f[s[j]]
    BY <1>3
  <2>2. s[i] = s[j]
    BY <1>1, <2>1
  <2> QED BY <2>2 DEF Once
<1>4. ASSUME NEW e \in T PROVE \E i \in 1 .. n : t[i] = e
  <2>1. PICK a \in S : f[a] = e
    OBVIOUS
  <2>2. PICK i \in 1 .. n : s[i] = a
    BY DEF Once
  <2> QED BY <2>1, <2>2
<1> HIDE DEF t, T
<1>5. Once(t, T)
    BY <1>1, <1>2, <1>3, <1>4, OnceIs
<1> QED
    BY <1>5 DEF t, T

\* What is on the ballot of a state.
NamedHere(p) == {NamedOf(p, c) : c \in RowsOf(p)}
OptionsHere ==
    {[kind |-> "BLANK"]} \cup {PartyOf(p) : p \in PartiesHere}
        \cup (IF ~IsQuestion /\ allowsCandidateVote
              THEN UNION {NamedHere(p) : p \in PartiesHere} ELSE {})
        \cup {AnswerOf(a) : a \in AnswersHere}

LEMMA PartiesOnce ==
    ASSUME OptionIInv
    PROVE  Once(PartyList(OrderBy(PartiesHere), Cardinality(PartiesHere)),
                {PartyOf(p) : p \in PartiesHere})
<1> DEFINE ps == OrderBy(PartiesHere)
           n == Cardinality(PartiesHere)
           f == [p \in PartiesHere |-> PartyOf(p)]
<1>1. Once(ps, PartiesHere) /\ Len(ps) = n
    BY HereInOrder DEF Rising
<1>2. \A p \in PartiesHere : f[p] = PartyOf(p)
    OBVIOUS
<1>3. \A p, q \in PartiesHere : PartyOf(p) = PartyOf(q) => p = q
    BY DEF OptionIInv, PartyOf, PartiesHere
<1>4. \A i \in 1 .. n : ps[i] \in PartiesHere
    BY <1>1 DEF Once
<1> HIDE DEF f, ps, n
<1>5. Once([i \in 1 .. n |-> f[ps[i]]], {f[p] : p \in PartiesHere})
    BY <1>1, <1>2, <1>3, OnceNamed
<1>6. [i \in 1 .. n |-> f[ps[i]]] = PartyList(ps, n)
    BY <1>2, <1>4 DEF PartyList
<1>7. {f[p] : p \in PartiesHere} = {PartyOf(p) : p \in PartiesHere}
    BY <1>2
<1> QED
    BY <1>5, <1>6, <1>7 DEF ps, n

LEMMA AnswersOnce ==
    ASSUME OptionIInv
    PROVE  Once(AnswerList(OrderBy(AnswersHere), Cardinality(AnswersHere)),
                {AnswerOf(a) : a \in AnswersHere})
<1> DEFINE as == OrderBy(AnswersHere)
           n == Cardinality(AnswersHere)
           f == [a \in AnswersHere |-> AnswerOf(a)]
<1>1. Once(as, AnswersHere) /\ Len(as) = n
    BY HereInOrder DEF Rising
<1>2. \A a \in AnswersHere : f[a] = AnswerOf(a)
    OBVIOUS
<1>3. \A a, b \in AnswersHere : AnswerOf(a) = AnswerOf(b) => a = b
    BY DEF OptionIInv, AnswerOf, AnswersHere
<1>4. \A i \in 1 .. n : as[i] \in AnswersHere
    BY <1>1 DEF Once
<1> HIDE DEF f, as, n
<1>5. Once([i \in 1 .. n |-> f[as[i]]], {f[a] : a \in AnswersHere})
    BY <1>1, <1>2, <1>3, OnceNamed
<1>6. [i \in 1 .. n |-> f[as[i]]] = AnswerList(as, n)
    BY <1>2, <1>4 DEF AnswerList
<1>7. {f[a] : a \in AnswersHere} = {AnswerOf(a) : a \in AnswersHere}
    BY <1>2
<1> QED
    BY <1>5, <1>6, <1>7 DEF as, n

LEMMA CandidatesOnce ==
    ASSUME OptionIInv, NEW p
    PROVE  Once([j \in 1 .. Len(CandidatesOf(p)) |-> NamedOf(p, CandidatesOf(p)[j])], NamedHere(p))
<1> DEFINE cs == CandidatesOf(p)
           n == Len(cs)
           f == [c \in RowsOf(p) |-> NamedOf(p, c)]
<1>1. Once(cs, RowsOf(p))
    BY ReadInOrder
<1>2. \A c \in RowsOf(p) : f[c] = NamedOf(p, c)
    OBVIOUS
<1>3. \A c, d \in RowsOf(p) : NamedOf(p, c) = NamedOf(p, d) => c = d
    BY DEF OptionIInv, NamedOf, RowsOf
<1>4. \A i \in 1 .. n : cs[i] \in RowsOf(p)
    BY <1>1 DEF Once
<1> HIDE DEF f, cs
<1>5. Once([i \in 1 .. n |-> f[cs[i]]], {f[c] : c \in RowsOf(p)})
    BY <1>1, <1>2, <1>3, OnceNamed
<1>6. [i \in 1 .. n |-> f[cs[i]]] = [j \in 1 .. n |-> NamedOf(p, cs[j])]
    BY <1>2, <1>4
<1>7. {f[c] : c \in RowsOf(p)} = NamedHere(p)
    BY <1>2 DEF NamedHere
<1> QED
    BY <1>5, <1>6, <1>7 DEF cs

LEMMA ListOnce ==
    ASSUME OptionIInv
    PROVE  Once(ListHere, OptionsHere)
<1> DEFINE ps == OrderBy(PartiesHere)
           n == Cardinality(PartiesHere)
           as == OrderBy(AnswersHere)
           m == Cardinality(AnswersHere)
           allows == ~IsQuestion /\ allowsCandidateVote
           cs == [i \in 1 .. n |-> CandidatesOf(ps[i])]
           U == [i \in 1 .. n |-> NamedHere(ps[i])]
           seqs == NamedList(ps, cs, n)
           blank == [kind |-> "BLANK"]
           named == IF allows THEN FlattenSeq(seqs) ELSE <<>>
           Named == IF allows THEN UNION {NamedHere(p) : p \in PartiesHere} ELSE {}
           Parties1 == {PartyOf(p) : p \in PartiesHere}
           Answers1 == {AnswerOf(a) : a \in AnswersHere}
<1>1. n \in Nat /\ Len(ps) = n /\ Once(ps, PartiesHere)
    BY HereInOrder DEF Rising
<1>2. Once(<<blank>>, {blank})
  <2> DEFINE s == <<blank>>
             B == {blank}
  <2>1. s \in [1 .. 1 -> B] /\ 1 \in Nat
    OBVIOUS
  <2>2. \A i, j \in 1 .. 1 : s[i] = s[j] => i = j
    OBVIOUS
  <2>3. \A e \in B : \E i \in 1 .. 1 : s[i] = e
    <3>1. 1 \in 1 .. 1 /\ s[1] = blank
      OBVIOUS
    <3> HIDE DEF s
    <3> QED BY <3>1
  <2> HIDE DEF s, B
  <2>4. Once(s, B)
    BY <2>1, <2>2, <2>3, OnceIs
  <2> QED BY <2>4 DEF s, B
<1>3. Once(PartyList(ps, n), Parties1) /\ Once(AnswerList(as, m), Answers1)
    BY PartiesOnce, AnswersOnce
<1>4. Once(FlattenSeq(seqs), UNION {U[i] : i \in 1 .. n})
  <2>1. ASSUME NEW i \in 1 .. n PROVE Once(seqs[i], U[i])
    <3>1. seqs[i] = [j \in 1 .. Len(cs[i]) |-> NamedOf(ps[i], cs[i][j])]
      BY DEF NamedList
    <3>2. cs[i] = CandidatesOf(ps[i]) /\ U[i] = NamedHere(ps[i])
      OBVIOUS
    <3> HIDE DEF cs, U, seqs, ps, n
    <3> QED BY <3>1, <3>2, CandidatesOnce
  <2>2. ASSUME NEW i \in 1 .. n, NEW j \in 1 .. n, i # j PROVE U[i] \cap U[j] = {}
    <3>1. ps[i] \in PartiesHere /\ ps[j] \in PartiesHere /\ ps[i] # ps[j]
      BY <1>1, <2>2 DEF Once
    <3>2. ps[i].id # ps[j].id
      BY <3>1 DEF OptionIInv, PartiesHere
    <3>3. U[i] = NamedHere(ps[i]) /\ U[j] = NamedHere(ps[j])
      OBVIOUS
    <3> HIDE DEF U, ps, n
    <3> QED BY <3>2, <3>3 DEF NamedHere, NamedOf
  <2>3. Len(seqs) = n /\ (n = 0 => seqs = <<>>)
    BY <1>1 DEF NamedList
  <2> HIDE DEF seqs, U, n
  <2> QED BY <1>1, <2>1, <2>2, <2>3, OnceFlattened
<1>5. UNION {U[i] : i \in 1 .. n} = UNION {NamedHere(p) : p \in PartiesHere}
  <2>1. /\ \A i \in 1 .. n : ps[i] \in PartiesHere /\ U[i] = NamedHere(ps[i])
        /\ \A p \in PartiesHere : \E i \in 1 .. n : ps[i] = p
    BY <1>1 DEF Once
  <2> HIDE DEF U, ps, n
  <2>2. {U[i] : i \in 1 .. n} = {NamedHere(p) : p \in PartiesHere}
    BY <2>1
  <2> QED BY <2>2
<1>6. Once(named, Named)
    BY <1>4, <1>5, NothingOnce
<1>7. /\ {blank} \cap Parties1 = {}
      /\ ({blank} \cup Parties1) \cap Named = {}
      /\ ({blank} \cup Parties1 \cup Named) \cap Answers1 = {}
  <2>1. \A e \in Parties1 : e.kind = "PARTY"
    BY DEF PartyOf
  <2>2. \A e \in Named : e.kind = "CANDIDATE"
    BY DEF NamedHere, NamedOf
  <2>3. \A e \in Answers1 : e.kind = "OPTION"
    BY DEF AnswerOf
  <2>4. blank.kind = "BLANK"
    OBVIOUS
  <2> HIDE DEF Parties1, Named, Answers1, blank
  <2> QED BY <2>1, <2>2, <2>3, <2>4
<1>8. ListHere = <<blank>> \o PartyList(ps, n) \o named \o AnswerList(as, m)
    BY DEF ListHere, ListOf
<1>9. OptionsHere = {blank} \cup Parties1 \cup Named \cup Answers1
    BY DEF OptionsHere
<1> DEFINE l1 == PartyList(ps, n)
           l3 == AnswerList(as, m)
           l0 == <<blank>>
           B == {blank}
<1> HIDE DEF named, Named, Parties1, Answers1, blank, l1, l3, l0, B
<1>10. Once(l0 \o l1, B \cup Parties1)
    BY <1>2, <1>3, <1>7, OnceJoined DEF l0, l1, B
<1>11. Once(l0 \o l1 \o named, B \cup Parties1 \cup Named)
    BY <1>6, <1>7, <1>10, OnceJoined DEF B
<1>12. Once(l0 \o l1 \o named \o l3, B \cup Parties1 \cup Named \cup Answers1)
    BY <1>3, <1>7, <1>11, OnceJoined DEF B, l3
<1> QED
    BY <1>8, <1>9, <1>12 DEF l0, l1, l3, B

\* What may be chosen is on the list.
LEMMA ChoicesAreHere ==
    ASSUME OptionIInv
    PROVE  MayChoose \subseteq OptionsHere
<1>1. CASE IsQuestion
  <2>1. MayChoose = {Blank} \cup {Answer(a) : a \in ToSet(OrderBy(answers))}
    BY <1>1 DEF MayChoose, getBallotChoices, IsQuestion
  <2>2. ToSet(OrderBy(answers)) \subseteq answers
    BY ReadInOrder DEF Once, ToSet
  <2>3. AnswersHere = answers
    BY <1>1 DEF AnswersHere
  <2> QED BY <2>1, <2>2, <2>3 DEF OptionsHere, Blank, Answer, AnswerOf
<1>2. CASE ~IsQuestion
  <2> DEFINE ps == OrderBy(parties)
             n == Cardinality(parties)
             list == [i \in 1 .. n |-> [id |-> ps[i].id, displayOrder |-> ps[i].displayOrder,
                                        candidates |-> CandidatesOf(ps[i])]]
             Read == ToSet(list)
  <2>1. DOMAIN ps = 1 .. n /\ \A i \in 1 .. n : ps[i] \in parties
    BY ReadInOrder DEF Rising, Once
  <2>2. PartiesWithCandidates = list
    BY <2>1 DEF PartiesWithCandidates, Each
  <2>3. PartiesHere = parties
    BY <1>2 DEF PartiesHere
  <2>4. MayChoose =
           {Party(p) : p \in ToSet(PartiesWithCandidates)} \cup
           UNION {{Candidate(p, c) : c \in ToSet(p.candidates)} :
                      p \in {q \in ToSet(PartiesWithCandidates) : allowsCandidateVote}}
    BY <1>2 DEF MayChoose, getBallotChoices, IsQuestion
  <2>5. ASSUME NEW p \in Read
        PROVE  \E r \in parties : p.id = r.id /\ p.candidates = CandidatesOf(r)
    <3>1. PICK i \in 1 .. n : p = list[i]
      BY DEF ToSet
    <3>2. p.id = ps[i].id /\ p.candidates = CandidatesOf(ps[i])
      BY <3>1
    <3> QED BY <2>1, <3>2
  <2> HIDE DEF Read, list, ps, n
  <2>6. ASSUME NEW p \in Read
        PROVE  Party(p) \in OptionsHere
    <3>1. PICK r \in parties : p.id = r.id
      BY <2>5
    <3>2. Party(p) = PartyOf(r)
      BY <3>1 DEF Party, PartyOf
    <3> QED BY <2>3, <3>1, <3>2 DEF OptionsHere
  <2>7. ASSUME NEW p \in Read, allowsCandidateVote, NEW c \in ToSet(p.candidates)
        PROVE  Candidate(p, c) \in OptionsHere
    <3>1. PICK r \in parties : p.id = r.id /\ p.candidates = CandidatesOf(r)
      BY <2>5
    <3>2. c \in RowsOf(r)
      BY <2>7, <3>1, ReadInOrder DEF Once, ToSet
    <3>3. Candidate(p, c) = NamedOf(r, c)
      BY <3>1 DEF Candidate, NamedOf
    <3>4. Candidate(p, c) \in NamedHere(r)
      BY <3>2, <3>3 DEF NamedHere
    <3>5. Candidate(p, c) \in UNION {NamedHere(q) : q \in PartiesHere}
      BY <2>3, <3>1, <3>4
    <3> QED BY <1>2, <2>7, <3>5 DEF OptionsHere
  <2>8. Read = ToSet(PartiesWithCandidates)
    BY <2>2 DEF Read
  <2> QED BY <2>4, <2>6, <2>7, <2>8
<1> QED
    BY <1>1, <1>2

\* Two options of one ballot have two names.
LEMMA NamesDiffer ==
    ASSUME OptionIInv, NEW a \in OptionsHere, NEW b \in OptionsHere, LabelOf(a) = LabelOf(b)
    PROVE  a = b
<1> DEFINE Kinds(o) ==
              \/ o = [kind |-> "BLANK"]
              \/ \E i \in PartyIds : o = [kind |-> "PARTY", party |-> i]
              \/ \E i, c : o = [kind |-> "CANDIDATE", party |-> i, candidate |-> c]
              \/ \E i \in AnswerIds : o = [kind |-> "OPTION", option |-> i]
<1>1. ASSUME NEW o \in OptionsHere
      PROVE  /\ Kinds(o)
             /\ o.kind = "OPTION" => IsQuestion
             /\ o.kind = "PARTY" => ~IsQuestion
  <2>1. CASE o = [kind |-> "BLANK"]
    BY <2>1
  <2>2. ASSUME NEW p \in PartiesHere, o = PartyOf(p)
        PROVE  Kinds(o) /\ ~IsQuestion /\ o.kind = "PARTY"
    <3>1. p \in parties /\ ~IsQuestion
      BY DEF PartiesHere
    <3> QED BY <2>2, <3>1 DEF PartyOf, OptionIInv
  <2>3. ASSUME NEW p \in PartiesHere, o \in NamedHere(p)
        PROVE  Kinds(o) /\ o.kind = "CANDIDATE"
    BY <2>3 DEF NamedHere, NamedOf
  <2>4. ASSUME NEW a1 \in AnswersHere, o = AnswerOf(a1)
        PROVE  Kinds(o) /\ IsQuestion /\ o.kind = "OPTION"
    <3>1. a1 \in answers /\ IsQuestion
      BY DEF AnswersHere
    <3> QED BY <2>4, <3>1 DEF AnswerOf, OptionIInv
  <2> HIDE DEF Kinds
  <2>5. \/ o = [kind |-> "BLANK"]
        \/ \E p \in PartiesHere : o = PartyOf(p)
        \/ \E p \in PartiesHere : o \in NamedHere(p)
        \/ \E a1 \in AnswersHere : o = AnswerOf(a1)
    BY DEF OptionsHere
  <2>6. CASE o = [kind |-> "BLANK"]
    BY <2>1, <2>6
  <2>7. CASE \E p \in PartiesHere : o = PartyOf(p)
    BY <2>2, <2>7
  <2>8. CASE \E p \in PartiesHere : o \in NamedHere(p)
    BY <2>3, <2>8
  <2>9. CASE \E a1 \in AnswersHere : o = AnswerOf(a1)
    BY <2>4, <2>9
  <2> QED BY <2>5, <2>6, <2>7, <2>8, <2>9
<1> DEFINE Tells(o) ==
              /\ o.kind = "BLANK" => o = [kind |-> "BLANK"] /\ LabelOf(o) = <<"Blankt">>
              /\ o.kind = "PARTY" => /\ o = [kind |-> "PARTY", party |-> o.party]
                                     /\ LabelOf(o) = <<o.party>> /\ o.party # "Blankt"
              /\ o.kind = "CANDIDATE" => /\ o = [kind |-> "CANDIDATE", party |-> o.party,
                                                 candidate |-> o.candidate]
                                         /\ LabelOf(o) = <<o.candidate, o.party>>
              /\ o.kind = "OPTION" => /\ o = [kind |-> "OPTION", option |-> o.option]
                                      /\ LabelOf(o) = <<o.option>> /\ o.option # "Blankt"
              /\ o.kind \in {"BLANK", "PARTY", "CANDIDATE", "OPTION"}
<1>2. ASSUME NEW o, Kinds(o) PROVE Tells(o)
  <2>1. CASE o = [kind |-> "BLANK"]
    BY <2>1 DEF LabelOf
  <2>2. ASSUME NEW i \in PartyIds, o = [kind |-> "PARTY", party |-> i] PROVE Tells(o)
    BY <2>2, OptionAssumption DEF LabelOf
  <2>3. ASSUME NEW i, NEW c, o = [kind |-> "CANDIDATE", party |-> i, candidate |-> c]
        PROVE  Tells(o)
    BY <2>3 DEF LabelOf
  <2>4. ASSUME NEW i \in AnswerIds, o = [kind |-> "OPTION", option |-> i] PROVE Tells(o)
    BY <2>4, OptionAssumption DEF LabelOf
  <2> HIDE DEF Tells
  <2> QED BY <1>2, <2>1, <2>2, <2>3, <2>4
<1> HIDE DEF Kinds
<1>3. \A u, v, w : <<u>> # <<v, w>>
    OBVIOUS
<1>4. \A u, v : <<u>> = <<v>> => u = v
    OBVIOUS
<1>5. \A u, v, w, z : <<u, v>> = <<w, z>> => u = w /\ v = z
    OBVIOUS
<1>6. a.kind = b.kind
    BY <1>1, <1>2, <1>3, <1>4
<1> QED
    BY <1>1, <1>2, <1>4, <1>5, <1>6

LEMMA SameOptions ==
    ASSUME OptionIInv
    PROVE  OptionTypeOK /\ OptionsAgree
<1> DEFINE l == ListHere
           labels == optionLabelsOf
<1>1. OptionTypeOK
    BY DEF OptionTypeOK, OptionIInv
<1>2. OptionsOfThePage = l /\ getEncryptedBallotShape = l
    BY ThePage, TheServer
<1>3. Once(l, OptionsHere)
    BY ListOnce
<1> HIDE DEF l
<1>4. Len(l) \in Nat /\ DOMAIN l = 1 .. Len(l) /\ \A i \in 1 .. Len(l) : l[i] \in OptionsHere
    BY <1>3 DEF Once
<1>5. labels = [i \in 1 .. Len(l) |-> LabelOf(l[i])]
    BY <1>2, <1>4 DEF optionLabelsOf, Each
<1>6. Len(labels) = Len(l) /\ \A i \in 1 .. Len(l) : labels[i] = LabelOf(l[i])
    BY <1>4, <1>5
<1> HIDE DEF labels
<1>7. ASSUME NEW choice \in MayChoose
      PROVE  /\ Len(VectorOf(choice)) = Len(l)
             /\ \A i \in DOMAIN VectorOf(choice) :
                   /\ VectorOf(choice)[i] = 1 <=> l[i] = choice
                   /\ VectorOf(choice)[i] = 1 <=> labels[i] = LabelOf(choice)
  <2> DEFINE index == indexOfChoice(l, choice)
             v == VectorOf(choice)
  <2>1. choice \in OptionsHere
    BY ChoicesAreHere
  <2>2. PICK k \in 1 .. Len(l) : l[k] = choice
    BY <1>3, <2>1 DEF Once
  <2>3. ASSUME NEW i \in 1 .. Len(l), l[i] = choice PROVE i = k
    BY <1>3, <2>2, <2>3 DEF Once
  <2>4. index = k
    <3>1. \A j \in 1 .. (k - 1) : l[j] # choice
      <4>1. \A j \in 1 .. (k - 1) : j \in 1 .. Len(l) /\ j # k
        BY <1>4
      <4> QED BY <2>3, <4>1
    <3> QED BY <1>4, <2>2, <2>3, <3>1 DEF indexOfChoice
  <2>5. v = [i \in 1 .. Len(l) |-> IF i = index THEN 1 ELSE 0]
    BY <1>2 DEF VectorOf, unitVector
  <2> HIDE DEF index, v
  <2>6. Len(v) = Len(l) /\ DOMAIN v = 1 .. Len(l)
    BY <1>4, <2>5
  <2>7. ASSUME NEW i \in 1 .. Len(l)
        PROVE  (v[i] = 1 <=> l[i] = choice) /\ (v[i] = 1 <=> labels[i] = LabelOf(choice))
    <3>1. v[i] = 1 <=> i = k
      BY <2>4, <2>5
    <3>2. l[i] = choice <=> i = k
      BY <2>2, <2>3
    <3>3. labels[i] = LabelOf(choice) <=> l[i] = choice
      BY <1>4, <1>6, <2>1, NamesDiffer
    <3> QED BY <3>1, <3>2, <3>3
  <2> QED BY <2>6, <2>7 DEF v
<1> QED
    BY <1>1, <1>2, <1>6, <1>7 DEF OptionsAgree, labels

\* The counting by one or two trustees out of however many, in any group, and any
\* ballot's rows, in any order: what is opened, and found by the reader's tool, is what
\* was voted, and the page, the server and the publication list the same options.
THEOREM SumsAreAlwaysTheVotes ==
    ThresholdSpec /\ OptionSpec => []SumsAreTheVotes
<1>1. ThresholdSpec => [](ThresholdTypeOK /\ SharesOpenTheSum /\ ToolAgrees)
    BY SharesAlwaysOpenTheSum
<1>2. OptionInit => OptionIInv
    BY OptionBegins
<1>3. OptionIInv /\ [OptionNext]_optionVars => OptionIInv'
    BY OptionStepKeeps
<1>4. OptionSpec => []OptionIInv
    BY <1>2, <1>3, PTL DEF OptionSpec
<1>5. /\ ThresholdTypeOK /\ SharesOpenTheSum /\ ToolAgrees
      /\ OptionIInv
      => SumsAreTheVotes
    BY SameOptions DEF SumsAreTheVotes
<1> QED
    BY <1>1, <1>4, <1>5, PTL
=============================================================================
