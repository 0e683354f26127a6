----------------------------- MODULE WaitingLines -----------------------------
(***************************************************************************)
(* Facts about a line that somebody may stand in once: who joins it at its *)
(* end, is called at its head, or leaves it from anywhere.                 *)
(***************************************************************************)
EXTENDS Naturals, Sequences, SequencesExt, SequenceTheorems,
        FiniteSetTheorems, TLAPS

\* Who joins the line stands in it, once, with those who stood there.
LEMMA Joins ==
    ASSUME NEW S, NEW line \in Seq(S), NEW t \in S, t \notin Range(line), IsInjective(line)
    PROVE  /\ Append(line, t) \in Seq(S)
           /\ Append(line, t) # <<>>
           /\ Len(Append(line, t)) = Len(line) + 1
           /\ Range(Append(line, t)) = Range(line) \cup {t}
           /\ IsInjective(Append(line, t))
<1> DEFINE longer == Append(line, t)
<1>1. /\ longer \in Seq(S)
      /\ Len(longer) = Len(line) + 1
      /\ DOMAIN longer = 1..(Len(line) + 1)
      /\ DOMAIN line = 1..Len(line)
      /\ \A i \in 1..Len(line) : longer[i] = line[i]
      /\ longer[Len(line) + 1] = t
    OBVIOUS
<1>2. \A i \in DOMAIN longer : i \in DOMAIN line \/ i = Len(line) + 1
    BY <1>1
<1>3. Range(longer) = Range(line) \cup {t}
    BY <1>1, <1>2 DEF Range
<1>4. IsInjective(longer)
    BY <1>1, <1>2 DEF Range, IsInjective
<1>5. longer # <<>>
    BY <1>1
<1> QED BY <1>1, <1>3, <1>4, <1>5

\* Who is called leaves the line, and nobody else does.
LEMMA IsCalled ==
    ASSUME NEW S, NEW line \in Seq(S), line # <<>>, IsInjective(line)
    PROVE  /\ Head(line) \in S /\ Head(line) \in Range(line)
           /\ Tail(line) \in Seq(S)
           /\ Len(Tail(line)) = Len(line) - 1
           /\ Range(Tail(line)) = Range(line) \ {Head(line)}
           /\ IsInjective(Tail(line))
<1> DEFINE shorter == Tail(line)
<1>1. /\ Len(line) \in Nat \ {0}
      /\ DOMAIN line = 1..Len(line)
      /\ Head(line) = line[1]
      /\ shorter \in Seq(S)
      /\ Len(shorter) = Len(line) - 1
      /\ DOMAIN shorter = 1..(Len(line) - 1)
      /\ \A i \in 1..(Len(line) - 1) : shorter[i] = line[i + 1]
    OBVIOUS
<1>2. \A i \in DOMAIN line : i # 1 => i - 1 \in DOMAIN shorter /\ shorter[i - 1] = line[i]
    BY <1>1
<1>3. \A i \in DOMAIN shorter : i + 1 \in DOMAIN line /\ i + 1 # 1 /\ shorter[i] = line[i + 1]
    BY <1>1
<1>4. Range(shorter) \subseteq Range(line) \ {line[1]}
    BY <1>1, <1>3 DEF Range, IsInjective
<1>5. ASSUME NEW v \in Range(line) \ {line[1]} PROVE v \in Range(shorter)
  <2>1. PICK i \in DOMAIN line : line[i] = v
    BY DEF Range
  <2> QED BY <2>1, <1>2 DEF Range
<1>6. IsInjective(shorter)
    BY <1>1, <1>3 DEF IsInjective
<1>7. Head(line) \in S /\ Head(line) \in Range(line)
    BY <1>1 DEF Range
<1> QED BY <1>1, <1>4, <1>5, <1>6, <1>7

\* Who leaves the line from any place leaves those before and behind in it.
LEMMA LeavesFrom ==
    ASSUME NEW S, NEW line \in Seq(S), NEW p \in DOMAIN line, IsInjective(line)
    PROVE  /\ RemoveAt(line, p) \in Seq(S)
           /\ Len(RemoveAt(line, p)) = Len(line) - 1
           /\ Range(RemoveAt(line, p)) = Range(line) \ {line[p]}
           /\ IsInjective(RemoveAt(line, p))
<1> DEFINE before == SubSeq(line, 1, p - 1)
           behind == SubSeq(line, p + 1, Len(line))
           shorter == before \o behind
<1>1. /\ Len(line) \in Nat /\ DOMAIN line = 1..Len(line)
      /\ p \in 1..Len(line)
    OBVIOUS
<1>2. /\ before \in Seq(S) /\ Len(before) = p - 1
      /\ \A i \in 1..(p - 1) : before[i] = line[i]
    BY <1>1
<1>3. /\ behind \in Seq(S) /\ Len(behind) = Len(line) - p
      /\ \A i \in 1..(Len(line) - p) : behind[i] = line[p + i]
    BY <1>1
<1> HIDE DEF before, behind
<1>4. /\ shorter \in Seq(S) /\ Len(shorter) = Len(line) - 1
      /\ DOMAIN shorter = 1..(Len(line) - 1)
  <2>1. /\ shorter \in Seq(S) /\ Len(shorter) = Len(before) + Len(behind)
    BY <1>2, <1>3, ConcatProperties
  <2>2. (p - 1) + (Len(line) - p) = Len(line) - 1
    BY <1>1
  <2>3. DOMAIN shorter = 1..Len(shorter)
    BY <2>1, LenProperties
  <2> QED BY <2>1, <2>2, <2>3, <1>2, <1>3
<1>5. ASSUME NEW i \in 1..(Len(line) - 1)
      PROVE  shorter[i] = IF i < p THEN line[i] ELSE line[i + 1]
  <2>1. CASE i < p
    BY <2>1, <1>1, <1>2, <1>3
  <2>2. CASE ~(i < p)
    <3>1. i > p - 1 /\ i - (p - 1) \in 1..(Len(line) - p) /\ p + (i - (p - 1)) = i + 1
        BY <2>2, <1>1
    <3>2. shorter[i] = behind[i - (p - 1)]
        BY <3>1, <1>1, <1>2, <1>3
    <3> QED BY <2>2, <3>1, <3>2, <1>3
  <2> QED BY <2>1, <2>2
<1> HIDE DEF shorter
<1> DEFINE to(i) == IF i < p THEN i ELSE i + 1
<1>6. \A i \in DOMAIN shorter : to(i) \in DOMAIN line /\ to(i) # p /\ shorter[i] = line[to(i)]
    BY <1>1, <1>4, <1>5
<1>7. \A i, j \in DOMAIN shorter : to(i) = to(j) => i = j
    BY <1>1, <1>4
<1>8. \A j \in DOMAIN line \ {p} : \E i \in DOMAIN shorter : to(i) = j
  <2> TAKE j \in DOMAIN line \ {p}
  <2>1. CASE j < p
    <3>1. j \in DOMAIN shorter /\ to(j) = j
        BY <2>1, <1>1, <1>4
    <3> QED BY <3>1
  <2>2. CASE j > p
    <3>1. j - 1 \in DOMAIN shorter /\ to(j - 1) = j
        BY <2>2, <1>1, <1>4
    <3> QED BY <3>1
  <2> QED BY <2>1, <2>2, <1>1
<1> HIDE DEF to
<1>9. Range(shorter) = Range(line) \ {line[p]}
  <2>1. Range(shorter) \subseteq Range(line) \ {line[p]}
    BY <1>6 DEF Range, IsInjective
  <2>2. ASSUME NEW v \in Range(line) \ {line[p]} PROVE v \in Range(shorter)
    <3>1. PICK j \in DOMAIN line \ {p} : line[j] = v
        BY DEF Range
    <3>2. PICK i \in DOMAIN shorter : to(i) = j
        BY <1>8
    <3> QED BY <3>1, <3>2, <1>6 DEF Range
  <2> QED BY <2>1, <2>2
<1>10. IsInjective(shorter)
    BY <1>6, <1>7 DEF IsInjective
<1>11. RemoveAt(line, p) = shorter
    BY DEF RemoveAt, shorter, before, behind
<1> QED BY <1>4, <1>9, <1>10, <1>11

\* As many stand in the line as it is long.
LEMMA LengthIsCount ==
    ASSUME NEW S, NEW line \in Seq(S), IsInjective(line)
    PROVE  IsFiniteSet(Range(line)) /\ Cardinality(Range(line)) = Len(line)
<1> DEFINE n == Len(line)
<1>1. n \in Nat /\ DOMAIN line = 1..n /\ line \in [1..n -> S]
    BY LenProperties
<1>2. line \in [1..n -> Range(line)]
    BY <1>1 DEF Range
<1>3. line \in Surjection(1..n, Range(line)) /\ line \in Injection(1..n, Range(line))
    BY <1>1, <1>2 DEF Surjection, Injection, Range
<1>4. IsFiniteSet(1..n) /\ Cardinality(1..n) = n
    BY <1>1, FS_Interval
<1> HIDE DEF n
<1>5. IsFiniteSet(Range(line)) /\ Cardinality(Range(line)) = Cardinality(1..n)
    BY <1>3, <1>4, FS_Surjection
<1> QED BY <1>4, <1>5 DEF n

\* Two groups that share nobody are as many as both.
LEMMA DisjointCount ==
    ASSUME NEW S, NEW T, IsFiniteSet(S), IsFiniteSet(T), S \cap T = {}
    PROVE  IsFiniteSet(S \cup T) /\ Cardinality(S \cup T) = Cardinality(S) + Cardinality(T)
<1>1. /\ IsFiniteSet(S \cup T)
      /\ Cardinality(S \cup T) = Cardinality(S) + Cardinality(T) - Cardinality(S \cap T)
    BY FS_Union
<1>2. Cardinality(S) \in Nat /\ Cardinality(T) \in Nat /\ Cardinality(S \cap T) = 0
    BY FS_CardinalityType, FS_EmptySet
<1> QED BY <1>1, <1>2

\* Of numbers there is a smallest.
LEMMA Smallest ==
    ASSUME NEW T \in SUBSET Nat, T # {}
    PROVE  \E n \in T : \A m \in T : n <= m
<1> DEFINE R == StrictSubsetOrdering(Nat)
           U == {1..n : n \in T}
<1>1. U \subseteq FiniteSubsetsOf(Nat) /\ U # {}
  <2>1. ASSUME NEW n \in T PROVE 1..n \in SUBSET Nat /\ IsFiniteSet(1..n)
    BY FS_Interval
  <2> QED BY <2>1 DEF FiniteSubsetsOf
<1>2. IsWellFoundedOn(R, FiniteSubsetsOf(Nat))
    BY FS_StrictSubsetOrderingWellFounded
<1> HIDE DEF R, U
<1>3. PICK u \in U : \A w \in U : ~ (<<w, u>> \in R)
    BY <1>1, <1>2, WFMin
<1>4. PICK n \in T : u = 1..n
    BY <1>3 DEF U
<1>5. ASSUME NEW m \in T, m < n
      PROVE  FALSE
  <2>1. 1..m \in U /\ 1..m \subseteq 1..n /\ n \in 1..n /\ n \notin 1..m
    BY <1>5 DEF U
  <2>2. <<1..m, u>> \in R
    BY <1>4, <2>1 DEF R, StrictSubsetOrdering
  <2> QED BY <1>3, <2>1, <2>2
<1> QED BY <1>5
===============================================================================
