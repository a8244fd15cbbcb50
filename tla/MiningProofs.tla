---------------------------- MODULE MiningProofs ----------------------------
(***************************************************************************)
(* The target that a node computes for its miners against the rule that it *)
(* verifies blocks by; the miner against its own node's rules; and the     *)
(* bounds of the targets: for every net's parameters and any blocks that   *)
(* the rules let through.                                                  *)
(***************************************************************************)
EXTENDS Mining, FiniteSetTheorems, SequenceTheorems, WellFoundedInduction, TLAPS

-----------------------------------------------------------------------------
(* The next target, and the median *)

\* A chain as VerifyBlock lets it grow: no target above the net's maximum.
BoundedHeader == [target : 1..MaxTarget, time : Nat]

\* The permitted change of a target within the net's maximum is a range of naturals
\* that is not empty.
LEMMA RangeOfNextTarget ==
  ASSUME NEW t \in 1..MaxTarget
  PROVE  /\ MinNextTarget(t) \in Nat /\ MaxNextTarget(t) \in Nat
         /\ MinNextTarget(t) <= t /\ t <= MaxNextTarget(t)
  BY DifficultyAssumption DEF MinNextTarget, MaxNextTarget, Lesser

\* The first block of a period lies below the last one, so the division by the time
\* that the period should have taken is defined.
LEMMA PeriodHasLength ==
  ASSUME NEW hs \in Seq(BoundedHeader), EndsPeriod(hs)
  PROVE  /\ PeriodFirst(Len(hs)) \in 1..(Len(hs) - 1)
         /\ BlockTargetTime * (Len(hs) - PeriodFirst(Len(hs))) \in Nat \ {0}
<1> DEFINE n == Len(hs)
           P == DifficultyPeriod
           first == PeriodFirst(n)
           q == n \div P
<1>1. n \in Nat /\ P \in Nat /\ P >= 4 /\ (n + 1) % P = 0
  BY DifficultyAssumption DEF EndsPeriod
<1>2. n >= 3
  BY <1>1
<1>3. first \in 1..(n - 1)
  <2>1. CASE n < P
    BY <1>1, <1>2, <2>1 DEF PeriodFirst
  <2>2. CASE n >= P
    <3>1. first = q * P
      BY <1>1, <2>2 DEF PeriodFirst
    <3>2. q \in Nat /\ q >= 1 /\ q * P <= n
      BY <1>1, <2>2
    <3>3. q * P # n
      <4>1. SUFFICES ASSUME q * P = n PROVE FALSE
        OBVIOUS
      <4>2. (n + 1) % P = 1
        BY <1>1, <3>2, <4>1
      <4> QED
        BY <1>1, <4>2
    <3>4. q * P >= 1 /\ q * P \in Nat
      BY <1>1, <3>2
    <3> QED
      BY <1>1, <3>1, <3>2, <3>3, <3>4
  <2> QED
    BY <1>1, <2>1, <2>2
<1>4. n - first \in Nat \ {0}
  BY <1>1, <1>3
<1>5. \A a, b \in Nat \ {0} : a * b \in Nat \ {0}
  OBVIOUS
<1>6. BlockTargetTime \in Nat \ {0}
  BY DifficultyAssumption
<1> QED
  BY <1>3, <1>4, <1>5, <1>6

\* NextTarget, which the chain tells its miners, is a target that VerifyBlock accepts of
\* a block on that chain, whatever the times of the period were.
THEOREM NextTargetIsAccepted ==
  ASSUME NEW hs \in Seq(BoundedHeader), ~NextTargetPanics(hs), NEW t \in Nat
  PROVE  TargetFollows(hs, [target |-> NextTarget(hs), time |-> t])
<1>1. CASE hs = <<>>
  BY <1>1 DEF NextTarget, TargetFollows
<1>2. CASE hs # <<>> /\ ~EndsPeriod(hs)
  BY <1>2 DEF NextTarget, TargetFollows
<1>3. CASE hs # <<>> /\ EndsPeriod(hs)
  <2> DEFINE first == PeriodFirst(Len(hs))
             prev == Last(hs).target
             actual == Last(hs).time - hs[first].time
             desired == BlockTargetTime * (Len(hs) - first)
  <2>1. Len(hs) \in Nat \ {0} /\ first \in 1..Len(hs) /\ desired \in Nat \ {0}
    BY <1>3, PeriodHasLength
  <2>2. Last(hs) \in BoundedHeader /\ hs[first] \in BoundedHeader
    BY <2>1 DEF Last
  <2>3. prev \in 1..MaxTarget /\ actual \in Nat
    BY <1>3, <2>2 DEF BoundedHeader, NextTargetPanics
  <2>4. (prev * actual) \div desired \in Nat
    <3>1. prev * actual \in Nat
      BY <2>3, DifficultyAssumption
    <3> HIDE DEF prev, actual, desired
    <3>2. \A a \in Nat, b \in Nat \ {0} : a \div b \in Nat
      OBVIOUS
    <3> QED
      BY <2>1, <3>1, <3>2
  <2>5. Adjusted(hs) \in MinNextTarget(prev)..MaxNextTarget(prev)
    <3> HIDE DEF actual, desired
    <3>1. DEFINE scaled == Lesser((prev * actual) \div desired, HashMax)
    <3>2. scaled \in Nat
      BY <2>4, DifficultyAssumption DEF Lesser
    <3>3. Adjusted(hs) = Lesser(IF scaled < MinNextTarget(prev) THEN MinNextTarget(prev)
                                ELSE scaled, MaxNextTarget(prev))
      BY DEF Adjusted, actual, desired
    <3> HIDE DEF scaled, prev
    <3> QED
      BY <2>3, <3>2, <3>3, RangeOfNextTarget DEF Lesser
  <2> QED
    BY <1>3, <2>5 DEF NextTarget, TargetFollows
<1> QED
  BY <1>1, <1>2, <1>3

-----------------------------------------------------------------------------
(* The median of the last times *)

\* A non-empty set of naturals has a least element.
LEMMA LeastNatural ==
  ASSUME NEW T, T \subseteq Nat, T # {}
  PROVE  \E m \in T : \A n \in T : m <= n
<1> DEFINE Less == {p \in Nat \X Nat : p[1] < p[2]}
<1>1. IsWellFoundedOn(Less, Nat)  BY NatLessThanWellFounded DEF OpToRel
<1> HIDE DEF Less
<1>2. PICK x \in T : \A y \in T : <<y, x>> \notin Less  BY <1>1, WFMin
<1>3. ASSUME NEW n \in T  PROVE x <= n
  <2>1. ~(n < x)  BY <1>2 DEF Less
  <2> QED  BY <2>1
<1> QED  BY <1>3

Below(times, t) == {i \in DOMAIN times : times[i] < t}
UpTo(times, t) == {i \in DOMAIN times : times[i] <= t}

\* Positions can be counted, and more of them are more.
LEMMA PositionsCounted ==
  ASSUME NEW n \in Nat, NEW S, S \subseteq 1..n, NEW R, R \subseteq S
  PROVE  /\ IsFiniteSet(S) /\ Cardinality(S) \in 0..n
         /\ IsFiniteSet(R) /\ Cardinality(R) \in 0..n /\ Cardinality(R) <= Cardinality(S)
<1>1. IsFiniteSet(1..n) /\ Cardinality(1..n) = n  BY FS_Interval
<1>2. IsFiniteSet(S) /\ Cardinality(S) <= n  BY <1>1, FS_Subset
<1>3. IsFiniteSet(R) /\ Cardinality(R) <= Cardinality(S)  BY <1>2, FS_Subset
<1>4. Cardinality(S) \in Nat /\ Cardinality(R) \in Nat  BY <1>2, <1>3, FS_CardinalityType
<1> QED  BY <1>2, <1>3, <1>4

\* Finitely many times have a latest.
LEMMA TimesBounded ==
  ASSUME NEW n \in Nat, NEW times \in [1..n -> Nat]
  PROVE  \E max \in Nat : \A i \in 1..n : times[i] <= max
<1> DEFINE Has(j) == \E max \in Nat : \A i \in 1..j : times[i] <= max
           T == {j \in 0..n : ~Has(j)}
<1> HIDE DEF Has
<1>1. SUFFICES ASSUME T # {}  PROVE FALSE
  <2>1. n \in 0..n  OBVIOUS
  <2>2. Has(n) => \E max \in Nat : \A i \in 1..n : times[i] <= max  BY DEF Has
  <2> QED  BY <2>1, <2>2
<1>2. PICK j \in T : \A l \in T : j <= l
  <2>1. T \subseteq Nat  OBVIOUS
  <2> HIDE DEF T
  <2> QED  BY <1>1, <2>1, LeastNatural
<1>3. Has(0)
  <2>1. 0 \in Nat /\ 1..0 = {}  OBVIOUS
  <2> QED  BY <2>1 DEF Has
<1>4. j - 1 \in 0..n /\ j \in 1..n /\ Has(j - 1) /\ ~Has(j)
  <2>1. j \in 0..n /\ ~Has(j)  OBVIOUS
  <2>2. j # 0  BY <1>3, <2>1
  <2>3. j - 1 \in 0..n /\ j \in 1..n /\ ~(j <= j - 1)  BY <2>1, <2>2
  <2>4. j - 1 \notin T  BY <1>2, <2>3
  <2> QED  BY <2>1, <2>3, <2>4
<1>5. PICK max \in Nat : \A i \in 1..(j - 1) : times[i] <= max  BY <1>4 DEF Has
<1>6. times[j] \in Nat  BY <1>4
<1> DEFINE more == IF times[j] < max THEN max ELSE times[j]
<1>7. more \in Nat /\ max <= more /\ times[j] <= more  BY <1>6
<1> HIDE DEF more
<1>8. \A i \in 1..j : times[i] <= more
  <2> SUFFICES ASSUME NEW i \in 1..j  PROVE times[i] <= more
    OBVIOUS
  <2>1. CASE i = j  BY <1>7, <2>1
  <2>2. CASE i # j
    <3>1. i \in 1..(j - 1) /\ times[i] \in Nat  BY <1>4, <2>2
    <3> QED  BY <1>5, <1>7, <3>1
  <2> QED  BY <2>1, <2>2
<1> QED  BY <1>4, <1>7, <1>8 DEF Has

\* The k-th smallest of n times is there.
LEMMA KthFacts ==
  ASSUME NEW n \in Nat, NEW times \in [1..n -> Nat], NEW k \in 1..n
  PROVE  /\ Kth(times, k) \in Nat
         /\ Cardinality(Below(times, Kth(times, k))) < k
         /\ Cardinality(UpTo(times, Kth(times, k))) >= k
<1> DEFINE T == {t \in Nat : Cardinality(UpTo(times, t)) >= k}
           V == {times[i] : i \in DOMAIN times}
<1>1. DOMAIN times = 1..n  OBVIOUS
<1>2. T # {}
  <2>1. PICK max \in Nat : \A i \in 1..n : times[i] <= max  BY TimesBounded
  <2>2. UpTo(times, max) = 1..n  BY <1>1, <2>1 DEF UpTo
  <2>3. Cardinality(1..n) = n  BY FS_Interval
  <2> QED  BY <2>2, <2>3
<1>3. PICK m \in T : \A t \in T : m <= t  BY <1>2, LeastNatural
<1>4. \A t \in Nat : /\ UpTo(times, t) \subseteq 1..n /\ Cardinality(UpTo(times, t)) \in 0..n
                     /\ Below(times, t) \subseteq UpTo(times, t)
                     /\ Cardinality(Below(times, t)) \in 0..n
  <2> SUFFICES ASSUME NEW t \in Nat
               PROVE  /\ UpTo(times, t) \subseteq 1..n /\ Cardinality(UpTo(times, t)) \in 0..n
                      /\ Below(times, t) \subseteq UpTo(times, t)
                      /\ Cardinality(Below(times, t)) \in 0..n
    OBVIOUS
  <2>1. UpTo(times, t) \subseteq 1..n /\ Below(times, t) \subseteq UpTo(times, t)
    BY <1>1 DEF UpTo, Below
  <2> QED  BY <2>1, PositionsCounted
<1>5. Cardinality(Below(times, m)) < k
  <2>1. CASE m = 0
    <3>1. Below(times, m) = {}  BY <1>1, <2>1 DEF Below
    <3> QED  BY <3>1, FS_EmptySet
  <2>2. CASE m # 0
    <3>1. m - 1 \in Nat /\ m - 1 \notin T  BY <1>3, <2>2
    <3>2. Below(times, m) = UpTo(times, m - 1)
      <4>1. \A i \in 1..n : times[i] < m <=> times[i] <= m - 1  BY <3>1
      <4> QED  BY <1>1, <4>1 DEF Below, UpTo
    <3>3. Cardinality(UpTo(times, m - 1)) \in 0..n  BY <1>4, <3>1
    <3> QED  BY <3>1, <3>2, <3>3
  <2> QED  BY <2>1, <2>2
<1>6. m \in V
  <2> SUFFICES ASSUME m \notin V  PROVE FALSE
    OBVIOUS
  <2>1. \A i \in 1..n : times[i] <= m <=> times[i] < m  BY <1>1
  <2>2. UpTo(times, m) = Below(times, m)  BY <1>1, <2>1 DEF UpTo, Below
  <2> QED  BY <1>3, <1>4, <1>5, <2>2
<1>7. Cardinality(UpTo(times, m)) >= k  BY <1>3
<1> DEFINE P(t) == /\ Cardinality({i \in DOMAIN times : times[i] < t}) < k
                   /\ Cardinality({i \in DOMAIN times : times[i] <= t}) >= k
<1>8. Kth(times, k) = CHOOSE t \in V : P(t)  BY DEF Kth
<1>9. P(m)  BY <1>5, <1>7 DEF Below, UpTo
<1> HIDE DEF P, V
<1>10. Kth(times, k) \in V /\ P(Kth(times, k))  BY <1>6, <1>8, <1>9
<1>11. Kth(times, k) \in Nat  BY <1>1, <1>10 DEF V
<1> QED  BY <1>10, <1>11 DEF P, Below, UpTo

\* With fewer than k times below m, the k-th smallest is not below m.
LEMMA KthAbove ==
  ASSUME NEW n \in Nat, NEW times \in [1..n -> Nat], NEW k \in 1..n, NEW m \in Nat,
         Cardinality(Below(times, m)) < k
  PROVE  Kth(times, k) >= m
<1> DEFINE t == Kth(times, k)
<1>1. t \in Nat /\ Cardinality(UpTo(times, t)) >= k  BY KthFacts
<1> HIDE DEF t
<1>2. SUFFICES ASSUME t < m  PROVE FALSE
  BY <1>1 DEF t
<1>3. UpTo(times, t) \subseteq Below(times, m) /\ Below(times, m) \subseteq 1..n
  BY <1>1, <1>2 DEF UpTo, Below
<1>4. /\ Cardinality(UpTo(times, t)) <= Cardinality(Below(times, m))
      /\ Cardinality(UpTo(times, t)) \in Nat /\ Cardinality(Below(times, m)) \in Nat
  BY <1>3, PositionsCounted
<1> QED  BY <1>1, <1>4

MedianOf(times) ==
    LET n == Len(times)
    IN  IF n % 2 = 1 THEN Kth(times, (n + 1) \div 2)
        ELSE (Kth(times, n \div 2) + Kth(times, n \div 2 + 1)) \div 2

\* At most half of the times are below the median.
LEMMA MedianFacts ==
  ASSUME NEW n \in Nat \ {0}, NEW times \in [1..n -> Nat]
  PROVE  /\ MedianOf(times) \in Nat
         /\ Cardinality(Below(times, MedianOf(times))) <= n \div 2
<1> DEFINE m == MedianOf(times)
           j == n \div 2
<1>1. Len(times) = n
  <2>1. times \in Seq(Nat) /\ DOMAIN times = 1..n  BY SeqDef
  <2> QED  BY <2>1, LenProperties
<1>2. \A t \in Nat :
         /\ Below(times, t) \subseteq 1..n /\ UpTo(times, t) \subseteq 1..n
         /\ Cardinality(Below(times, t)) \in Nat /\ Cardinality(UpTo(times, t)) \in Nat
  <2> SUFFICES ASSUME NEW t \in Nat
               PROVE  /\ Below(times, t) \subseteq 1..n /\ UpTo(times, t) \subseteq 1..n
                      /\ Cardinality(Below(times, t)) \in Nat
                      /\ Cardinality(UpTo(times, t)) \in Nat
    OBVIOUS
  <2>1. Below(times, t) \subseteq 1..n /\ UpTo(times, t) \subseteq 1..n
    BY DEF Below, UpTo
  <2> QED  BY <2>1, PositionsCounted
<1>3. CASE n % 2 = 1
  <2>1. m = Kth(times, (n + 1) \div 2)  BY <1>1, <1>3 DEF MedianOf
  <2>2. (n + 1) \div 2 \in 1..n /\ (n + 1) \div 2 = j + 1  BY <1>3
  <2>3. m \in Nat /\ Cardinality(Below(times, m)) < j + 1  BY <2>1, <2>2, KthFacts
  <2>4. Cardinality(Below(times, m)) \in Nat  BY <1>2, <2>3
  <2> HIDE DEF m
  <2> QED  BY <2>3, <2>4 DEF m
<1>4. CASE n % 2 # 1
  <2> DEFINE a == Kth(times, j)
             b == Kth(times, j + 1)
  <2>1. m = (a + b) \div 2  BY <1>1, <1>4 DEF MedianOf
  <2>2. j \in 1..n /\ j + 1 \in 1..n  BY <1>4
  <2>3. /\ a \in Nat /\ Cardinality(Below(times, a)) < j
        /\ b \in Nat /\ Cardinality(Below(times, b)) < j + 1
        /\ Cardinality(UpTo(times, b)) >= j + 1
    BY <2>2, KthFacts
  <2>4. Cardinality(Below(times, b)) \in Nat /\ Cardinality(UpTo(times, b)) \in Nat
        /\ Cardinality(Below(times, a)) \in Nat
    BY <1>2, <2>3
  <2> HIDE DEF a, b, m, j
  <2>5. a <= b
    <3>1. SUFFICES ASSUME b < a  PROVE FALSE
      BY <2>3
    <3>2. UpTo(times, b) \subseteq Below(times, a)  BY <2>3, <3>1 DEF UpTo, Below
    <3>3. Cardinality(UpTo(times, b)) <= Cardinality(Below(times, a))
      BY <1>2, <2>3, <3>2, PositionsCounted
    <3> QED  BY <2>2, <2>3, <2>4, <3>3
  <2>6. m \in Nat /\ m <= b  BY <2>1, <2>3, <2>5
  <2>7. Below(times, m) \subseteq Below(times, b)  BY <2>3, <2>6 DEF Below
  <2>8. Cardinality(Below(times, m)) <= Cardinality(Below(times, b))
    BY <1>2, <2>3, <2>7, PositionsCounted
  <2>9. Cardinality(Below(times, m)) \in Nat  BY <1>2, <2>6
  <2> QED  BY <2>2, <2>3, <2>4, <2>6, <2>8, <2>9 DEF m, j
<1> QED  BY <1>3, <1>4

\* With fewer than half of the times below m, the median is not below m.
LEMMA MedianAbove ==
  ASSUME NEW n \in Nat \ {0}, NEW times \in [1..n -> Nat], NEW m \in Nat,
         Cardinality(Below(times, m)) <= (n - 1) \div 2
  PROVE  MedianOf(times) >= m
<1>1. Len(times) = n
  <2>1. times \in Seq(Nat) /\ DOMAIN times = 1..n  BY SeqDef
  <2> QED  BY <2>1, LenProperties
<1>2. Cardinality(Below(times, m)) \in Nat
  <2>1. Below(times, m) \subseteq 1..n  BY DEF Below
  <2> HIDE DEF Below
  <2>2. n \in Nat  OBVIOUS
  <2> QED  BY <2>1, <2>2, PositionsCounted
<1>3. CASE n % 2 = 1
  <2>1. (n + 1) \div 2 \in 1..n /\ Cardinality(Below(times, m)) < (n + 1) \div 2
    BY <1>2, <1>3
  <2>2. Kth(times, (n + 1) \div 2) >= m  BY <2>1, KthAbove
  <2> QED  BY <1>1, <1>3, <2>2 DEF MedianOf
<1>4. CASE n % 2 # 1
  <2> DEFINE j == n \div 2
             a == Kth(times, j)
             b == Kth(times, j + 1)
  <2>1. /\ j \in 1..n /\ j + 1 \in 1..n
        /\ Cardinality(Below(times, m)) < j /\ Cardinality(Below(times, m)) < j + 1
    BY <1>2, <1>4
  <2>2. a \in Nat /\ b \in Nat /\ a >= m /\ b >= m  BY <2>1, KthAbove, KthFacts
  <2>3. MedianOf(times) = (a + b) \div 2  BY <1>1, <1>4 DEF MedianOf
  <2> HIDE DEF a, b
  <2> QED  BY <2>2, <2>3
<1> QED  BY <1>3, <1>4

LEMMA LastTimesFacts ==
  ASSUME NEW hs \in Seq(BoundedHeader), hs # <<>>
  PROVE  /\ Len(hs) \in Nat \ {0} /\ DOMAIN hs = 1..Len(hs)
         /\ Lesser(Len(hs), 5) \in 1..5
         /\ LastTimes(hs) \in [1..Lesser(Len(hs), 5) -> Nat]
         /\ \A i \in 1..Lesser(Len(hs), 5) :
               LastTimes(hs)[i] = hs[Len(hs) - Lesser(Len(hs), 5) + i].time
<1> DEFINE n == Lesser(Len(hs), 5)
<1>1. Len(hs) \in Nat \ {0} /\ DOMAIN hs = 1..Len(hs)  BY EmptySeq, LenProperties
<1>2. n \in 1..5 /\ n <= Len(hs)  BY <1>1 DEF Lesser
<1>3. LastTimes(hs) = [i \in 1..n |-> hs[Len(hs) - n + i].time]
  BY DEF LastTimes
<1> HIDE DEF n
<1>4. \A i \in 1..n : Len(hs) - n + i \in 1..Len(hs)  BY <1>1, <1>2
<1>5. \A i \in 1..Len(hs) : hs[i].time \in Nat
  <2>1. \A i \in 1..Len(hs) : hs[i] \in BoundedHeader  BY <1>1, ElementOfSeq
  <2> QED  BY <2>1 DEF BoundedHeader
<1> QED  BY <1>1, <1>2, <1>3, <1>4, <1>5 DEF n

\* A block whose time is above the median leaves the median where it is, or higher,
\* though its time may be below the last block's and the oldest time drops out.
THEOREM MedianOnlyRises ==
  ASSUME NEW hs \in Seq(BoundedHeader), hs # <<>>, NEW b \in BoundedHeader,
         AboveMedian(hs, b)
  PROVE  MedianTime(Append(hs, b)) >= MedianTime(hs)
<1> DEFINE after == Append(hs, b)
           l == Len(hs)
           n == Lesser(l, 5)
           p == Lesser(l + 1, 5)
           f == LastTimes(hs)
           g == LastTimes(after)
           m == MedianOf(f)
<1>1. /\ after \in Seq(BoundedHeader) /\ after # <<>> /\ Len(after) = l + 1
      /\ \A i \in 1..l : after[i] = hs[i]
      /\ after[l + 1] = b
  BY AppendProperties
<1>2. /\ l \in Nat \ {0} /\ n \in 1..5 /\ f \in [1..n -> Nat]
      /\ \A i \in 1..n : f[i] = hs[l - n + i].time
  BY LastTimesFacts
<1> HIDE DEF after
<1>3. /\ p \in 1..5 /\ g \in [1..p -> Nat]
      /\ \A i \in 1..p : g[i] = after[l + 1 - p + i].time
  <2> HIDE DEF f, n, m, l, p, g
  <2>1. after \in Seq(BoundedHeader) /\ after # <<>>  BY <1>1
  <2>2. /\ Lesser(Len(after), 5) \in 1..5
        /\ LastTimes(after) \in [1..Lesser(Len(after), 5) -> Nat]
        /\ \A i \in 1..Lesser(Len(after), 5) :
              LastTimes(after)[i] = after[Len(after) - Lesser(Len(after), 5) + i].time
    BY <2>1, LastTimesFacts
  <2>3. Lesser(Len(after), 5) = p /\ Len(after) = l + 1  BY <1>1 DEF p
  <2>4. g = LastTimes(after)  BY DEF g
  <2>5. p \in 1..5 /\ g \in [1..p -> Nat]  BY <2>2, <2>3, <2>4, Zenon
  <2>6. ASSUME NEW i \in 1..p  PROVE g[i] = after[l + 1 - p + i].time
    <3>1. i \in 1..Lesser(Len(after), 5)  BY <2>3, Zenon
    <3>2. LastTimes(after)[i] = after[Len(after) - Lesser(Len(after), 5) + i].time
      BY <2>2, <3>1
    <3>3. Len(after) - Lesser(Len(after), 5) + i = l + 1 - p + i
      <4> DEFINE x == Lesser(Len(after), 5)
                 y == Len(after)
      <4>1. x = p /\ y = l + 1  BY <2>3
      <4> HIDE DEF x, y
      <4>2. l \in Nat /\ p \in 1..5 /\ i \in Nat  BY <1>2, <2>5
      <4>3. y - x + i = l + 1 - p + i  BY <4>1, <4>2
      <4> QED  BY <4>3 DEF x, y
    <3>4. g[i] = LastTimes(after)[i]  BY <2>4
    <3> QED  BY <3>2, <3>3, <3>4
  <2> QED  BY <2>5, <2>6
<1>4. MedianTime(hs) = m /\ MedianTime(after) = MedianOf(g)
  BY DEF MedianTime, MedianOf
<1>5. m \in Nat /\ Cardinality(Below(f, m)) <= n \div 2 /\ b.time > m /\ b.time \in Nat
  <2>1. n \in Nat \ {0} /\ f \in [1..n -> Nat]  BY <1>2
  <2>2. b.time \in Nat /\ b.time > m  BY <1>4 DEF AboveMedian, BoundedHeader
  <2> HIDE DEF f, n
  <2>3. m \in Nat /\ Cardinality(Below(f, m)) <= n \div 2  BY <2>1, MedianFacts
  <2> QED  BY <2>2, <2>3
<1>6. IF l < 5 THEN n = l /\ p = l + 1 ELSE n = 5 /\ p = 5
  BY <1>2 DEF Lesser
<1> HIDE DEF l, n, p, f, g, m
<1>7. Below(f, m) \subseteq 1..n /\ Below(g, m) \subseteq 1..p
  BY <1>2, <1>3 DEF Below
<1>8. /\ IsFiniteSet(Below(f, m)) /\ Cardinality(Below(f, m)) \in Nat
      /\ Cardinality(Below(g, m)) \in Nat
  <2>1. n \in Nat /\ p \in Nat  BY <1>2, <1>3
  <2>2. IsFiniteSet(Below(f, m)) /\ Cardinality(Below(f, m)) \in Nat
    BY <1>7, <2>1, PositionsCounted
  <2>3. Cardinality(Below(g, m)) \in Nat  BY <1>7, <2>1, PositionsCounted
  <2> QED  BY <2>2, <2>3
<1>9. g[p] = b.time
  <2>1. l + 1 - p + p = l + 1 /\ p \in 1..p  BY <1>2, <1>3
  <2> QED  BY <1>1, <1>3, <2>1
<1>10. p \notin Below(g, m)  BY <1>5, <1>9 DEF Below
<1>11. Cardinality(Below(g, m)) <= (p - 1) \div 2
  <2>1. CASE l < 5
    <3>1. n = l /\ p = l + 1  BY <1>6, <2>1
    <3>2. \A i \in 1..l : g[i] = f[i]
      <4> SUFFICES ASSUME NEW i \in 1..l  PROVE g[i] = f[i]
        OBVIOUS
      <4>1. l + 1 - p + i = i /\ l - n + i = i /\ i \in 1..p /\ i \in 1..n
        BY <1>2, <3>1
      <4>2. g[i] = after[l + 1 - p + i].time /\ f[i] = hs[l - n + i].time
        BY <1>2, <1>3, <4>1
      <4>3. g[i] = after[i].time /\ f[i] = hs[i].time  BY <4>1, <4>2
      <4> QED  BY <1>1, <4>3
    <3>3. \A i \in 1..p : i = p \/ i \in 1..l  BY <1>2, <3>1
    <3>4. Below(g, m) \subseteq Below(f, m)
      BY <1>2, <1>3, <1>10, <3>1, <3>2, <3>3 DEF Below
    <3>5. Cardinality(Below(g, m)) <= Cardinality(Below(f, m))
      <4>1. n \in Nat  BY <1>2
      <4> QED  BY <1>7, <3>4, <4>1, PositionsCounted
    <3>6. n \div 2 = (p - 1) \div 2  BY <1>2, <3>1
    <3> QED  BY <1>2, <1>5, <1>8, <3>5, <3>6
  <2>2. CASE l >= 5
    <3>1. n = 5 /\ p = 5  BY <1>6, <1>2, <2>2
    <3>2. \A i \in 1..4 : g[i] = f[i + 1]
      <4> SUFFICES ASSUME NEW i \in 1..4  PROVE g[i] = f[i + 1]
        OBVIOUS
      <4>1. /\ l + 1 - 5 + i = l - 5 + (i + 1) /\ l - 5 + (i + 1) \in 1..l
            /\ i \in 1..5 /\ i + 1 \in 1..5
        BY <1>2, <2>2
      <4>2. g[i] = after[l + 1 - 5 + i].time  BY <1>3, <3>1, <4>1
      <4>3. f[i + 1] = hs[l - 5 + (i + 1)].time  BY <1>2, <3>1, <4>1
      <4> QED  BY <1>1, <4>1, <4>2, <4>3
    <3> DEFINE s == [i \in Below(g, m) |-> i + 1]
    <3>3. \A i \in Below(g, m) : i \in 1..4 /\ i + 1 \in Below(f, m)
      <4>1. \A i \in Below(g, m) : i \in 1..5 /\ i # 5 /\ g[i] < m
        BY <1>3, <1>10, <3>1 DEF Below
      <4>2. \A i \in Below(g, m) : i \in 1..4 /\ i + 1 \in 1..5  BY <4>1
      <4> QED  BY <1>2, <3>1, <3>2, <4>1, <4>2 DEF Below
    <3>4. s \in Injection(Below(g, m), Below(f, m))
      <4>1. s \in [Below(g, m) -> Below(f, m)]  BY <3>3
      <4>2. \A i, j \in Below(g, m) : s[i] = s[j] => i = j
        <5>1. \A i \in Below(g, m) : i \in Nat /\ s[i] = i + 1  BY <3>3
        <5> HIDE DEF s
        <5> QED  BY <5>1
      <4> HIDE DEF s
      <4> QED  BY <4>1, <4>2 DEF Injection, IsInjective
    <3> HIDE DEF s
    <3>5. Cardinality(Below(g, m)) <= Cardinality(Below(f, m))
      BY <1>8, <3>4, FS_Injection
    <3> QED  BY <1>5, <1>8, <3>1, <3>5
  <2> QED  BY <1>2, <2>1, <2>2
<1>12. MedianOf(g) >= m
  <2>1. p \in Nat \ {0}  BY <1>3
  <2> QED  BY <1>3, <1>5, <1>11, <2>1, MedianAbove
<1> QED  BY <1>4, <1>12 DEF after

-----------------------------------------------------------------------------
(* The inductive invariant *)

\* What was told for the head is what NextTarget says of it; the rest is of lower heads.
Current(c, t) ==
    /\ t.parent <= Len(c)
    /\ t.parent = Len(c) => ~NextTargetPanics(c) /\ t.target = NextTarget(c)

\* While the node runs its chain has a next target, and every target on its way to the
\* miner, the template, and every solution that waits are current or of a lower head.
ToldOK ==
    /\ running => ~NextTargetPanics(chain)
    /\ \A i \in DOMAIN targetQ : Current(chain, targetQ[i])
    /\ template # NoTemplate =>
         Current(chain, template) /\ template.time <= now
    /\ \A i \in DOMAIN solutionQ :
         /\ Beatable(HeaderOf(solutionQ[i]))
         /\ Current(chain, solutionQ[i]) /\ solutionQ[i].time <= now

IInv == TypeOK /\ TargetsBounded /\ ToldOK

-----------------------------------------------------------------------------
(* The bounds of the targets *)

\* The number of the period changes at its first height, by one.
LEMMA PeriodOf ==
  ASSUME NEW h \in Nat \ {0}
  PROVE  /\ h \div DifficultyPeriod \in 0..h /\ (h - 1) \div DifficultyPeriod \in 0..(h - 1)
         /\ h % DifficultyPeriod = 0 =>
              h \div DifficultyPeriod = (h - 1) \div DifficultyPeriod + 1
         /\ h % DifficultyPeriod # 0 =>
              h \div DifficultyPeriod = (h - 1) \div DifficultyPeriod
<1> DEFINE P == DifficultyPeriod
           q == (h - 1) \div P
           r == (h - 1) % P
<1>1. P \in Nat /\ P >= 4  BY DifficultyAssumption
<1> HIDE DEF P
<1>2. q \in Nat /\ r \in 0..(P - 1) /\ h - 1 = P * q + r  BY <1>1
<1>3. q <= h - 1
  <2>1. q <= P * q  BY <1>1, <1>2
  <2>2. P * q \in Nat  BY <1>1, <1>2
  <2> HIDE DEF q, r
  <2> QED  BY <1>2, <2>1, <2>2
<1>4. \A m \in Nat, s \in 0..(P - 1) : (P * m + s) \div P = m /\ (P * m + s) % P = s
  BY <1>1
<1> HIDE DEF q, r
<1>5. CASE r < P - 1
  <2>1. h = P * q + (r + 1) /\ r + 1 \in 0..(P - 1)  BY <1>1, <1>2, <1>5
  <2>2. h \div P = q /\ h % P = r + 1  BY <1>2, <1>4, <2>1
  <2> QED  BY <1>2, <1>3, <2>2 DEF P, q
<1>6. CASE r = P - 1
  <2>1. h = P * (q + 1) + 0 /\ 0 \in 0..(P - 1) /\ q + 1 \in Nat  BY <1>1, <1>2, <1>6
  <2>2. h \div P = q + 1 /\ h % P = 0  BY <1>4, <2>1
  <2> QED  BY <1>2, <1>3, <2>2 DEF P, q
<1> QED  BY <1>1, <1>2, <1>5, <1>6

\* One target: what TargetsBounded says of it.
Bounded(target, k) ==
    /\ target <= Lesser(MaxTarget, OriginalTarget * 4^k)
    /\ (target + 1) * 4^k > OriginalTarget

\* An adjustment by a factor of four at most widens the bounds by four.
LEMMA AdjustedBounded ==
  ASSUME NEW k \in 0..MaxHeight, NEW t \in 1..MaxTarget, Bounded(t, k),
         NEW u \in MinNextTarget(t)..MaxNextTarget(t)
  PROVE  Bounded(u, k + 1)
<1> DEFINE p == 4^k
           O == OriginalTarget
<1>1. p \in Nat \ {0} /\ 4^(k + 1) = 4 * p  BY PowersOfFour
<1>2. O \in Nat /\ MaxTarget \in Nat  BY DifficultyAssumption
<1>3. u \in Nat /\ 4 * (u + 1) >= t + 1 /\ u <= 4 * t /\ u <= MaxTarget
  BY <1>2, RangeOfNextTarget DEF MinNextTarget, MaxNextTarget, Lesser
<1>4. t <= O * p /\ t <= MaxTarget /\ (t + 1) * p > O
  <2>1. O * p \in Nat  BY <1>1, <1>2
  <2> QED  BY <1>2, <2>1 DEF Bounded, Lesser
<1> HIDE DEF p, O
<1>5. u <= O * (4 * p)
  <2>1. O * (4 * p) = 4 * (O * p) /\ O * p \in Nat  BY <1>1, <1>2
  <2> QED  BY <1>3, <1>4, <2>1
<1>6. (u + 1) * (4 * p) > O
  <2>1. (4 * (u + 1)) * p >= (t + 1) * p
    <3>1. \A a, b \in Nat : a >= b => a * p >= b * p  BY <1>1
    <3>2. 4 * (u + 1) \in Nat /\ t + 1 \in Nat  BY <1>3
    <3> QED  BY <1>3, <3>1, <3>2
  <2>2. (u + 1) * (4 * p) = (4 * (u + 1)) * p /\ (t + 1) * p \in Nat /\ (u + 1) * (4 * p) \in Nat
    BY <1>1, <1>3
  <2> QED  BY <1>2, <1>4, <2>1, <2>2
<1> QED  BY <1>1, <1>3, <1>5, <1>6 DEF Bounded, Lesser, p, O

\* A block that VerifyBlock takes has a target of the net, within the bounds.
LEMMA NewTargetBounded ==
  ASSUME chain \in Seq(BoundedHeader), TargetsBounded, Len(chain) < MaxHeight,
         NEW b, b.target \in Nat, b.target > 0, TargetFollows(chain, b)
  PROVE  /\ b.target \in 1..MaxTarget
         /\ Bounded(b.target, (Len(chain) + 1) \div DifficultyPeriod)
         /\ chain # <<>> /\ (Len(chain) + 1) % DifficultyPeriod # 0 =>
              b.target = chain[Len(chain)].target
<1> DEFINE n == Len(chain)
           h == n + 1
           u == b.target
<1>1. n \in Nat /\ h \in Nat \ {0} /\ h - 1 = n /\ MaxHeight \in Nat
  BY MiningAssumption
<1>2. /\ DifficultyPeriod \in Nat /\ DifficultyPeriod >= 4
      /\ OriginalTarget \in 1..MaxTarget /\ MaxTarget \in Nat
  BY DifficultyAssumption
<1>3. CASE chain = <<>>
  <2>1. u = OriginalTarget /\ n = 0  BY <1>3 DEF TargetFollows
  <2>2. h \div DifficultyPeriod = 0  BY <1>2, <2>1
  <2>3. 4^0 = 1  OBVIOUS
  <2>4. Bounded(u, 0)
    BY <1>2, <2>1, <2>3 DEF Bounded, Lesser
  <2> QED  BY <1>2, <1>3, <2>1, <2>2, <2>4
<1>4. CASE chain # <<>>
  <2> DEFINE t == chain[n].target
             k == n \div DifficultyPeriod
  <2>1. n >= 1 /\ n \in DOMAIN chain /\ Last(chain) = chain[n] /\ t \in 1..MaxTarget
    <3>1. n # 0 /\ DOMAIN chain = 1..n  BY <1>4, EmptySeq, LenProperties
    <3>2. n \in DOMAIN chain /\ chain[n] \in BoundedHeader  BY <1>1, <3>1, ElementOfSeq
    <3> QED  BY <1>1, <3>1, <3>2 DEF Last, BoundedHeader
  <2>2. Bounded(t, k)  BY <2>1 DEF TargetsBounded, Bounded
  <2>3. /\ k \in 0..n /\ h \div DifficultyPeriod \in 0..h
        /\ h % DifficultyPeriod = 0 => h \div DifficultyPeriod = k + 1
        /\ h % DifficultyPeriod # 0 => h \div DifficultyPeriod = k
    BY <1>1, PeriodOf
  <2> HIDE DEF t, k
  <2>4. CASE h % DifficultyPeriod = 0
    <3>1. u \in MinNextTarget(t)..MaxNextTarget(t)
      BY <1>4, <2>1, <2>4 DEF TargetFollows, EndsPeriod, t
    <3>2. k \in 0..MaxHeight  BY <1>1, <2>3
    <3>3. Bounded(u, k + 1)  BY <2>1, <2>2, <3>1, <3>2, AdjustedBounded
    <3>4. u <= MaxTarget
      BY <1>2, <2>1, <3>1 DEF MinNextTarget, MaxNextTarget, Lesser
    <3> QED  BY <1>2, <2>3, <2>4, <3>3, <3>4
  <2>5. CASE h % DifficultyPeriod # 0
    <3>1. u = t  BY <1>4, <2>1, <2>5 DEF TargetFollows, EndsPeriod, t
    <3> QED  BY <2>1, <2>2, <2>3, <2>5, <3>1 DEF t
  <2> QED  BY <2>4, <2>5
<1> QED  BY <1>3, <1>4

-----------------------------------------------------------------------------
(* What the steps have in common *)

LEMMA ChainTyped ==
  ASSUME TypeOK
  PROVE  chain \in Seq(BoundedHeader) /\ Len(chain) \in Nat /\ MaxTarget \in Nat
<1>1. chain \in Seq([target : 1..MaxTarget, time : 0..MaxTime + Hour])  BY DEF TypeOK
<1>2. \A x \in 0..MaxTime + Hour : x \in Nat
  BY MiningAssumption, DifficultyAssumption
<1>3. [target : 1..MaxTarget, time : 0..MaxTime + Hour] \subseteq BoundedHeader
  BY <1>2 DEF BoundedHeader
<1>4. chain \in Seq(BoundedHeader)
  <2> DEFINE H == [target : 1..MaxTarget, time : 0..MaxTime + Hour]
  <2>1. chain \in Seq(H) /\ H \subseteq BoundedHeader  BY <1>1, <1>3
  <2> HIDE DEF H
  <2>2. Len(chain) \in Nat /\ chain \in [1..Len(chain) -> H]  BY <2>1, LenProperties
  <2>3. chain \in [1..Len(chain) -> BoundedHeader]  BY <2>1, <2>2
  <2> QED  BY <2>2, <2>3
<1> QED  BY <1>4, LenProperties, DifficultyAssumption

LEMMA NextTargetTyped ==
  ASSUME NEW c \in Seq(BoundedHeader), ~NextTargetPanics(c)
  PROVE  NextTarget(c) \in 0..MaxTarget
<1> DEFINE b == [target |-> NextTarget(c), time |-> 0]
<1>1. TargetFollows(c, b) /\ b.target = NextTarget(c)  BY NextTargetIsAccepted
<1>2. MaxTarget \in Nat /\ OriginalTarget \in 1..MaxTarget  BY DifficultyAssumption
<1>3. CASE c = <<>>  BY <1>2, <1>3 DEF NextTarget
<1>4. CASE c # <<>>
  <2>1. Last(c) \in BoundedHeader  
    <3>1. Len(c) \in DOMAIN c  BY <1>4, EmptySeq, LenProperties
    <3> QED  BY <3>1, ElementOfSeq, LenProperties DEF Last
  <2>2. Last(c).target \in 1..MaxTarget  BY <2>1 DEF BoundedHeader
  <2>3. \/ b.target \in MinNextTarget(Last(c).target)..MaxNextTarget(Last(c).target)
        \/ b.target = Last(c).target
    BY <1>1, <1>4 DEF TargetFollows
  <2>4. /\ MinNextTarget(Last(c).target) \in Nat
        /\ MaxNextTarget(Last(c).target) <= MaxTarget
    BY <1>2, <2>2 DEF MinNextTarget, MaxNextTarget, Lesser
  <2>5. MaxNextTarget(Last(c).target) \in Nat  BY <2>2, RangeOfNextTarget
  <2> HIDE DEF b
  <2>6. b.target \in 0..MaxTarget  BY <1>2, <2>2, <2>3, <2>4, <2>5
  <2> QED  BY <1>1, <2>6
<1> QED  BY <1>3, <1>4

\* The chain is the same or has grown: what was told stays current or is of a lower head.
LEMMA CurrentKept ==
  ASSUME TypeOK, NEW t, t.parent \in Nat, Current(chain, t),
         \/ chain' = chain
         \/ Len(chain') = Len(chain) + 1
  PROVE  Current(chain', t)
BY ChainTyped DEF Current

\* CreateMiningTarget tells what is current, or the node ends.
LEMMA CreateMiningTargetOK ==
  ASSUME TypeOK, ToldOK, CreateMiningTarget, running,
         chain' \in Seq(BoundedHeader), Len(chain') <= MaxHeight, mempool' \in 0..MaxTxs,
         \/ chain' = chain
         \/ Len(chain') = Len(chain) + 1
  PROVE  /\ targetQ' \in Seq(Target) /\ running' \in BOOLEAN
         /\ running' => ~NextTargetPanics(chain')
         /\ \A i \in DOMAIN targetQ' : Current(chain', targetQ'[i])
<1>1. targetQ \in Seq(Target)  BY DEF TypeOK
<1>2. DOMAIN targetQ = 1..Len(targetQ) /\ Len(targetQ) \in Nat /\ Len(chain') \in Nat
  BY <1>1, LenProperties
<1>3. \A i \in DOMAIN targetQ : Current(chain', targetQ[i])
  <2> SUFFICES ASSUME NEW i \in DOMAIN targetQ  PROVE Current(chain', targetQ[i])
    OBVIOUS
  <2>1. targetQ[i] \in Target  BY <1>1, <1>2, ElementOfSeq
  <2>2. targetQ[i].parent \in Nat  BY <2>1, MiningAssumption DEF Target
  <2> QED  BY <2>2, CurrentKept DEF ToldOK
<1>4. CASE NextTargetPanics(chain')
  BY <1>1, <1>3, <1>4 DEF CreateMiningTarget
<1>5. CASE ~NextTargetPanics(chain')
  <2> DEFINE t == [parent |-> Len(chain'), target |-> NextTarget(chain'), txs |-> mempool']
  <2>1. targetQ' = Append(targetQ, t) /\ running' = running
    BY <1>5 DEF CreateMiningTarget
  <2>2. NextTarget(chain') \in 0..MaxTarget  BY <1>5, NextTargetTyped
  <2>3. t \in Target  BY <1>2, <2>2, MiningAssumption DEF Target
  <2>4. Current(chain', t)  BY <1>2, <1>5 DEF Current
  <2> HIDE DEF t
  <2>5. /\ targetQ' \in Seq(Target) /\ DOMAIN targetQ' = 1..(Len(targetQ) + 1)
        /\ \A i \in 1..Len(targetQ) : targetQ'[i] = targetQ[i]
        /\ targetQ'[Len(targetQ) + 1] = t
    BY <1>1, <2>1, <2>3, AppendProperties
  <2>6. \A i \in DOMAIN targetQ' : Current(chain', targetQ'[i])
    <3>1. \A i \in DOMAIN targetQ' : i \in DOMAIN targetQ \/ i = Len(targetQ) + 1
      BY <1>2, <2>5
    <3> QED  BY <1>2, <1>3, <2>4, <2>5, <3>1
  <2> QED  BY <1>5, <2>1, <2>5, <2>6
<1> QED  BY <1>4, <1>5

MedianRises == chain # <<>> => MedianTime(chain') >= MedianTime(chain)

\* A block that VerifyBlock takes is on the head: the chain stays one of the net.
LEMMA AdoptOK ==
  ASSUME IInv, running, NEW b \in [target : Nat, time : Nat],
         VerifyHeader(chain, b, now), Adopt(b)
  PROVE  /\ chain' \in Seq([target : 1..MaxTarget, time : 0..MaxTime + Hour])
         /\ Len(chain') = Len(chain) + 1 /\ Len(chain') <= MaxHeight
         /\ mempool' \in 0..MaxTxs /\ TargetsBounded' /\ MedianRises
         /\ targetQ' \in Seq(Target) /\ running' \in BOOLEAN
         /\ running' => ~NextTargetPanics(chain')
         /\ \A i \in DOMAIN targetQ' : Current(chain', targetQ'[i])
<1> USE DEF IInv
<1> DEFINE H == [target : 1..MaxTarget, time : 0..MaxTime + Hour]
           n == Len(chain)
           h == n + 1
<1>1. /\ n < MaxHeight /\ chain' = Append(chain, b) /\ mempool' = 0 /\ CreateMiningTarget
      /\ Beatable(b) /\ NotInFuture(b, now) /\ TargetFollows(chain, b)
  BY DEF Adopt, VerifyHeader
<1>2. chain \in Seq(BoundedHeader) /\ n \in Nat  BY ChainTyped
<1>3. /\ b.target \in 1..MaxTarget
      /\ Bounded(b.target, h \div DifficultyPeriod)
      /\ chain # <<>> /\ h % DifficultyPeriod # 0 => b.target = chain[n].target
  BY <1>1, <1>2, NewTargetBounded DEF Beatable
<1>4. b \in H
  <2>1. now <= MaxTime /\ now \in Nat /\ MaxTime \in Nat /\ Hour \in Nat
    BY MiningAssumption, DifficultyAssumption DEF TypeOK
  <2>2. b.time \in 0..MaxTime + Hour  BY <1>1, <2>1 DEF NotInFuture
  <2> QED  BY <1>3, <2>2
<1>5. chain \in Seq(H)  BY DEF TypeOK
<1> HIDE DEF H
<1>6. /\ chain' \in Seq(H) /\ Len(chain') = h /\ DOMAIN chain' = 1..h /\ DOMAIN chain = 1..n
      /\ \A i \in 1..n : chain'[i] = chain[i]
      /\ chain'[h] = b
  BY <1>1, <1>4, <1>5, AppendProperties, LenProperties
<1>7. Len(chain') <= MaxHeight /\ mempool' \in 0..MaxTxs
  BY <1>1, <1>2, <1>6, MiningAssumption
<1>8. chain' \in Seq(BoundedHeader)
  <2>1. b \in BoundedHeader  BY <1>3 DEF BoundedHeader
  <2> QED  BY <1>1, <1>2, <2>1, AppendProperties
<1>9. TargetsBounded'
  <2> SUFFICES ASSUME NEW i \in 1..h
               PROVE  /\ i = 1 \/ i % DifficultyPeriod = 0
                         \/ chain'[i].target = chain'[i - 1].target
                      /\ Bounded(chain'[i].target, i \div DifficultyPeriod)
    BY <1>6 DEF TargetsBounded, Bounded
  <2>1. CASE i \in 1..n
    <3>1. /\ i = 1 \/ i % DifficultyPeriod = 0 \/ chain[i].target = chain[i - 1].target
          /\ Bounded(chain[i].target, i \div DifficultyPeriod)
      BY <1>6, <2>1 DEF TargetsBounded, Bounded
    <3>2. i = 1 \/ i - 1 \in 1..n  BY <1>2, <2>1
    <3> QED  BY <1>6, <2>1, <3>1, <3>2
  <2>2. CASE i = h
    <3>1. i = 1 \/ (n \in 1..n /\ chain # <<>>)
      <4>1. Len(<<>>) = 0  OBVIOUS
      <4>2. CASE n = 0  BY <2>2, <4>2
      <4>3. CASE n # 0  BY <1>2, <4>1, <4>3
      <4> QED  BY <4>2, <4>3
    <3>2. i - 1 = n  BY <1>2, <2>2
    <3> QED  BY <1>3, <1>6, <2>2, <3>1, <3>2
  <2> QED  BY <1>2, <2>1, <2>2
<1>10. /\ targetQ' \in Seq(Target) /\ running' \in BOOLEAN
       /\ running' => ~NextTargetPanics(chain')
       /\ \A i \in DOMAIN targetQ' : Current(chain', targetQ'[i])
  BY <1>1, <1>6, <1>7, <1>8, CreateMiningTargetOK
<1>11. MedianRises
  <2>1. b \in BoundedHeader  BY <1>3 DEF BoundedHeader
  <2> QED  BY <1>1, <1>2, <2>1, MedianOnlyRises DEF MedianRises, VerifyHeader
<1> QED  BY <1>6, <1>7, <1>9, <1>10, <1>11 DEF H

-----------------------------------------------------------------------------
(* The invariant *)

LEMMA InitOK == Init => IInv
<1> SUFFICES ASSUME Init  PROVE IInv
  OBVIOUS
<1> DEFINE t == [parent |-> 0, target |-> NextTarget(<<>>), txs |-> 0]
<1>1. /\ now \in 0..1 /\ chain = <<>> /\ mempool = 0 /\ running = TRUE
      /\ targetQ = <<t>> /\ template = NoTemplate /\ solutionQ = <<>>
  BY DEF Init
<1>2. t \in Target /\ Current(<<>>, t)
  <2>1. NextTarget(<<>>) \in 0..MaxTarget  BY DifficultyAssumption DEF NextTarget
  <2>2. ~NextTargetPanics(<<>>) /\ Len(<<>>) = 0  BY DEF NextTargetPanics
  <2> QED  BY <2>1, <2>2, MiningAssumption DEF Target, Current
<1> HIDE DEF t
<1>3. TypeOK
  <2>1. now \in 0..MaxTime /\ mempool \in 0..MaxTxs /\ running \in BOOLEAN
    BY <1>1, MiningAssumption
  <2>2. /\ chain \in Seq([target : 1..MaxTarget, time : 0..MaxTime + Hour])
        /\ Len(chain) <= MaxHeight
    <3>1. Len(chain) = 0  BY <1>1
    <3> QED  BY <1>1, <3>1, MiningAssumption
  <2>3. targetQ \in Seq(Target) /\ solutionQ \in Seq(Template)  BY <1>1, <1>2
  <2> QED  BY <1>1, <2>1, <2>2, <2>3 DEF TypeOK
<1>4. TargetsBounded  BY <1>1 DEF TargetsBounded
<1>5. ToldOK
  <2>1. ~NextTargetPanics(chain)  BY <1>1 DEF NextTargetPanics
  <2>2. \A i \in DOMAIN targetQ : targetQ[i] = t  BY <1>1
  <2>3. \A i \in DOMAIN targetQ : Current(chain, targetQ[i])  BY <1>1, <1>2, <2>2
  <2>4. DOMAIN solutionQ = {}  BY <1>1
  <2> QED  BY <1>1, <2>1, <2>3, <2>4 DEF ToldOK
<1> QED  BY <1>3, <1>4, <1>5 DEF IInv

LEMMA SolutionsTyped ==
  ASSUME TypeOK, NEW i \in DOMAIN solutionQ
  PROVE  solutionQ[i] \in Template /\ solutionQ[i].time \in Nat /\ solutionQ[i].parent \in Nat
<1>1. solutionQ \in Seq(Template)  BY DEF TypeOK
<1>2. solutionQ[i] \in Template  BY <1>1, ElementOfSeq, LenProperties
<1> QED  BY <1>2, MiningAssumption DEF Template

LEMMA TickOK ==
  ASSUME IInv, Tick
  PROVE  IInv'
<1> USE DEF IInv
<1>1. /\ now < MaxTime /\ now' = now + 1
      /\ UNCHANGED <<chain, mempool, running, targetQ, template, solutionQ>>
  BY DEF Tick
<1>2. now' \in 0..MaxTime /\ now \in Nat  BY <1>1, MiningAssumption DEF TypeOK
<1>3. TypeOK'  BY <1>1, <1>2 DEF TypeOK
<1>4. TargetsBounded'  BY <1>1 DEF TargetsBounded
<1>5. ToldOK'
  <2>1. template # NoTemplate => template.time <= now'
    <3> SUFFICES ASSUME template # NoTemplate  PROVE template.time <= now'
      OBVIOUS
    <3>1. template.time \in Nat  BY DEF TypeOK, Template
    <3>2. template.time <= now  BY DEF ToldOK
    <3> QED  BY <1>1, <1>2, <3>1, <3>2
  <2>2. \A i \in DOMAIN solutionQ : solutionQ[i].time <= now'
    <3> SUFFICES ASSUME NEW i \in DOMAIN solutionQ  PROVE solutionQ[i].time <= now'
      OBVIOUS
    <3>1. solutionQ[i].time \in Nat  BY SolutionsTyped
    <3>2. solutionQ[i].time <= now  BY DEF ToldOK
    <3> QED  BY <1>1, <1>2, <3>1, <3>2
  <2> QED  BY <1>1, <2>1, <2>2 DEF ToldOK
<1> QED  BY <1>3, <1>4, <1>5

\* What the miner has is of the chain as it was, or of a lower head.
LEMMA MinerKept ==
  ASSUME IInv, UNCHANGED <<now, template>>,
         \/ chain' = chain
         \/ Len(chain') = Len(chain) + 1
  PROVE  template' # NoTemplate => Current(chain', template') /\ template'.time <= now'
<1> USE DEF IInv
<1> SUFFICES ASSUME template # NoTemplate
             PROVE  Current(chain', template) /\ template.time <= now
  OBVIOUS
<1>1. template.parent \in Nat  BY MiningAssumption DEF TypeOK, Template
<1>2. Current(chain, template) /\ template.time <= now  BY DEF ToldOK
<1> QED  BY <1>1, <1>2, CurrentKept

LEMMA SolutionsKept ==
  ASSUME IInv, now' = now,
         \/ chain' = chain
         \/ Len(chain') = Len(chain) + 1
  PROVE  \A i \in DOMAIN solutionQ :
            /\ Beatable(HeaderOf(solutionQ[i]))
            /\ Current(chain', solutionQ[i]) /\ solutionQ[i].time <= now'
<1> USE DEF IInv
<1> SUFFICES ASSUME NEW i \in DOMAIN solutionQ
             PROVE  /\ Beatable(HeaderOf(solutionQ[i]))
                    /\ Current(chain', solutionQ[i]) /\ solutionQ[i].time <= now'
  OBVIOUS
<1>1. /\ Beatable(HeaderOf(solutionQ[i]))
      /\ Current(chain, solutionQ[i]) /\ solutionQ[i].time <= now
  BY DEF ToldOK
<1> QED  BY <1>1, SolutionsTyped, CurrentKept

LEMMA SameMedian ==
  ASSUME IInv, chain' = chain
  PROVE  MedianRises
<1> SUFFICES ASSUME chain # <<>>  PROVE MedianTime(chain) >= MedianTime(chain)
  BY DEF MedianRises
<1>1. MedianTime(chain) \in Nat
  <2>1. chain \in Seq(BoundedHeader)  BY ChainTyped DEF IInv
  <2>2. /\ Lesser(Len(chain), 5) \in Nat \ {0}
        /\ LastTimes(chain) \in [1..Lesser(Len(chain), 5) -> Nat]
    BY <2>1, LastTimesFacts
  <2> QED  BY <2>2, MedianFacts DEF MedianTime, MedianOf
<1> QED  BY <1>1

LEMMA RemoteBlockOK ==
  ASSUME IInv, RemoteBlock
  PROVE  IInv' /\ MedianRises
<1> USE DEF IInv
<1>1. running /\ UNCHANGED <<now, template, solutionQ>>  BY DEF RemoteBlock
<1>2. PICK target \in 1..HashMax, time \in 0..now + Hour :
        LET b == [target |-> target, time |-> time] IN VerifyHeader(chain, b, now) /\ Adopt(b)
  BY DEF RemoteBlock
<1> DEFINE b == [target |-> target, time |-> time]
<1>3. b \in [target : Nat, time : Nat]
  <2>1. time \in Nat /\ target \in Nat  BY DifficultyAssumption DEF TypeOK
  <2> QED  BY <2>1
<1>4. VerifyHeader(chain, b, now) /\ Adopt(b)  BY <1>2
<1> HIDE DEF b
<1>5. /\ chain' \in Seq([target : 1..MaxTarget, time : 0..MaxTime + Hour])
      /\ Len(chain') = Len(chain) + 1 /\ Len(chain') <= MaxHeight
      /\ mempool' \in 0..MaxTxs /\ TargetsBounded' /\ MedianRises
      /\ targetQ' \in Seq(Target) /\ running' \in BOOLEAN
      /\ running' => ~NextTargetPanics(chain')
      /\ \A i \in DOMAIN targetQ' : Current(chain', targetQ'[i])
  BY <1>1, <1>3, <1>4, AdoptOK
<1>6. TypeOK'  BY <1>1, <1>5 DEF TypeOK
<1>7. ToldOK'  BY <1>1, <1>5, MinerKept, SolutionsKept DEF ToldOK
<1> QED  BY <1>5, <1>6, <1>7

LEMMA RemoteTxOK ==
  ASSUME IInv, RemoteTx
  PROVE  IInv'
<1> USE DEF IInv
<1>1. /\ running /\ mempool < MaxTxs /\ mempool' = mempool + 1
      /\ CreateMiningTarget /\ UNCHANGED <<now, chain, template, solutionQ>>
  BY DEF RemoteTx
<1>2. mempool' \in 0..MaxTxs  BY <1>1, MiningAssumption DEF TypeOK
<1>3. chain' \in Seq(BoundedHeader) /\ Len(chain') <= MaxHeight
  BY <1>1, ChainTyped DEF TypeOK
<1>4. /\ targetQ' \in Seq(Target) /\ running' \in BOOLEAN
      /\ running' => ~NextTargetPanics(chain')
      /\ \A i \in DOMAIN targetQ' : Current(chain', targetQ'[i])
  BY <1>1, <1>2, <1>3, CreateMiningTargetOK
<1>5. TypeOK'  BY <1>1, <1>2, <1>4 DEF TypeOK
<1>6. ToldOK'  BY <1>1, <1>4, MinerKept, SolutionsKept DEF ToldOK
<1>7. TargetsBounded'  BY <1>1 DEF TargetsBounded
<1> QED  BY <1>5, <1>6, <1>7

\* The template is made of a target that is current, or of a lower head.
LEMMA UpdateTemplateOK ==
  ASSUME IInv, UpdateTemplate
  PROVE  IInv'
<1> USE DEF IInv
<1> DEFINE t == Head(targetQ)
<1>1. /\ targetQ # <<>> /\ targetQ' = Tail(targetQ)
      /\ template' = [parent |-> t.parent, target |-> t.target, time |-> now, txs |-> t.txs]
      /\ UNCHANGED <<now, chain, mempool, running, solutionQ>>
  BY DEF UpdateTemplate
<1>2. targetQ \in Seq(Target)  BY DEF TypeOK
<1>3. /\ t \in Target /\ targetQ' \in Seq(Target) /\ Len(targetQ) \in Nat \ {0}
      /\ t = targetQ[1] /\ DOMAIN targetQ = 1..Len(targetQ)
      /\ DOMAIN targetQ' = 1..(Len(targetQ) - 1)
      /\ \A i \in DOMAIN targetQ' : targetQ'[i] = targetQ[i + 1]
  BY <1>1, <1>2, HeadTailProperties, LenProperties, EmptySeq
<1>4. Current(chain, t)
  <2>1. 1 \in DOMAIN targetQ  BY <1>3
  <2> QED  BY <1>3, <2>1 DEF ToldOK
<1> HIDE DEF t
<1>5. template' \in Template
  <2>1. now \in Nat  BY DEF TypeOK
  <2>2. t.parent \in 0..MaxHeight /\ t.target \in 0..MaxTarget /\ t.txs \in 0..MaxTxs
    BY <1>3 DEF Target
  <2> QED  BY <1>1, <2>1, <2>2 DEF Template
<1>6. TypeOK'  BY <1>1, <1>3, <1>5 DEF TypeOK
<1>7. Current(chain, template') /\ template'.time <= now
  <2>1. now \in Nat  BY DEF TypeOK
  <2>2. template'.parent = t.parent /\ template'.target = t.target /\ template'.time = now
    BY <1>1
  <2> QED  BY <1>4, <2>1, <2>2 DEF Current
<1>8. \A i \in DOMAIN targetQ' : Current(chain, targetQ'[i])
  <2>1. \A i \in DOMAIN targetQ' : i + 1 \in DOMAIN targetQ  BY <1>3
  <2> QED  BY <1>3, <2>1 DEF ToldOK
<1>9. ToldOK'  BY <1>1, <1>7, <1>8 DEF ToldOK
<1>10. TargetsBounded'  BY <1>1 DEF TargetsBounded
<1> QED  BY <1>6, <1>9, <1>10

LEMMA PublishSolutionOK ==
  ASSUME IInv, PublishSolution
  PROVE  IInv'
<1> USE DEF IInv
<1>1. /\ template # NoTemplate /\ Beatable(HeaderOf(template))
      /\ solutionQ' = Append(solutionQ, template)
      /\ UNCHANGED <<now, chain, mempool, running, targetQ, template>>
  BY DEF PublishSolution
<1>2. solutionQ \in Seq(Template) /\ template \in Template  BY <1>1 DEF TypeOK
<1>3. /\ solutionQ' \in Seq(Template) /\ DOMAIN solutionQ = 1..Len(solutionQ)
      /\ DOMAIN solutionQ' = 1..(Len(solutionQ) + 1) /\ Len(solutionQ) \in Nat
      /\ \A i \in 1..Len(solutionQ) : solutionQ'[i] = solutionQ[i]
      /\ solutionQ'[Len(solutionQ) + 1] = template
  BY <1>1, <1>2, AppendProperties, LenProperties
<1>4. \A i \in DOMAIN solutionQ' :
        /\ Beatable(HeaderOf(solutionQ'[i]))
        /\ Current(chain, solutionQ'[i]) /\ solutionQ'[i].time <= now
  <2>1. \A i \in DOMAIN solutionQ' : i \in DOMAIN solutionQ \/ i = Len(solutionQ) + 1
    BY <1>3
  <2> QED  BY <1>1, <1>3, <2>1 DEF ToldOK
<1>5. TypeOK'  BY <1>1, <1>3 DEF TypeOK
<1>6. ToldOK'  BY <1>1, <1>4 DEF ToldOK
<1>7. TargetsBounded'  BY <1>1 DEF TargetsBounded
<1> QED  BY <1>5, <1>6, <1>7

LEMMA HandleSolutionOK ==
  ASSUME IInv, HandleSolution
  PROVE  IInv' /\ MedianRises
<1> USE DEF IInv
<1> DEFINE t == Head(solutionQ)
           b == HeaderOf(t)
<1>1. /\ running /\ solutionQ # <<>> /\ solutionQ' = Tail(solutionQ)
      /\ UNCHANGED <<now, template>>
      /\ \/ VerifyHeader(chain, b, now) /\ Adopt(b)
         \/ UNCHANGED <<chain, mempool, running, targetQ>>
  BY DEF HandleSolution
<1>2. solutionQ \in Seq(Template)  BY DEF TypeOK
<1>3. /\ t \in Template /\ solutionQ' \in Seq(Template)
      /\ Len(solutionQ) \in Nat /\ DOMAIN solutionQ = 1..Len(solutionQ)
      /\ DOMAIN solutionQ' = 1..(Len(solutionQ) - 1)
      /\ \A i \in DOMAIN solutionQ' : solutionQ'[i] = solutionQ[i + 1]
  BY <1>1, <1>2, HeadTailProperties, LenProperties, EmptySeq
<1>4. ASSUME \/ chain' = chain
             \/ Len(chain') = Len(chain) + 1
      PROVE  \A i \in DOMAIN solutionQ' :
                /\ Beatable(HeaderOf(solutionQ'[i]))
                /\ Current(chain', solutionQ'[i]) /\ solutionQ'[i].time <= now'
  <2>1. \A i \in DOMAIN solutionQ' : i + 1 \in DOMAIN solutionQ  BY <1>3
  <2> QED  BY <1>1, <1>3, <1>4, <2>1, SolutionsKept
<1>5. b \in [target : Nat, time : Nat]
  <2>1. t.target \in 0..MaxTarget /\ t.time \in Nat  BY <1>3 DEF Template
  <2> QED  BY <2>1, DifficultyAssumption DEF HeaderOf
<1> HIDE DEF b, t
<1>6. CASE VerifyHeader(chain, b, now) /\ Adopt(b)
  <2>1. /\ chain' \in Seq([target : 1..MaxTarget, time : 0..MaxTime + Hour])
        /\ Len(chain') = Len(chain) + 1 /\ Len(chain') <= MaxHeight
        /\ mempool' \in 0..MaxTxs /\ TargetsBounded' /\ MedianRises
        /\ targetQ' \in Seq(Target) /\ running' \in BOOLEAN
        /\ running' => ~NextTargetPanics(chain')
        /\ \A i \in DOMAIN targetQ' : Current(chain', targetQ'[i])
    BY <1>1, <1>5, <1>6, AdoptOK
  <2>2. TypeOK'  BY <1>1, <1>3, <2>1 DEF TypeOK
  <2>3. ToldOK'  BY <1>1, <1>4, <2>1, MinerKept DEF ToldOK
  <2> QED  BY <2>1, <2>2, <2>3
<1>7. CASE UNCHANGED <<chain, mempool, running, targetQ>>
  <2>1. TypeOK'  BY <1>1, <1>3, <1>7 DEF TypeOK
  <2>2. ToldOK'  BY <1>1, <1>4, <1>7 DEF ToldOK
  <2>3. TargetsBounded'  BY <1>7 DEF TargetsBounded
  <2>4. MedianRises  BY <1>7, SameMedian
  <2> QED  BY <2>1, <2>2, <2>3, <2>4
<1> QED  BY <1>1, <1>6, <1>7

LEMMA Invariance == Spec => []IInv
<1>1. Init => IInv  BY InitOK
<1>2. IInv /\ [Next]_vars => IInv'
  <2> SUFFICES ASSUME IInv, [Next]_vars  PROVE IInv'
    OBVIOUS
  <2>1. CASE Next
    BY <2>1, TickOK, RemoteBlockOK, RemoteTxOK, UpdateTemplateOK, PublishSolutionOK,
       HandleSolutionOK DEF Next
  <2>2. CASE UNCHANGED vars
    BY <2>2 DEF IInv, TypeOK, TargetsBounded, ToldOK, vars
  <2> QED  BY <2>1, <2>2
<1> QED  BY <1>1, <1>2, PTL DEF Spec

\* The fields of the miner and of the chain keep their types: in particular every target
\* on the chain, told to the miner or in its template is at most the net's MaxTarget.
THEOREM TypeCorrect == Spec => []TypeOK
<1>1. IInv => TypeOK  BY DEF IInv
<1> QED  BY <1>1, Invariance, PTL

\* Whatever targets and times the blocks of other nodes have, VerifyBlock keeps one
\* target in a period, and after k adjustments within 4^k of the original.
THEOREM TargetsStayBounded == Spec => []TargetsBounded
<1>1. IInv => TargetsBounded  BY DEF IInv
<1> QED  BY <1>1, Invariance, PTL

\* Of the blocks of the node's own miner that are on the head, VerifyBlock refuses none but
\* those whose time is not above the median: whatever targets, blocks and transactions came
\* since the template was made, its target is the one demanded, its time is not in the
\* future, and so for the solutions that still wait.
THEOREM OwnBlocksRefusedForMedianOnly == Spec => []OwnBlocksVerify
<1>1. IInv => OwnBlocksVerify
  <2> SUFFICES ASSUME IInv, NEW t \in ({template} \ {NoTemplate}) \cup ToSet(solutionQ),
                      OnHead(t), Beatable(HeaderOf(t)), AboveMedian(chain, HeaderOf(t))
               PROVE  VerifyHeader(chain, HeaderOf(t), now)
    BY DEF OwnBlocksVerify
  <2>1. t \in Template /\ Current(chain, t) /\ t.time <= now
    <3>1. CASE t = template /\ template # NoTemplate
      BY <3>1 DEF IInv, TypeOK, ToldOK
    <3>2. CASE t \in ToSet(solutionQ)
      <4>1. PICK i \in DOMAIN solutionQ : t = solutionQ[i]  BY <3>2 DEF ToSet
      <4> QED  BY <4>1, SolutionsTyped DEF IInv, ToldOK
    <3> QED  BY <3>1, <3>2
  <2>2. t.time \in Nat /\ now \in Nat  BY <2>1 DEF IInv, TypeOK, Template
  <2>3. ~NextTargetPanics(chain) /\ t.target = NextTarget(chain)
    BY <2>1 DEF Current, OnHead
  <2>4. HeaderOf(t) = [target |-> NextTarget(chain), time |-> t.time]
    BY <2>3 DEF HeaderOf
  <2>5. TargetFollows(chain, HeaderOf(t))
    BY <2>2, <2>3, <2>4, ChainTyped, NextTargetIsAccepted DEF IInv
  <2>6. NotInFuture(HeaderOf(t), now)
    BY <2>1, <2>2, DifficultyAssumption DEF NotInFuture, HeaderOf
  <2>7. AfterFirstInPeriod(chain, HeaderOf(t))
    <3>1. Len(chain) \in Nat  BY ChainTyped DEF IInv
    <3>2. 1 % DifficultyPeriod \in Nat  BY DifficultyAssumption
    <3> QED  BY <3>1, <3>2 DEF AfterFirstInPeriod, IsLastInPeriod
  <2> QED  BY <2>5, <2>6, <2>7 DEF VerifyHeader
<1> QED  BY <1>1, Invariance, PTL

\* Every block that the chain takes has a time above the median of the last five, and so
\* that median never falls, though times do and the oldest of the five drops out.
THEOREM MedianIsMonotone == Spec => MedianNeverFalls
<1>1. IInv /\ [Next]_vars => [MedianRises]_chain
  <2> SUFFICES ASSUME IInv, [Next]_vars, chain' # chain  PROVE MedianRises
    OBVIOUS
  <2> QED
    BY RemoteBlockOK, HandleSolutionOK
       DEF Next, vars, Tick, RemoteTx, UpdateTemplate, PublishSolution
<1>2. MedianNeverFalls <=> [][MedianRises]_chain  BY DEF MedianNeverFalls, MedianRises
<1> QED  BY <1>1, <1>2, Invariance, PTL DEF Spec

=============================================================================
