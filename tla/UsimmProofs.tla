----------------------------- MODULE UsimmProofs -----------------------------
(***************************************************************************)
(* Theorems about Usimm with any scheduler: the queues and the cores keep  *)
(* their promises whatever schedule() does, and all of it reaches the DRAM *)
(* as a scheduler of Dram that leaves the refreshes to the controller.     *)
(***************************************************************************)
EXTENDS Usimm, DramProofs, FiniteSetTheorems, WellFoundedInduction

-----------------------------------------------------------------------------
\* Smallest elements, in place of inductions.

LEMMA LeastNatural ==
  ASSUME NEW S, S \subseteq Nat, S # {}
  PROVE  \E m \in S : \A n \in S : m <= n
<1>1. IsWellFoundedOn(OpToRel(<, Nat), Nat)
  BY NatLessThanWellFounded
<1>2. PICK m \in S : \A n \in S : ~(<<n, m>> \in OpToRel(<, Nat))
  BY <1>1, WFMin
<1>3. ASSUME NEW k \in S PROVE m <= k
  <2>1. ~(k < m)
    BY <1>2 DEF OpToRel
  <2> QED BY <2>1
<1> QED BY <1>3

LEMMA LargestBelow ==
  ASSUME NEW n \in Nat, NEW S, S \subseteq 0 .. n, S # {}
  PROVE  \E m \in S : \A k \in S : k <= m
<1> DEFINE Gaps == {n - k : k \in S}
<1>1. Gaps \subseteq Nat
  OBVIOUS
<1>2. Gaps # {}
  OBVIOUS
<1>3. PICK gap \in Gaps : \A other \in Gaps : gap <= other
  <2> HIDE DEF Gaps
  <2> QED BY <1>1, <1>2, LeastNatural
<1>4. PICK m \in S : gap = n - m
  BY <1>3
<1>5. ASSUME NEW i \in S PROVE i <= m
  <2>1. n - i \in Gaps
    OBVIOUS
  <2>2. n - m <= n - i
    BY <1>3, <1>4, <2>1
  <2> QED BY <2>2
<1> QED BY <1>5

-----------------------------------------------------------------------------
\* Powers of two.

\* The recursive equation of Pow2, up to n.
PowersUpTo(n, f) ==
  f = [k \in 0 .. n |-> IF k = 0 THEN 1 ELSE 2 * f[k - 1]]

LEMMA PowersExist ==
  ASSUME NEW n \in Nat PROVE \E f : PowersUpTo(n, f)
<1> DEFINE Undefined == {k \in Nat : ~ \E f : PowersUpTo(k, f)}
<1> SUFFICES ASSUME Undefined # {} PROVE FALSE
  BY DEF Undefined
<1>1. PICK m \in Undefined : \A k \in Undefined : m <= k
  <2>1. Undefined \subseteq Nat
    BY DEF Undefined
  <2> HIDE DEF Undefined
  <2> QED BY <2>1, LeastNatural
<1>2. m # 0
  <2>1. PowersUpTo(0, [k \in 0 .. 0 |-> 1])
    BY DEF PowersUpTo
  <2> QED BY <2>1 DEF Undefined
<1>3. m \in Nat /\ m - 1 \in Nat /\ m - 1 \notin Undefined
  BY <1>1, <1>2
<1>4. PICK f : PowersUpTo(m - 1, f)
  BY <1>3 DEF Undefined
<1> DEFINE g == [k \in 0 .. m |-> IF k = m THEN 2 * f[m - 1] ELSE f[k]]
           h == [k \in 0 .. m |-> IF k = 0 THEN 1 ELSE 2 * g[k - 1]]
<1>5. ASSUME NEW k \in 0 .. m PROVE g[k] = h[k]
  <2>1. CASE k = 0
    <3>1. 0 \in 0 .. m - 1 /\ f[0] = 1
      BY <1>3, <1>4 DEF PowersUpTo
    <3> QED BY <2>1, <1>2, <3>1
  <2>2. CASE k # 0
    <3>1. k - 1 \in 0 .. m - 1 /\ k - 1 \in 0 .. m /\ k - 1 # m
      BY <1>3, <2>2
    <3>2. g[k - 1] = f[k - 1]
      BY <3>1
    <3>3. g[k] = 2 * f[k - 1]
      <4>1. CASE k = m
        BY <4>1
      <4>2. CASE k # m
        <5>1. k \in 0 .. m - 1
          BY <1>3, <4>2
        <5> QED BY <1>4, <2>2, <4>2, <5>1 DEF PowersUpTo
      <4> QED BY <4>1, <4>2
    <3> QED BY <2>2, <3>2, <3>3
  <2> QED BY <2>1, <2>2
<1>6. PowersUpTo(m, g)
  BY <1>5 DEF PowersUpTo
<1> QED BY <1>6 DEF Undefined

LEMMA PowersUnique ==
  ASSUME NEW m \in Nat, NEW n \in Nat, NEW f, NEW g, PowersUpTo(m, f), PowersUpTo(n, g),
         NEW k \in Nat, k <= m, k <= n
  PROVE  f[k] = g[k]
<1> DEFINE Differ == {i \in Nat : i <= m /\ i <= n /\ f[i] # g[i]}
<1> SUFFICES ASSUME Differ # {} PROVE FALSE
  OBVIOUS
<1>1. PICK i \in Differ : \A j \in Differ : i <= j
  <2>1. Differ \subseteq Nat
    OBVIOUS
  <2> HIDE DEF Differ
  <2> QED BY <2>1, LeastNatural
<1>2. i \in 0 .. m /\ i \in 0 .. n /\ f[i] # g[i]
  BY <1>1
<1>3. i # 0
  BY <1>2 DEF PowersUpTo
<1>4. i - 1 \notin Differ
  BY <1>1, <1>2, <1>3
<1>5. f[i - 1] = g[i - 1]
  BY <1>2, <1>3, <1>4
<1> QED BY <1>2, <1>3, <1>5 DEF PowersUpTo

LEMMA PowersEquation ==
  \A n \in Nat : Pow2[n] = IF n = 0 THEN 1 ELSE 2 * Pow2[n - 1]
<1> DEFINE Upto(n) == CHOOSE f : PowersUpTo(n, f)
           f == [n \in Nat |-> Upto(n)[n]]
           g == [n \in Nat |-> IF n = 0 THEN 1 ELSE 2 * f[n - 1]]
<1>1. \A n \in Nat : PowersUpTo(n, Upto(n))
  BY PowersExist
<1>2. ASSUME NEW n \in Nat PROVE f[n] = g[n]
  <2>1. Upto(n)[n] = IF n = 0 THEN 1 ELSE 2 * Upto(n)[n - 1]
    <3> HIDE DEF Upto
    <3>1. PowersUpTo(n, Upto(n)) /\ n \in 0 .. n
      BY <1>1
    <3> QED BY <3>1 DEF PowersUpTo
  <2>2. CASE n = 0
    BY <2>1, <2>2
  <2>3. CASE n # 0
    <3>1. n - 1 \in Nat /\ n - 1 <= n /\ n - 1 <= n - 1
      BY <2>3
    <3>2. PowersUpTo(n, Upto(n)) /\ PowersUpTo(n - 1, Upto(n - 1))
      BY <1>1, <3>1
    <3> HIDE DEF Upto
    <3>3. Upto(n)[n - 1] = Upto(n - 1)[n - 1]
      BY <3>1, <3>2, PowersUnique
    <3> QED BY <2>1, <2>3, <3>1, <3>3
  <2> QED BY <2>2, <2>3
<1>3. \E p : p = [n \in Nat |-> IF n = 0 THEN 1 ELSE 2 * p[n - 1]]
  <2> HIDE DEF Upto
  <2>1. f = g
    BY <1>2
  <2> QED BY <2>1
<1> QED BY <1>3 DEF Pow2

LEMMA PowersType == \A n \in Nat : Pow2[n] \in Nat \ {0}
<1> DEFINE Bad == {n \in Nat : Pow2[n] \notin Nat \ {0}}
<1> SUFFICES ASSUME Bad # {} PROVE FALSE
  OBVIOUS
<1>1. PICK m \in Bad : \A n \in Bad : m <= n
  <2>1. Bad \subseteq Nat
    OBVIOUS
  <2> HIDE DEF Bad
  <2> QED BY <2>1, LeastNatural
<1>2. CASE m = 0
  BY <1>1, <1>2, PowersEquation
<1>3. CASE m # 0
  <2>1. m - 1 \in Nat /\ Pow2[m - 1] \in Nat \ {0}
    BY <1>1, <1>3
  <2>2. Pow2[m] = 2 * Pow2[m - 1]
    BY <1>1, <1>3, PowersEquation
  <2> QED BY <1>1, <2>1, <2>2
<1> QED BY <1>2, <1>3

LEMMA PowersNext == \A n \in Nat : Pow2[n + 1] = 2 * Pow2[n]
<1>1. TAKE n \in Nat
<1>2. n + 1 \in Nat /\ n + 1 # 0 /\ (n + 1) - 1 = n
  OBVIOUS
<1> QED BY <1>2, PowersEquation

LEMMA PowersSum ==
  ASSUME NEW m \in Nat, NEW n \in Nat
  PROVE  Pow2[m + n] = Pow2[m] * Pow2[n]
<1> DEFINE Bad == {k \in Nat : Pow2[m + k] # Pow2[m] * Pow2[k]}
<1> SUFFICES ASSUME Bad # {} PROVE FALSE
  OBVIOUS
<1>1. PICK k \in Bad : \A j \in Bad : k <= j
  <2>1. Bad \subseteq Nat
    OBVIOUS
  <2> HIDE DEF Bad
  <2> QED BY <2>1, LeastNatural
<1>2. k \in Nat /\ Pow2[m + k] # Pow2[m] * Pow2[k]
  BY <1>1
<1>3. CASE k = 0
  <2>1. Pow2[0] = 1 /\ Pow2[m] \in Nat /\ m + 0 = m
    BY PowersEquation, PowersType
  <2> QED BY <1>2, <1>3, <2>1
<1>4. CASE k # 0
  <2>1. k - 1 \in Nat /\ (k - 1) + 1 = k /\ m + (k - 1) \in Nat /\ (m + (k - 1)) + 1 = m + k
    BY <1>2, <1>4
  <2>2. k - 1 \notin Bad
    BY <1>1, <1>2, <1>4
  <2>3. Pow2[m + (k - 1)] = Pow2[m] * Pow2[k - 1]
    BY <2>1, <2>2
  <2>4. Pow2[m + k] = 2 * Pow2[m + (k - 1)] /\ Pow2[k] = 2 * Pow2[k - 1]
    BY <2>1, PowersNext
  <2>5. Pow2[m] \in Nat /\ Pow2[k - 1] \in Nat
    BY <2>1, PowersType
  <2>6. \A a, b \in Nat : 2 * (a * b) = a * (2 * b)
    OBVIOUS
  <2> QED BY <1>2, <2>3, <2>4, <2>5, <2>6
<1> QED BY <1>3, <1>4

LEMMA PowersGrow ==
  ASSUME NEW m \in Nat, NEW n \in Nat, m < n
  PROVE  Pow2[m] < Pow2[n]
<1>1. n - m \in Nat /\ n - m # 0 /\ n = m + (n - m)
  OBVIOUS
<1>2. Pow2[n - m] >= 2
  <2>1. Pow2[n - m] = 2 * Pow2[(n - m) - 1] /\ (n - m) - 1 \in Nat
    BY <1>1, PowersEquation
  <2>2. Pow2[(n - m) - 1] \in Nat \ {0}
    BY <2>1, PowersType
  <2> QED BY <2>1, <2>2
<1>3. Pow2[n] = Pow2[m] * Pow2[n - m]
  BY <1>1, PowersSum
<1>4. \A a, b \in Nat : a # 0 /\ b >= 2 => a < a * b
  OBVIOUS
<1> QED BY <1>1, <1>2, <1>3, <1>4, PowersType

\* log_base2 of a power of two is its exponent.
LEMMA LogOfPower ==
  ASSUME NEW e \in 0 .. 31
  PROVE  LogBase2(Pow2[e]) = e
<1> DEFINE P(i) == Pow2[i] <= Pow2[e] /\ Pow2[e] < Pow2[i + 1]
<1>1. P(e)
  BY PowersType, PowersGrow
<1>2. ASSUME NEW i \in 0 .. 31, P(i) PROVE i = e
  <2>1. Pow2[i] \in Nat /\ Pow2[e] \in Nat /\ Pow2[i + 1] \in Nat
    BY PowersType
  <2>2. ~(e < i)
    BY <1>2, <2>1, PowersGrow
  <2>3. ~(i < e)
    <3>1. ASSUME i < e PROVE FALSE
      <4>1. i + 1 = e \/ i + 1 < e
        BY <3>1
      <4>2. Pow2[i + 1] <= Pow2[e]
        BY <2>1, <4>1, PowersGrow
      <4> QED BY <1>2, <2>1, <4>2
    <3> QED BY <3>1
  <2> QED BY <2>2, <2>3
<1> QED BY <1>1, <1>2 DEF LogBase2

\* It rounds down.
LEMMA LogBelow ==
  ASSUME NEW n \in 1 .. 15
  PROVE  LogBase2(n) \in 0 .. 31 /\ n < Pow2[LogBase2(n) + 1]
<1>1. Pow2[0] = 1
  BY PowersEquation
<1>2. Pow2[1] = 2 /\ Pow2[2] = 4 /\ Pow2[3] = 8 /\ Pow2[4] = 16
  <2>1. Pow2[0 + 1] = 2 * Pow2[0] /\ Pow2[1 + 1] = 2 * Pow2[1]
        /\ Pow2[2 + 1] = 2 * Pow2[2] /\ Pow2[3 + 1] = 2 * Pow2[3]
    BY PowersNext
  <2> QED BY <1>1, <2>1
<1>3. \E i \in 0 .. 31 : Pow2[i] <= n /\ n < Pow2[i + 1]
  <2>1. CASE n = 1
    BY <2>1, <1>1, <1>2
  <2>2. CASE n \in 2 .. 3
    BY <2>2, <1>2
  <2>3. CASE n \in 4 .. 7
    BY <2>3, <1>2
  <2>4. CASE n \in 8 .. 15
    BY <2>4, <1>2
  <2> QED BY <2>1, <2>2, <2>3, <2>4
<1> QED BY <1>3 DEF LogBase2

-----------------------------------------------------------------------------
\* Taking numbers apart.

LEMMA Division ==
  ASSUME NEW x \in Nat, NEW n \in Nat \ {0}
  PROVE  x \div n \in Nat /\ x % n \in 0 .. n - 1 /\ x = n * (x \div n) + (x % n)
OBVIOUS

LEMMA Quotient ==
  ASSUME NEW x \in Nat, NEW n \in Nat \ {0}, NEW q \in Nat, NEW r \in 0 .. n - 1, x = n * q + r
  PROVE  x \div n = q /\ x % n = r
OBVIOUS

\* Shifting twice.
LEMMA Shifts ==
  ASSUME NEW x \in Nat, NEW m \in Nat \ {0}, NEW n \in Nat \ {0}
  PROVE  (x \div m) \div n = x \div (m * n)
<1> DEFINE y == x \div m
           a == x % m
           z == y \div n
           b == y % n
           r == m * b + a
<1>1. y \in Nat /\ a \in 0 .. m - 1 /\ x = m * y + a
  BY Division
<1>2. z \in Nat /\ b \in 0 .. n - 1 /\ y = n * z + b
  <2> HIDE DEF y
  <2> QED BY <1>1, Division DEF z, b
<1> HIDE DEF y, a, z, b
<1>3. m * y = m * (n * z) + m * b
  BY <1>1, <1>2
<1>4. m * (n * z) = (m * n) * z
  BY <1>2
<1>5. m * b \in Nat /\ m * b <= m * (n - 1)
  <2>1. n - 1 - b \in Nat
    BY <1>2
  <2>2. m * (n - 1 - b) \in Nat
    BY <2>1
  <2>3. m * (n - 1 - b) = m * (n - 1) - m * b
    BY <1>2
  <2>4. m * b \in Nat /\ m * (n - 1) \in Nat
    BY <1>2
  <2> QED BY <2>2, <2>3, <2>4
<1>6. m * n \in Nat \ {0} /\ m * (n - 1) = m * n - m
  OBVIOUS
<1>7. r \in 0 .. m * n - 1
  BY <1>1, <1>5, <1>6
<1>8. x = (m * n) * z + r
  <2>1. (m * n) * z \in Nat /\ m * y \in Nat
    BY <1>1, <1>2, <1>6
  <2> QED BY <1>1, <1>3, <1>4, <1>5, <2>1
<1> HIDE DEF r
<1>9. x \div (m * n) = z
  <2> DEFINE mn == m * n
  <2>1. mn \in Nat \ {0} /\ r \in 0 .. mn - 1 /\ x = mn * z + r
    BY <1>6, <1>7, <1>8
  <2> HIDE DEF mn
  <2>2. x \div mn = z
    BY <1>2, <2>1, Quotient
  <2> QED BY <2>2 DEF mn
<1> QED BY <1>9 DEF y, z

LEMMA SmallQuotient ==
  ASSUME NEW x \in Nat, NEW n \in Nat \ {0}, x < n
  PROVE  x \div n = 0
OBVIOUS

\* Numbers that agree above a field, and in it, agree from its lowest bit on.
LEMMA FieldsAgree ==
  ASSUME NEW x \in Nat, NEW y \in Nat, NEW m \in Nat \ {0}, NEW n \in Nat \ {0},
         x \div (m * n) = y \div (m * n), (x \div m) % n = (y \div m) % n
  PROVE  x \div m = y \div m
<1>1. (x \div m) \div n = (y \div m) \div n
  BY Shifts
<1>2. x \div m \in Nat /\ y \div m \in Nat
  BY Division
<1>3. \A z \in Nat : z = n * (z \div n) + (z % n)
  BY Division
<1> QED BY <1>1, <1>2, <1>3

-----------------------------------------------------------------------------
\* Cleaning a queue.

\* The recursive equation of CleanedUpTo.
CleanedSoFar(queue, n, f) ==
  f = [k \in 0 .. n |->
         IF k = 0 THEN <<>>
         ELSE IF queue[k].request_served THEN f[k - 1] ELSE Append(f[k - 1], queue[k])]

LEMMA CleanedExists ==
  ASSUME NEW queue, NEW n \in Nat
  PROVE  \E f : CleanedSoFar(queue, n, f)
<1> DEFINE Undefined == {k \in Nat : ~ \E f : CleanedSoFar(queue, k, f)}
<1> SUFFICES ASSUME Undefined # {} PROVE FALSE
  BY DEF Undefined
<1>1. PICK m \in Undefined : \A k \in Undefined : m <= k
  <2>1. Undefined \subseteq Nat
    BY DEF Undefined
  <2> HIDE DEF Undefined
  <2> QED BY <2>1, LeastNatural
<1>2. m # 0
  <2>1. CleanedSoFar(queue, 0, [k \in 0 .. 0 |-> <<>>])
    BY DEF CleanedSoFar
  <2> QED BY <2>1 DEF Undefined
<1>3. m - 1 \in Nat /\ m - 1 \notin Undefined
  BY <1>1, <1>2
<1>4. PICK f : CleanedSoFar(queue, m - 1, f)
  BY <1>3 DEF Undefined
<1> DEFINE Next1 == IF queue[m].request_served THEN f[m - 1] ELSE Append(f[m - 1], queue[m])
           g == [k \in 0 .. m |-> IF k = m THEN Next1 ELSE f[k]]
           h == [k \in 0 .. m |->
                   IF k = 0 THEN <<>>
                   ELSE IF queue[k].request_served THEN g[k - 1] ELSE Append(g[k - 1], queue[k])]
<1>5. ASSUME NEW k \in 0 .. m PROVE g[k] = h[k]
  <2>1. CASE k = m
    <3>1. m \in 0 .. m /\ m - 1 \in 0 .. m /\ m - 1 # m
      BY <1>1, <1>3
    <3>2. g[m - 1] = f[m - 1] /\ g[m] = Next1
      BY <3>1
    <3> QED BY <2>1, <1>2, <3>1, <3>2
  <2>2. CASE k = 0
    <3>1. 0 \in 0 .. m - 1 /\ f[0] = <<>>
      BY <1>3, <1>4 DEF CleanedSoFar
    <3> QED BY <2>2, <1>2, <3>1
  <2>3. CASE k # m /\ k # 0
    <3>1. k \in 0 .. m - 1 /\ k - 1 \in 0 .. m /\ k - 1 # m /\ k - 1 \in 0 .. m - 1
      BY <2>3, <1>1
    <3>2. f[k] = IF queue[k].request_served THEN f[k - 1] ELSE Append(f[k - 1], queue[k])
      BY <3>1, <2>3, <1>4 DEF CleanedSoFar
    <3>3. g[k - 1] = f[k - 1] /\ g[k] = f[k]
      BY <3>1, <2>3
    <3> QED BY <2>3, <3>2, <3>3
  <2> QED BY <2>1, <2>2, <2>3
<1>6. g = h
  BY <1>5
<1>7. CleanedSoFar(queue, m, g)
  BY <1>6 DEF CleanedSoFar
<1> QED BY <1>7 DEF Undefined

LEMMA CleanedEquation ==
  ASSUME NEW S, NEW queue \in Seq(S)
  PROVE  CleanedSoFar(queue, Len(queue), CleanedUpTo(queue))
<1>1. \E f : CleanedSoFar(queue, Len(queue), f)
  BY CleanedExists
<1> QED BY <1>1 DEF CleanedSoFar, CleanedUpTo

\* What is left of the first n requests: those not served, all of them, in order.
KeptOf(queue, n, kept, f) ==
  /\ f \in [1 .. Len(kept) -> 1 .. n]
  /\ \A k \in 1 .. Len(kept) : kept[k] = queue[f[k]] /\ ~queue[f[k]].request_served
  /\ \A j, k \in 1 .. Len(kept) : j < k => f[j] < f[k]
  /\ \A i \in 1 .. n : ~queue[i].request_served => \E k \in 1 .. Len(kept) : f[k] = i
  /\ Len(kept) <= n

LEMMA KeptStep ==
  ASSUME NEW S, NEW queue \in Seq(S), NEW n \in 1 .. Len(queue),
         NEW kept \in Seq(S), NEW f, KeptOf(queue, n - 1, kept, f)
  PROVE  LET more == IF queue[n].request_served THEN kept ELSE Append(kept, queue[n])
         IN  more \in Seq(S) /\ \E g : KeptOf(queue, n, more, g)
<1> DEFINE L == Len(kept)
<1>0. L \in Nat /\ n \in Nat /\ n > 0 /\ queue[n] \in S
  OBVIOUS
<1>1. CASE queue[n].request_served
  <2>1. KeptOf(queue, n, kept, f)
    <3>1. f \in [1 .. L -> 1 .. n]
      BY <1>0 DEF KeptOf
    <3>2. \A i \in 1 .. n : ~queue[i].request_served => \E k \in 1 .. L : f[k] = i
      <4> TAKE i \in 1 .. n
      <4>1. CASE i = n
        BY <4>1, <1>1
      <4>2. CASE i # n
        <5>1. i \in 1 .. n - 1
          BY <4>2
        <5> QED BY <5>1 DEF KeptOf
      <4> QED BY <4>1, <4>2
    <3> QED BY <3>1, <3>2, <1>0 DEF KeptOf
  <2> QED BY <2>1, <1>1
<1>2. CASE ~queue[n].request_served
  <2> DEFINE more == Append(kept, queue[n])
             g == [k \in 1 .. L + 1 |-> IF k = L + 1 THEN n ELSE f[k]]
  <2>1. more \in Seq(S) /\ Len(more) = L + 1 /\ more[L + 1] = queue[n]
    BY <1>0
  <2>2. \A k \in 1 .. L : more[k] = kept[k]
    BY <1>0
  <2>3. \A k \in 1 .. L : g[k] = f[k] /\ f[k] \in 1 .. n - 1
    <3>1. f \in [1 .. L -> 1 .. n - 1]
      BY DEF KeptOf
    <3> HIDE DEF L
    <3> QED BY <1>0, <3>1
  <2>4. g[L + 1] = n
    BY <1>0
  <2>5. \A k \in 1 .. L + 1 : k = L + 1 \/ k \in 1 .. L
    BY <1>0
  <2> HIDE DEF more, L
  <2>6. g \in [1 .. L + 1 -> 1 .. n]
    <3>1. n \in 1 .. n /\ 1 .. n - 1 \subseteq 1 .. n
      BY <1>0
    <3>2. \A k \in 1 .. L + 1 : g[k] \in 1 .. n
      <4> HIDE DEF g
      <4> QED BY <2>3, <2>4, <2>5, <3>1
    <3> QED BY <3>2
  <2> HIDE DEF g
  <2>7. ASSUME NEW k \in 1 .. L + 1
        PROVE  more[k] = queue[g[k]] /\ ~queue[g[k]].request_served
    <3>1. CASE k = L + 1
      BY <3>1, <2>1, <2>4, <1>2
    <3>2. CASE k \in 1 .. L
      BY <3>2, <2>2, <2>3 DEF KeptOf, L
    <3> QED BY <3>1, <3>2, <2>5
  <2>8. ASSUME NEW j \in 1 .. L + 1, NEW k \in 1 .. L + 1, j < k PROVE g[j] < g[k]
    <3>1. j \in 1 .. L
      BY <2>8, <1>0
    <3>2. CASE k = L + 1
      BY <3>1, <3>2, <2>3, <2>4, <1>0
    <3>3. CASE k \in 1 .. L
      BY <3>1, <3>3, <2>3, <2>8 DEF KeptOf, L
    <3> QED BY <3>2, <3>3, <2>5
  <2>9. ASSUME NEW i \in 1 .. n, ~queue[i].request_served
        PROVE  \E k \in 1 .. L + 1 : g[k] = i
    <3>1. CASE i = n
      BY <3>1, <2>4, <1>0
    <3>2. CASE i # n
      <4>1. i \in 1 .. n - 1
        BY <3>2
      <4>2. PICK k \in 1 .. L : f[k] = i
        BY <4>1, <2>9 DEF KeptOf, L
      <4> QED BY <4>2, <2>3, <1>0
    <3> QED BY <3>1, <3>2
  <2>10. L + 1 <= n
    BY <1>0 DEF KeptOf, L
  <2>11. KeptOf(queue, n, more, g)
    BY <2>1, <2>6, <2>7, <2>8, <2>9, <2>10 DEF KeptOf
  <2> QED BY <2>1, <2>11, <1>2 DEF more
<1> QED BY <1>1, <1>2

LEMMA CleanedKeeps ==
  ASSUME NEW S, NEW queue \in Seq(S)
  PROVE  Cleaned(queue) \in Seq(S) /\ \E f : KeptOf(queue, Len(queue), Cleaned(queue), f)
<1> DEFINE C == CleanedUpTo(queue)
           Good(n) == C[n] \in Seq(S) /\ \E f : KeptOf(queue, n, C[n], f)
           Bad == {n \in 0 .. Len(queue) : ~Good(n)}
<1>1. \A k \in 0 .. Len(queue) :
        C[k] = IF k = 0 THEN <<>>
               ELSE IF queue[k].request_served THEN C[k - 1] ELSE Append(C[k - 1], queue[k])
  BY CleanedEquation DEF CleanedSoFar
<1>2. Len(queue) \in Nat
  OBVIOUS
<1> HIDE DEF C
<1>3. SUFFICES ASSUME Bad # {} PROVE FALSE
  BY <1>2 DEF Cleaned, C
<1>4. PICK n \in Bad : \A k \in Bad : n <= k
  <2>1. Bad \subseteq Nat
    OBVIOUS
  <2> HIDE DEF Bad
  <2> QED BY <2>1, <1>3, LeastNatural
<1>5. n # 0
  <2>1. Good(0)
    <3>1. C[0] = <<>>
      BY <1>1, <1>2
    <3>2. C[0] \in Seq(S) /\ Len(C[0]) = 0
      BY <3>1
    <3>3. KeptOf(queue, 0, C[0], <<>>)
      BY <3>1, <3>2 DEF KeptOf
    <3> QED BY <3>2, <3>3
  <2> QED BY <2>1
<1>6. n \in 1 .. Len(queue) /\ n - 1 \in 0 .. Len(queue)
  BY <1>2, <1>5
<1>7. Good(n - 1)
  BY <1>4, <1>6
<1>8. PICK f : KeptOf(queue, n - 1, C[n - 1], f)
  BY <1>7
<1>9. C[n] = IF queue[n].request_served THEN C[n - 1] ELSE Append(C[n - 1], queue[n])
  BY <1>1, <1>5
<1>10. C[n - 1] \in Seq(S)
  BY <1>7
<1>11. Good(n)
  <2> HIDE DEF Bad
  <2> QED BY <1>6, <1>8, <1>9, <1>10, KeptStep
<1> QED BY <1>11

-----------------------------------------------------------------------------
\* Prefixes.

LEMMA CoresType == NumCores \in Nat \ {0} /\ Cores = 1 .. NumCores
<1>1. NumCores \in Nat
  BY CoresAssumption, FS_CardinalityType DEF NumCores
<1>2. Cores = 1 .. NumCores /\ Cores # {}
  BY CoresAssumption DEF NumCores
<1> QED BY <1>1, <1>2

\* There always is a trace to share the prefix of.
LEMMA PrefixTableType ==
  ASSUME NEW name \in TraceNames
  PROVE  PrefixTable(name) \in [Cores -> 0 .. NumCores - 1]
<1> SUFFICES ASSUME NEW c \in Cores
             PROVE  (IF name[c] = "MT" THEN CurrMTapp(name, c) - 1 ELSE c - 1) \in 0 .. NumCores - 1
  BY DEF PrefixTable
<1>1. c \in 1 .. NumCores /\ NumCores \in Nat
  BY CoresType
<1>2. CASE name[c] # "MT"
  BY <1>1, <1>2
<1>3. CASE name[c] = "MT"
  <2> DEFINE First == {d \in 1 .. c - 1 : name[d] = "MT0"}
  <2>1. First # {}
    BY <1>3, NamesAssumption
  <2>2. First \subseteq 0 .. c
    BY <1>1
  <2>3. PICK d \in First : \A e \in First : e <= d
    <3>1. c \in Nat
      BY <1>1
    <3> HIDE DEF First
    <3> QED BY <2>1, <2>2, <3>1, LargestBelow
  <2>4. d \in 1 .. c - 1 /\ name[d] = "MT0" /\ \A e \in d + 1 .. c - 1 : name[e] # "MT0"
    <3>1. ASSUME NEW e \in d + 1 .. c - 1, name[e] = "MT0" PROVE FALSE
      <4>1. e \in First
        BY <3>1, <1>1
      <4> QED BY <4>1, <2>3, <1>1
    <3> QED BY <3>1
  <2>5. CurrMTapp(name, c) \in 1 .. c - 1
    BY <2>4 DEF CurrMTapp
  <2> QED BY <2>5, <1>1, <1>3
<1> QED BY <1>2, <1>3

-----------------------------------------------------------------------------
\* Places of the DRAM.

LEMMA PowerIs ==
  ASSUME NEW n, \E i \in 0 .. 31 : n = Pow2[i]
  PROVE  LogBase2(n) \in 0 .. 31 /\ Pow2[LogBase2(n)] = n
BY LogOfPower

\* The bits that tell the address spaces apart.
CoreBits == CHOOSE k \in Nat : PowOf2Cores = Pow2[k] /\ NumCores <= Pow2[k]

LEMMA CoresFit == CoreBits \in Nat /\ PowOf2Cores = Pow2[CoreBits] /\ NumCores <= Pow2[CoreBits]
<1>1. NumCores \in 1 .. 16 /\ NumCores = Cardinality(Cores)
  BY CoresType, CoresAssumption DEF NumCores
<1>2. \E k \in Nat : PowOf2Cores = Pow2[k] /\ NumCores <= Pow2[k]
  <2>1. CASE NumCores = 1
    <3>1. Pow2[0] = 1 /\ PowOf2Cores = 1
      BY <1>1, <2>1, PowersEquation DEF PowOf2Cores
    <3> QED BY <2>1, <3>1
  <2>2. CASE NumCores # 1
    <3> DEFINE k == LogBase2(NumCores - 1) + 1
    <3>1. NumCores - 1 \in 1 .. 15
      BY <1>1, <2>2
    <3>2. k \in Nat /\ NumCores - 1 < Pow2[k]
      BY <3>1, LogBelow
    <3>3. PowOf2Cores = Pow2[k]
      BY <1>1, <2>2 DEF PowOf2Cores
    <3> HIDE DEF k
    <3>4. NumCores <= Pow2[k]
      BY <1>1, <3>2, PowersType
    <3> QED BY <3>2, <3>3, <3>4
  <2> QED BY <2>1, <2>2
<1> QED BY <1>2 DEF CoreBits

\* The rows have been multiplied by enough.
LEMMA RowsFit ==
  /\ LogBase2(NUM_ROWS) \in Nat
  /\ LogBase2(TotalRows) = LogBase2(NUM_ROWS) + CoreBits
  /\ Pow2[LogBase2(TotalRows)] = TotalRows
<1> DEFINE e == LogBase2(NUM_ROWS) + CoreBits
<1>1. LogBase2(NUM_ROWS) \in 0 .. 31 /\ Pow2[LogBase2(NUM_ROWS)] = NUM_ROWS
  BY PowersAssumption, PowerIs
<1>2. e \in Nat /\ TotalRows = Pow2[e]
  <2>1. LogBase2(NUM_ROWS) \in Nat /\ CoreBits \in Nat
    BY <1>1, CoresFit
  <2>2. Pow2[e] = Pow2[LogBase2(NUM_ROWS)] * Pow2[CoreBits]
    BY <2>1, PowersSum
  <2> QED BY <1>1, <2>1, <2>2, CoresFit DEF TotalRows
<1> HIDE DEF e
<1>3. e \in 0 .. 31
  <2>1. Pow2[e] <= Pow2[30] /\ Pow2[e] \in Nat /\ Pow2[30] \in Nat
    BY <1>2, RowsAssumption, PowersType
  <2>2. ~(30 < e)
    BY <1>2, <2>1, PowersGrow
  <2> QED BY <1>2, <2>2
<1> QED BY <1>1, <1>2, <1>3, LogOfPower DEF e

LEMMA WidthsAre ==
  /\ \A i \in 1 .. 5 : Width[Fields[i]] \in Nat
  /\ Pow2[Width.column] = NUM_COLUMNS /\ Pow2[Width.channel] = NUM_CHANNELS
  /\ Pow2[Width.bank] = NUM_BANKS /\ Pow2[Width.rank] = NUM_RANKS /\ Pow2[Width.row] = TotalRows
  /\ LogBase2(CACHE_LINE_SIZE) \in Nat /\ Pow2[LogBase2(CACHE_LINE_SIZE)] = CACHE_LINE_SIZE
  /\ LogBase2(CACHE_LINE_SIZE) + Width[Fields[1]] + Width[Fields[2]] + Width[Fields[3]]
       + Width[Fields[4]] + Width[Fields[5]] = ADDRESS_BITS + CoreBits
<1>1. \A n \in {NUM_CHANNELS, NUM_RANKS, NUM_BANKS, NUM_COLUMNS, CACHE_LINE_SIZE} :
        LogBase2(n) \in Nat /\ Pow2[LogBase2(n)] = n
  BY PowersAssumption, PowerIs
<1>2. /\ LogBase2(TotalRows) \in Nat /\ CoreBits \in Nat /\ ADDRESS_BITS \in Nat
      /\ LogBase2(NUM_ROWS) \in Nat
  BY RowsFit, CoresFit, WidthsAssumption
<1>3. /\ Width.column = LogBase2(NUM_COLUMNS) /\ Width.channel = LogBase2(NUM_CHANNELS)
      /\ Width.bank = LogBase2(NUM_BANKS) /\ Width.rank = LogBase2(NUM_RANKS)
      /\ Width.row = LogBase2(TotalRows)
  BY DEF Width
<1>4. LogBase2(NUM_CHANNELS) + LogBase2(NUM_RANKS) + LogBase2(NUM_BANKS) + LogBase2(TotalRows)
       + LogBase2(NUM_COLUMNS) + LogBase2(CACHE_LINE_SIZE) = ADDRESS_BITS + CoreBits
  <2>1. /\ LogBase2(NUM_CHANNELS) \in Nat /\ LogBase2(NUM_RANKS) \in Nat
        /\ LogBase2(NUM_BANKS) \in Nat /\ LogBase2(NUM_COLUMNS) \in Nat
        /\ LogBase2(CACHE_LINE_SIZE) \in Nat
    BY <1>1
  <2>2. LogBase2(TotalRows) = LogBase2(NUM_ROWS) + CoreBits
    BY RowsFit
  <2> QED BY <1>2, <2>1, <2>2, WidthsAssumption
<1>5. CASE ADDRESS_MAPPING = 1
  <2>1. /\ Width[Fields[1]] = Width.column /\ Width[Fields[2]] = Width.channel
        /\ Width[Fields[3]] = Width.bank /\ Width[Fields[4]] = Width.rank
        /\ Width[Fields[5]] = Width.row
    BY <1>5 DEF Fields
  <2> QED BY <1>1, <1>2, <1>3, <1>4, <2>1, RowsFit
<1>6. CASE ADDRESS_MAPPING # 1
  <2>1. /\ Width[Fields[1]] = Width.channel /\ Width[Fields[2]] = Width.bank
        /\ Width[Fields[3]] = Width.rank /\ Width[Fields[4]] = Width.column
        /\ Width[Fields[5]] = Width.row
    BY <1>6 DEF Fields
  <2> QED BY <1>1, <1>2, <1>3, <1>4, <2>1, RowsFit
<1> QED BY <1>5, <1>6

LEMMA ShiftsAre ==
  /\ Shift[1] = LogBase2(CACHE_LINE_SIZE)
  /\ \A i \in 1 .. 4 : Shift[i + 1] = Shift[i] + Width[Fields[i]]
  /\ \A i \in 1 .. 5 : Shift[i] \in Nat
  /\ Shift[5] + Width[Fields[5]] = ADDRESS_BITS + CoreBits
<1> DEFINE s == LogBase2(CACHE_LINE_SIZE)
           w(i) == Width[Fields[i]]
           f == [i \in 1 .. 5 |->
                   IF i = 1 THEN s ELSE IF i = 2 THEN s + w(1)
                   ELSE IF i = 3 THEN s + w(1) + w(2) ELSE IF i = 4 THEN s + w(1) + w(2) + w(3)
                   ELSE s + w(1) + w(2) + w(3) + w(4)]
           g == [i \in 1 .. 5 |-> IF i = 1 THEN s ELSE f[i - 1] + w(i - 1)]
<1>1. \E h : h = [i \in 1 .. 5 |-> IF i = 1 THEN s ELSE h[i - 1] + w(i - 1)]
  <2> HIDE DEF s, w
  <2>1. ASSUME NEW i \in 1 .. 5 PROVE f[i] = g[i]
    <3>1. i = 1 \/ i = 2 \/ i = 3 \/ i = 4 \/ i = 5
      OBVIOUS
    <3>2. /\ f[1] = s /\ f[2] = s + w(1) /\ f[3] = s + w(1) + w(2)
          /\ f[4] = s + w(1) + w(2) + w(3) /\ f[5] = s + w(1) + w(2) + w(3) + w(4)
      OBVIOUS
    <3>3. g[1] = s /\ g[2] = f[1] + w(1) /\ g[3] = f[2] + w(2) /\ g[4] = f[3] + w(3)
          /\ g[5] = f[4] + w(4)
      BY DEF g
    <3> QED BY <3>1, <3>2, <3>3
  <2>2. f = g
    BY <2>1
  <2> QED BY <2>2
<1>2. \A i \in 1 .. 5 : Shift[i] = IF i = 1 THEN s ELSE Shift[i - 1] + w(i - 1)
  <2> HIDE DEF f, g
  <2> QED BY <1>1 DEF Shift
<1>3. s \in Nat /\ \A i \in 1 .. 5 : w(i) \in Nat
  BY WidthsAre
<1>4. s + w(1) + w(2) + w(3) + w(4) + w(5) = ADDRESS_BITS + CoreBits
  BY WidthsAre
<1> HIDE DEF s, w, f, g
<1>5. Shift[1] = s /\ \A i \in 1 .. 4 : Shift[i + 1] = Shift[i] + w(i)
  <2>1. \A i \in 1 .. 4 : i + 1 \in 1 .. 5 /\ i + 1 # 1 /\ (i + 1) - 1 = i
    OBVIOUS
  <2> QED BY <1>2, <2>1
<1>6. /\ Shift[2] = Shift[1] + w(1) /\ Shift[3] = Shift[2] + w(2)
      /\ Shift[4] = Shift[3] + w(3) /\ Shift[5] = Shift[4] + w(4)
  <2>1. Shift[1 + 1] = Shift[1] + w(1) /\ Shift[2 + 1] = Shift[2] + w(2)
        /\ Shift[3 + 1] = Shift[3] + w(3) /\ Shift[4 + 1] = Shift[4] + w(4)
    BY <1>5
  <2> QED BY <2>1
<1>7. \A i \in 1 .. 5 : Shift[i] \in Nat
  <2>1. /\ Shift[1] \in Nat /\ Shift[2] \in Nat /\ Shift[3] \in Nat
        /\ Shift[4] \in Nat /\ Shift[5] \in Nat
    BY <1>3, <1>5, <1>6
  <2> QED BY <2>1
<1>8. Shift[5] + w(5) = ADDRESS_BITS + CoreBits
  BY <1>3, <1>4, <1>5, <1>6
<1> QED BY <1>5, <1>7, <1>8 DEF s, w

\* What calc_dram_addr makes of an address, field by field.
LEMMA FieldsAre ==
  ASSUME NEW x
  PROVE  \A i \in 1 .. 5 :
           CalcDramAddr(x)[Fields[i]] = (x \div Pow2[Shift[i]]) % Pow2[Width[Fields[i]]]
<1> SUFFICES ASSUME NEW i \in 1 .. 5
             PROVE  CalcDramAddr(x)[Fields[i]] =
                      (x \div Pow2[Shift[i]]) % Pow2[Width[Fields[i]]]
  OBVIOUS
<1>1. /\ Fields[i] \in {"channel", "rank", "bank", "row", "column"}
      /\ \A j \in 1 .. 5 : Fields[j] = Fields[i] => j = i
  BY DEF Fields
<1>2. (CHOOSE j \in 1 .. 5 : Fields[j] = Fields[i]) = i
  BY <1>1
<1> QED BY <1>1, <1>2 DEF CalcDramAddr

LEMMA AddressesAre ==
  ASSUME NEW x \in PhysicalAddresses
  PROVE  x \in Nat /\ x < Pow2[ADDRESS_BITS + CoreBits] /\ x % CACHE_LINE_SIZE = 0
<1>1. PICK a \in LineAddresses, c \in Cores : x = Prefixed(a, c - 1)
  BY DEF PhysicalAddresses
<1> DEFINE B == Pow2[ADDRESS_BITS]
           p == c - 1
           L == CACHE_LINE_SIZE
<1>2. p \in Nat /\ p <= NumCores - 1 /\ NumCores \in Nat
  BY CoresType
<1>3. B \in Nat \ {0} /\ ADDRESS_BITS \in Nat
  BY WidthsAssumption, PowersType
<1>4. a \in 0 .. B - 1 /\ a % L = 0
  BY DEF LineAddresses
<1>5. x = a + p * B
  BY <1>1 DEF Prefixed
<1>6. Pow2[ADDRESS_BITS + CoreBits] = B * Pow2[CoreBits]
  BY <1>3, CoresFit, PowersSum
<1>7. PICK n \in Nat : B = L * n
  <2>1. LogBase2(L) \in Nat /\ LogBase2(L) <= ADDRESS_BITS /\ Pow2[LogBase2(L)] = L
    <3>1. \A m \in {NUM_CHANNELS, NUM_RANKS, NUM_BANKS, NUM_ROWS, NUM_COLUMNS, L} :
            LogBase2(m) \in Nat /\ Pow2[LogBase2(m)] = m
      BY PowersAssumption, PowerIs
    <3>2. /\ LogBase2(NUM_CHANNELS) \in Nat /\ LogBase2(NUM_RANKS) \in Nat
          /\ LogBase2(NUM_BANKS) \in Nat /\ LogBase2(NUM_ROWS) \in Nat
          /\ LogBase2(NUM_COLUMNS) \in Nat /\ LogBase2(L) \in Nat
      BY <3>1
    <3> QED BY <3>1, <3>2, WidthsAssumption
  <2>2. /\ ADDRESS_BITS - LogBase2(L) \in Nat
        /\ ADDRESS_BITS = LogBase2(L) + (ADDRESS_BITS - LogBase2(L))
    BY <1>3, <2>1
  <2>3. B = L * Pow2[ADDRESS_BITS - LogBase2(L)]
    BY <2>1, <2>2, PowersSum
  <2> QED BY <2>2, <2>3, PowersType
<1>8. L \in Nat \ {0}
  BY WidthsAre, PowersType
<1> HIDE DEF B, p, L
<1>9. p * B \in Nat /\ p * B <= (NumCores - 1) * B /\ (NumCores - 1) * B = NumCores * B - B
  <2>1. NumCores - 1 - p \in Nat
    BY <1>2
  <2>2. (NumCores - 1 - p) * B \in Nat
    BY <1>3, <2>1
  <2>3. (NumCores - 1 - p) * B = (NumCores - 1) * B - p * B
    BY <1>2, <1>3
  <2>4. p * B \in Nat /\ (NumCores - 1) * B \in Int
    BY <1>2, <1>3
  <2>5. (NumCores - 1) * B = NumCores * B - B
    BY <1>2, <1>3
  <2> QED BY <2>2, <2>3, <2>4, <2>5
<1>10. x \in Nat /\ x < NumCores * B
  <2>1. NumCores * B \in Nat
    BY <1>2, <1>3
  <2> QED BY <1>3, <1>4, <1>5, <1>9, <2>1
<1>11. NumCores * B <= B * Pow2[CoreBits]
  <2>1. Pow2[CoreBits] - NumCores \in Nat /\ Pow2[CoreBits] \in Nat
    BY <1>2, CoresFit, PowersType
  <2>2. B * (Pow2[CoreBits] - NumCores) \in Nat
    BY <1>3, <2>1
  <2>3. B * (Pow2[CoreBits] - NumCores) = B * Pow2[CoreBits] - NumCores * B
    BY <1>2, <1>3, <2>1
  <2>4. B * Pow2[CoreBits] \in Nat /\ NumCores * B \in Nat
    BY <1>2, <1>3, <2>1
  <2> QED BY <2>2, <2>3, <2>4
<1>12. x < Pow2[ADDRESS_BITS + CoreBits]
  <2>1. B * Pow2[CoreBits] \in Nat /\ NumCores * B \in Nat
    BY <1>2, <1>3, CoresFit, PowersType
  <2> QED BY <1>6, <1>10, <1>11, <2>1
<1>13. x % L = 0
  <2> DEFINE q == a \div L
  <2>1. a \in Nat
    BY <1>3, <1>4
  <2>2. q \in Nat /\ a = L * q
    <3>1. q \in Nat /\ a = L * q + (a % L)
      BY <1>8, <2>1, Division
    <3> QED BY <1>4, <1>8, <3>1
  <2> HIDE DEF q
  <2>3. p * B = L * (p * n) /\ p * n \in Nat
    BY <1>2, <1>7, <1>8
  <2>4. q + p * n \in Nat /\ x = L * (q + p * n) + 0 /\ 0 \in 0 .. L - 1
    BY <1>5, <1>8, <2>2, <2>3
  <2> QED BY <1>8, <1>10, <2>4, Quotient
<1> QED BY <1>10, <1>12, <1>13 DEF L

\* The fields fit the geometry.
LEMMA PlacesTyped ==
  ASSUME NEW x \in PhysicalAddresses PROVE CalcDramAddr(x) \in Address
<1> DEFINE d == CalcDramAddr(x)
<1>1. \A i \in 1 .. 5 : d[Fields[i]] \in 0 .. Pow2[Width[Fields[i]]] - 1
  <2> TAKE i \in 1 .. 5
  <2> DEFINE y == x \div Pow2[Shift[i]]
  <2>1. Pow2[Shift[i]] \in Nat \ {0} /\ Pow2[Width[Fields[i]]] \in Nat \ {0}
    BY ShiftsAre, WidthsAre, PowersType
  <2>2. y \in Nat
    BY <2>1, AddressesAre, Division
  <2>3. d[Fields[i]] = y % Pow2[Width[Fields[i]]]
    BY FieldsAre
  <2> HIDE DEF d, y
  <2> QED BY <2>1, <2>2, <2>3, Division
<1>2. \A f \in {"channel", "rank", "bank", "row", "column"} : \E i \in 1 .. 5 : Fields[i] = f
  BY DEF Fields
<1>3. \A f \in {"channel", "rank", "bank", "row", "column"} : d[f] \in 0 .. Pow2[Width[f]] - 1
  BY <1>1, <1>2
<1>4. /\ d.channel \in 0 .. NUM_CHANNELS - 1 /\ d.rank \in 0 .. NUM_RANKS - 1
      /\ d.bank \in 0 .. NUM_BANKS - 1 /\ d.row \in 0 .. TotalRows - 1
      /\ d.column \in 0 .. NUM_COLUMNS - 1
  <2> HIDE DEF d
  <2> QED BY <1>3, WidthsAre
<1>5. /\ d.channel \in {0} /\ d.rank \in Ranks /\ d.bank \in Banks /\ d.row \in Rows
      /\ d.column \in 0 .. NUM_COLUMNS - 1
  BY <1>4, ChannelAssumption, RowsAssumption DEF Ranks, Banks
<1>6. d = [channel |-> d.channel, rank |-> d.rank, bank |-> d.bank, row |-> d.row,
           column |-> d.column]
  BY DEF CalcDramAddr
<1> HIDE DEF d
<1>7. d \in Address
  BY <1>5, <1>6 DEF Address
<1> QED BY <1>7 DEF d

\* "Increase the address space and rows per bank depending on the number of input
\* traces": with one core or sixteen, a power of two or not, and with either mapping,
\* calc_dram_addr gives different lines of the address spaces different places.
THEOREM PlacesKeptApart == PlacesApart
<1> SUFFICES ASSUME NEW x \in PhysicalAddresses, NEW y \in PhysicalAddresses,
                    CalcDramAddr(x) = CalcDramAddr(y)
             PROVE  x = y
  BY DEF PlacesApart
<1>1. /\ x \in Nat /\ x < Pow2[ADDRESS_BITS + CoreBits] /\ x % CACHE_LINE_SIZE = 0
      /\ y \in Nat /\ y < Pow2[ADDRESS_BITS + CoreBits] /\ y % CACHE_LINE_SIZE = 0
  BY AddressesAre
<1> DEFINE Agree(n) == x \div Pow2[n] = y \div Pow2[n]
<1>2. ASSUME NEW i \in 1 .. 5, Agree(Shift[i] + Width[Fields[i]])
      PROVE  Agree(Shift[i])
  <2> DEFINE m == Pow2[Shift[i]]
             n == Pow2[Width[Fields[i]]]
  <2>1. m \in Nat \ {0} /\ n \in Nat \ {0}
    BY ShiftsAre, WidthsAre, PowersType
  <2>2. Pow2[Shift[i] + Width[Fields[i]]] = m * n
    BY ShiftsAre, WidthsAre, PowersSum
  <2>3. (x \div m) % n = (y \div m) % n
    BY FieldsAre
  <2>4. x \div (m * n) = y \div (m * n)
    BY <1>2, <2>2
  <2> HIDE DEF m, n
  <2>5. x \div m = y \div m
    BY <1>1, <2>1, <2>3, <2>4, FieldsAgree
  <2> QED BY <2>5 DEF m
<1>3. Agree(Shift[5] + Width[Fields[5]])
  <2> DEFINE all == Pow2[ADDRESS_BITS + CoreBits]
  <2>1. all \in Nat \ {0}
    BY WidthsAssumption, CoresFit, PowersType
  <2>2. x < all /\ y < all
    BY <1>1
  <2> HIDE DEF all
  <2>3. x \div all = 0 /\ y \div all = 0
    BY <1>1, <2>1, <2>2, SmallQuotient
  <2> QED BY <2>3, ShiftsAre DEF all
<1> HIDE DEF Agree
<1>4. \A i \in 1 .. 4 : Agree(Shift[i + 1]) => Agree(Shift[i])
  BY <1>2, ShiftsAre
<1>5. Agree(Shift[5])
  BY <1>2, <1>3
<1>6. Agree(Shift[1])
  <2>1. ASSUME NEW i \in 1 .. 4, NEW j, j = i + 1, Agree(Shift[j]) PROVE Agree(Shift[i])
    BY <1>4, <2>1
  <2>2. Agree(Shift[4])
    BY <1>5, <2>1
  <2>3. Agree(Shift[3])
    BY <2>1, <2>2
  <2>4. Agree(Shift[2])
    BY <2>1, <2>3
  <2> QED BY <2>1, <2>4
<1>7. x \div CACHE_LINE_SIZE = y \div CACHE_LINE_SIZE
  BY <1>6, ShiftsAre, WidthsAre DEF Agree
<1>8. CACHE_LINE_SIZE \in Nat \ {0}
  BY WidthsAre, PowersType
<1> DEFINE L == CACHE_LINE_SIZE
<1>9. x = L * (x \div L) + (x % L) /\ y = L * (y \div L) + (y % L)
  <2> HIDE DEF L
  <2>1. L \in Nat \ {0}
    BY <1>8 DEF L
  <2> QED BY <1>1, <2>1, Division
<1> QED BY <1>1, <1>7, <1>9

-----------------------------------------------------------------------------
\* Addresses and reorder buffers.

LEMMA AddrType ==
  ASSUME UsimmTypeOK, NEW c \in Cores
  PROVE  /\ Addr(c) \in PhysicalAddresses /\ Addr(c) \in Nat
         /\ CalcDramAddr(Addr(c)) \in Address
         /\ \E a \in LineAddresses : Addr(c) = Prefixed(a, prefixtable[c])
<1> DEFINE a == line[c].addr
           p == prefixtable[c]
<1>1. a \in LineAddresses
  BY DEF UsimmTypeOK, Line
<1>2. p \in 0 .. NumCores - 1
  BY DEF UsimmTypeOK
<1>3. p + 1 \in Cores /\ p \in Nat /\ p = (p + 1) - 1
  BY <1>2, CoresType
<1>4. Addr(c) = Prefixed(a, p)
  BY DEF Addr
<1>5. Addr(c) \in PhysicalAddresses
  <2> HIDE DEF a, p
  <2>1. Prefixed(a, p) = Prefixed(a, (p + 1) - 1)
    BY <1>3
  <2> QED BY <1>1, <1>3, <1>4, <2>1 DEF PhysicalAddresses
<1>6. Addr(c) \in Nat
  <2> DEFINE B == Pow2[ADDRESS_BITS]
  <2>1. B \in Int
    BY WidthsAssumption, PowersType
  <2>2. a \in 0 .. B - 1
    BY <1>1 DEF LineAddresses
  <2> HIDE DEF a, p, B
  <2>3. B > 0
    BY <2>1, <2>2
  <2>4. p * B \in Nat
    BY <2>1, <2>3, <1>3
  <2>5. a + p * B \in Nat
    BY <2>1, <2>2, <2>4
  <2> QED BY <2>5, <1>4 DEF Prefixed, B
<1>7. CalcDramAddr(Addr(c)) \in Address
  BY <1>5, PlacesTyped
<1> QED BY <1>1, <1>4, <1>5, <1>6, <1>7

LEMMA SlotType ==
  ASSUME NEW r \in ReorderBuffer, NEW i \in Nat
  PROVE  Slot(r, i) \in Slots
<1>1. r.head \in Nat /\ ROBSIZE \in Nat \ {0}
  BY QueuesAssumption DEF ReorderBuffer, Slots
<1>2. r.head + i \in Nat
  BY <1>1
<1>3. \A x \in Nat : x % ROBSIZE \in 0 .. ROBSIZE - 1
  BY <1>1
<1> QED BY <1>2, <1>3 DEF Slot, Slots

\* The loop of the retirement stops.
LEMMA RetiringIs ==
  ASSUME NEW r \in ReorderBuffer
  PROVE  /\ Retiring(r) \in 0 .. MAX_RETIRE /\ Retiring(r) <= r.inflight
         /\ \A i \in 0 .. Retiring(r) - 1 : r.comptime[Slot(r, i)] < 0
<1> DEFINE Stops == {n \in 0 .. MAX_RETIRE :
                       n = MAX_RETIRE \/ n = r.inflight \/ r.comptime[Slot(r, n)] >= 0}
<1>1. MAX_RETIRE \in Nat /\ r.inflight \in Nat
  BY LoopAssumption, QueuesAssumption DEF ReorderBuffer
<1>2. Stops \subseteq Nat /\ Stops # {}
  <2>1. MAX_RETIRE \in Stops
    BY <1>1
  <2> QED BY <2>1
<1>3. PICK n \in Stops : \A k \in Stops : n <= k
  <2> HIDE DEF Stops
  <2> QED BY <1>2, LeastNatural
<1>4. \A k \in 0 .. MAX_RETIRE : k < n => k \notin Stops
  BY <1>3, <1>1
<1>5. n <= r.inflight
  <2> SUFFICES ASSUME r.inflight < n PROVE FALSE
    BY <1>1
  <2>1. r.inflight \in Stops
    BY <1>1
  <2> QED BY <2>1, <1>3, <1>1
<1>6. ASSUME NEW i \in 0 .. n - 1 PROVE r.comptime[Slot(r, i)] < 0
  <2>1. i \in 0 .. MAX_RETIRE /\ i \notin Stops
    BY <1>4, <1>1
  <2>2. ~(r.comptime[Slot(r, i)] >= 0)
    BY <2>1
  <2>3. r.comptime[Slot(r, i)] \in Int
    <3>1. Slot(r, i) \in Slots
      BY SlotType
    <3> QED BY <3>1, BignumAssumption DEF ReorderBuffer
  <2> QED BY <2>2, <2>3
<1>7. \E k \in 0 .. MAX_RETIRE :
        /\ k <= r.inflight
        /\ \A i \in 0 .. k - 1 : r.comptime[Slot(r, i)] < 0
        /\ k = MAX_RETIRE \/ k = r.inflight \/ r.comptime[Slot(r, k)] >= 0
  BY <1>3, <1>5, <1>6
<1> HIDE DEF Stops
<1> QED BY <1>7 DEF Retiring

-----------------------------------------------------------------------------
\* The invariant: a request is what one of the cores made of a line of its trace, and no
\* queue holds an address twice.

Genuine(queue) ==
  \A i \in DOMAIN queue :
    /\ queue[i].physical_address \in PhysicalAddresses
    /\ queue[i].addr = CalcDramAddr(queue[i].physical_address)
    /\ \E a \in LineAddresses :
         queue[i].physical_address = Prefixed(a, prefixtable[queue[i].thread_id])

\* With no latency, a read that matches a write does not look for reads it matches.
Single(queue) ==
  WQ_LOOKUP_LATENCY # 0 =>
    \A i, j \in DOMAIN queue :
      i # j => queue[i].physical_address # queue[j].physical_address

UsimmInv ==
  /\ UsimmTypeOK
  /\ WriteQueueBounded
  /\ Genuine(read_queue) /\ Genuine(write_queue)
  /\ Single(read_queue) /\ Single(write_queue)

\* What becomes of the queues.

LEMMA CleanedInv ==
  ASSUME NEW S, NEW queue \in Seq(S), Genuine(queue), Single(queue)
  PROVE  /\ Cleaned(queue) \in Seq(S) /\ Len(Cleaned(queue)) <= Len(queue)
         /\ Genuine(Cleaned(queue)) /\ Single(Cleaned(queue))
<1> DEFINE kept == Cleaned(queue)
<1>1. kept \in Seq(S)
  BY CleanedKeeps
<1>2. PICK f : KeptOf(queue, Len(queue), kept, f)
  BY CleanedKeeps
<1> HIDE DEF kept
<1>3. Len(kept) \in Nat /\ DOMAIN kept = 1 .. Len(kept) /\ DOMAIN queue = 1 .. Len(queue)
  BY <1>1
<1>4. \A k \in DOMAIN kept : f[k] \in DOMAIN queue /\ kept[k] = queue[f[k]]
  BY <1>2, <1>3 DEF KeptOf
<1>5. Genuine(kept)
  BY <1>4 DEF Genuine
<1>6. ASSUME NEW i \in DOMAIN kept, NEW j \in DOMAIN kept, i # j PROVE f[i] # f[j]
  <2>1. f[i] \in Int /\ f[j] \in Int
    BY <1>2, <1>3 DEF KeptOf
  <2>2. CASE i < j
    BY <1>2, <1>3, <2>1, <2>2 DEF KeptOf
  <2>3. CASE j < i
    BY <1>2, <1>3, <2>1, <2>3 DEF KeptOf
  <2> QED BY <1>3, <1>6, <2>2, <2>3
<1>7. Single(kept)
  BY <1>4, <1>6 DEF Single
<1> QED BY <1>1, <1>2, <1>5, <1>7 DEF KeptOf, kept

LEMMA ServedInv ==
  ASSUME NEW queue, Genuine(queue), Single(queue), NEW i \in DOMAIN queue
  PROVE  LET served == [queue EXCEPT ![i].request_served = TRUE]
         IN  Genuine(served) /\ Single(served)
<1> DEFINE served == [queue EXCEPT ![i].request_served = TRUE]
<1>1. DOMAIN served = DOMAIN queue
  OBVIOUS
<1>2. \A k \in DOMAIN queue : /\ served[k].physical_address = queue[k].physical_address
                               /\ served[k].addr = queue[k].addr
                               /\ served[k].thread_id = queue[k].thread_id
  OBVIOUS
<1> HIDE DEF served
<1>3. Genuine(served)
  BY <1>1, <1>2 DEF Genuine
<1>4. Single(served)
  BY <1>1, <1>2 DEF Single
<1> QED BY <1>3, <1>4 DEF served

LEMMA InsertedInv ==
  ASSUME NEW S, NEW queue \in Seq(S), Genuine(queue), Single(queue), NEW q \in S,
         WQ_LOOKUP_LATENCY # 0 => ~Holds(queue, q.physical_address),
         q.physical_address \in PhysicalAddresses,
         q.addr = CalcDramAddr(q.physical_address),
         \E a \in LineAddresses : q.physical_address = Prefixed(a, prefixtable[q.thread_id])
  PROVE  Genuine(Append(queue, q)) /\ Single(Append(queue, q))
<1> DEFINE longer == Append(queue, q)
           L == Len(queue)
<1>1. DOMAIN queue = 1 .. L /\ DOMAIN longer = 1 .. L + 1 /\ L \in Nat
  OBVIOUS
<1>2. longer[L + 1] = q /\ \A k \in 1 .. L : longer[k] = queue[k]
  OBVIOUS
<1>3. \A k \in 1 .. L + 1 : k = L + 1 \/ k \in 1 .. L
  BY <1>1
<1> HIDE DEF longer, L
<1>4. Genuine(longer)
  <2> SUFFICES ASSUME NEW k \in DOMAIN longer
               PROVE  /\ longer[k].physical_address \in PhysicalAddresses
                      /\ longer[k].addr = CalcDramAddr(longer[k].physical_address)
                      /\ \E a \in LineAddresses :
                           longer[k].physical_address
                             = Prefixed(a, prefixtable[longer[k].thread_id])
    BY DEF Genuine
  <2>1. CASE k = L + 1
    BY <2>1, <1>2
  <2>2. CASE k \in 1 .. L
    BY <2>2, <1>1, <1>2 DEF Genuine
  <2> QED BY <2>1, <2>2, <1>1, <1>3
<1>5. Single(longer)
  <2> SUFFICES ASSUME WQ_LOOKUP_LATENCY # 0
               PROVE  \A j, k \in DOMAIN longer :
                        j # k => longer[j].physical_address # longer[k].physical_address
    BY DEF Single
  <2>1. \A k \in 1 .. L : queue[k].physical_address # q.physical_address
    BY <1>1 DEF Holds
  <2>2. \A j, k \in 1 .. L : j # k => queue[j].physical_address # queue[k].physical_address
    BY <1>1 DEF Single
  <2>3. \A j, k \in 1 .. L + 1 : j # k => longer[j].physical_address # longer[k].physical_address
    BY <1>2, <1>3, <2>1, <2>2
  <2> QED BY <1>1, <2>3
<1> QED BY <1>4, <1>5 DEF longer

LEMMA UsimmInitially == UsimmInit => UsimmInv
<1> SUFFICES ASSUME UsimmInit PROVE UsimmInv
  OBVIOUS
<1> USE DEF UsimmInit, QueuesInit
<1>1. read_queue = <<>> /\ write_queue = <<>>
  OBVIOUS
<1>2. ROB \in [Cores -> ReorderBuffer]
  <2>1. 0 \in Slots /\ 0 \in 0 .. ROBSIZE
    BY QueuesAssumption DEF Slots
  <2>2. -1 \in -1 .. BIGNUM
    BY BignumAssumption
  <2> QED BY <2>1, <2>2 DEF ReorderBuffer
<1>3. prefixtable \in [Cores -> 0 .. NumCores - 1]
  BY PrefixTableType
<1>4. line \in [Cores -> Line]
  <2>1. TraceLength \in 1 .. TraceLength
    BY LoopAssumption
  <2>2. \A c \in Cores : Lines[c][TraceLength] \subseteq Line
    BY <2>1, LinesAssumption
  <2>3. line \in [Cores -> UNION {Lines[c][TraceLength] : c \in Cores}]
    OBVIOUS
  <2>4. \A c \in Cores : line[c] \in Lines[c][TraceLength]
    OBVIOUS
  <2> QED BY <2>2, <2>3, <2>4
<1>5. lines_left \in [Cores -> 0 .. TraceLength]
  BY LoopAssumption
<1>6. /\ pc \in {"retire", "memory", "schedule", "autoprecharge", "fetch", "tick"}
      /\ numc \in Cores /\ num_fetch \in 0 .. MAX_FETCH
      /\ subcycle \in 0 .. PROCESSOR_CLK_MULTIPLIER - 1 /\ expt_done \in BOOLEAN
  <2>1. numc = 1 /\ num_fetch = 0 /\ subcycle = 0 /\ expt_done = FALSE /\ pc = "schedule"
    OBVIOUS
  <2>2. 1 \in Cores /\ 0 \in 0 .. MAX_FETCH /\ 0 \in 0 .. PROCESSOR_CLK_MULTIPLIER - 1
    BY CoresType, LoopAssumption
  <2> QED BY <2>1, <2>2
<1>7. UsimmTypeOK
  <2>1. read_queue \in Seq(ReadRequest) /\ write_queue \in Seq(WriteRequest)
    BY <1>1
  <2> HIDE DEF UsimmInit
  <2> QED BY <1>2, <1>3, <1>4, <1>5, <1>6, <2>1 DEF UsimmTypeOK
<1>8. WriteQueueBounded
  BY <1>1, QueuesAssumption DEF WriteQueueBounded
<1>9. \A queue : queue = <<>> => Genuine(queue) /\ Single(queue)
  BY DEF Genuine, Single
<1> QED BY <1>1, <1>7, <1>8, <1>9 DEF UsimmInv

-----------------------------------------------------------------------------
\* The steps.

LEMMA LoopSizes ==
  /\ MAX_RETIRE \in Nat /\ MAX_FETCH \in Nat /\ PIPELINEDEPTH \in Nat
  /\ PROCESSOR_CLK_MULTIPLIER \in Nat \ {0} /\ TraceLength \in Nat \ {0}
  /\ ROBSIZE \in Nat \ {0} /\ WQ_CAPACITY \in Nat /\ BIGNUM \in Nat
  BY LoopAssumption, QueuesAssumption, BignumAssumption

LEMMA FetchStarts ==
  ASSUME StartFetch PROVE pc' = "fetch" /\ numc' \in Cores /\ num_fetch' \in 0 .. MAX_FETCH
<1>1. 1 \in Cores /\ 0 \in 0 .. MAX_FETCH
  BY CoresType, LoopSizes
<1> QED BY <1>1 DEF StartFetch

\* A step that leaves the queues alone has only types to keep.
LEMMA SameQueues ==
  ASSUME UsimmInv, UNCHANGED <<queueVars, prefixtable>>, UsimmTypeOK'
  PROVE  UsimmInv'
<1>1. /\ Genuine(read_queue)' /\ Genuine(write_queue)'
      /\ Single(read_queue)' /\ Single(write_queue)'
  BY DEF UsimmInv, queueVars, Genuine, Single
<1>2. WriteQueueBounded'
  BY DEF UsimmInv, queueVars, WriteQueueBounded
<1> QED BY <1>1, <1>2 DEF UsimmInv

LEMMA RetireInv == ASSUME UsimmInv, Retire PROVE UsimmInv'
<1> USE DEF Retire
<1>1. UsimmTypeOK
  BY DEF UsimmInv
<1>2. ROB' \in [Cores -> ReorderBuffer]
  <2> SUFFICES ASSUME NEW c \in Cores PROVE ROB'[c] \in ReorderBuffer
    OBVIOUS
  <2> DEFINE r == ROB[c]
             n == Retiring(r)
  <2>1. r \in ReorderBuffer
    BY <1>1 DEF UsimmTypeOK
  <2>2. n \in Nat /\ n <= r.inflight
    <3>1. n \in 0 .. MAX_RETIRE /\ n <= r.inflight
      BY <2>1, RetiringIs
    <3> HIDE DEF n, r, Retire
    <3> QED BY <3>1, LoopSizes
  <2>3. Slot(r, n) \in Slots
    <3> HIDE DEF r, n
    <3> QED BY <2>1, <2>2, SlotType
  <2>4. r.inflight - n \in 0 .. ROBSIZE
    <3>1. r.inflight \in 0 .. ROBSIZE
      BY <2>1 DEF ReorderBuffer
    <3> HIDE DEF r, n, Retire
    <3> QED BY <2>2, <3>1, LoopSizes
  <2>5. ROB'[c] = [r EXCEPT !.head = Slot(r, n), !.inflight = @ - n]
    OBVIOUS
  <2> HIDE DEF r, n
  <2> QED BY <2>1, <2>3, <2>4, <2>5 DEF ReorderBuffer
<1>3. pc' \in {"memory", "fetch"} /\ numc' \in Cores /\ num_fetch' \in 0 .. MAX_FETCH
  <2>1. CASE subcycle = 0
    BY <1>1, <2>1 DEF UsimmTypeOK
  <2>2. CASE subcycle # 0
    BY <2>2, FetchStarts
  <2> QED BY <2>1, <2>2
<1>4. UsimmTypeOK'
  BY <1>1, <1>2, <1>3 DEF UsimmTypeOK, queueVars
<1> QED BY <1>4, SameQueues

LEMMA TickInv == ASSUME UsimmInv, Tick PROVE UsimmInv'
<1> USE DEF Tick
<1>1. UsimmTypeOK
  BY DEF UsimmInv
<1>2. ROB' \in [Cores -> ReorderBuffer]
  <2> SUFFICES ASSUME NEW c \in Cores PROVE ROB'[c] \in ReorderBuffer
    OBVIOUS
  <2> DEFINE r == ROB[c]
             later == [s \in Slots |-> IF r.comptime[s] < 0 THEN -1 ELSE r.comptime[s] - 1]
  <2>1. r \in ReorderBuffer
    BY <1>1 DEF UsimmTypeOK
  <2>2. later \in [Slots -> -1 .. BIGNUM]
    <3>1. BIGNUM \in Nat
      BY BignumAssumption
    <3>2. \A s \in Slots : r.comptime[s] \in -1 .. BIGNUM
      BY <2>1 DEF ReorderBuffer
    <3> HIDE DEF r
    <3> QED BY <3>1, <3>2
  <2>3. ROB'[c] = [r EXCEPT !.comptime = later]
    OBVIOUS
  <2> HIDE DEF r, later
  <2> QED BY <2>1, <2>2, <2>3 DEF ReorderBuffer
<1>3. subcycle' \in 0 .. PROCESSOR_CLK_MULTIPLIER - 1
  <2>1. PROCESSOR_CLK_MULTIPLIER \in Nat \ {0} /\ subcycle + 1 \in Nat
    BY <1>1, LoopAssumption DEF UsimmTypeOK
  <2>2. \A x \in Nat : x % PROCESSOR_CLK_MULTIPLIER \in 0 .. PROCESSOR_CLK_MULTIPLIER - 1
    BY <2>1
  <2> QED BY <2>1, <2>2
<1>4. expt_done' \in BOOLEAN /\ pc' = "retire"
  BY DEF Finished
<1>5. UsimmTypeOK'
  BY <1>1, <1>2, <1>3, <1>4 DEF UsimmTypeOK, queueVars
<1> QED BY <1>5, SameQueues

LEMMA MemoryCycleInv == ASSUME UsimmInv, MemoryCycle PROVE UsimmInv'
<1> USE DEF MemoryCycle, CleanQueues
<1>1. UsimmTypeOK
  BY DEF UsimmInv
<1>2. /\ read_queue' \in Seq(ReadRequest)
      /\ Genuine(Cleaned(read_queue)) /\ Single(Cleaned(read_queue))
  BY <1>1, CleanedInv DEF UsimmInv, UsimmTypeOK
<1>3. /\ write_queue' \in Seq(WriteRequest)
      /\ Genuine(Cleaned(write_queue)) /\ Single(Cleaned(write_queue))
      /\ Len(write_queue') <= Len(write_queue)
  BY <1>1, CleanedInv DEF UsimmInv, UsimmTypeOK
<1>4. UsimmTypeOK'
  BY <1>1, <1>2, <1>3 DEF UsimmTypeOK, coreVars
<1>5. /\ Genuine(read_queue)' /\ Genuine(write_queue)'
      /\ Single(read_queue)' /\ Single(write_queue)'
  BY <1>2, <1>3 DEF coreVars, Genuine, Single
<1>6. WriteQueueBounded'
  <2>1. Len(write_queue') \in Nat /\ Len(write_queue) \in Nat
    BY <1>1, <1>3 DEF UsimmTypeOK
  <2> QED BY <1>3, <2>1, QueuesAssumption DEF UsimmInv, WriteQueueBounded
<1> QED BY <1>4, <1>5, <1>6 DEF UsimmInv

\* A read may not be served twice, but it is the slot that matters here.
LEMMA ServeReadInv ==
  ASSUME UsimmInv, NEW i \in DOMAIN read_queue, IssueRead(i), UNCHANGED prefixtable
  PROVE  /\ read_queue' \in Seq(ReadRequest) /\ ROB' \in [Cores -> ReorderBuffer]
         /\ Genuine(read_queue)' /\ Single(read_queue)'
<1> DEFINE q == read_queue[i]
           served == [read_queue EXCEPT ![i].request_served = TRUE]
<1>1. read_queue \in Seq(ReadRequest) /\ ROB \in [Cores -> ReorderBuffer]
  BY DEF UsimmInv, UsimmTypeOK
<1>2. q \in ReadRequest /\ Genuine(read_queue) /\ Single(read_queue)
  BY <1>1 DEF UsimmInv
<1>3. CASE UNCHANGED <<read_queue, ROB>>
  BY <1>1, <1>2, <1>3 DEF Genuine, Single
<1>4. CASE read_queue' = served /\ ROB' = [ROB EXCEPT ![q.thread_id].comptime[q.instruction_id] = Arrival]
  <2>1. [q EXCEPT !.request_served = TRUE] \in ReadRequest
    BY <1>2 DEF ReadRequest
  <2>2. served \in Seq(ReadRequest)
    BY <1>1, <2>1
  <2>3. Genuine(served) /\ Single(served)
    BY <1>2, ServedInv
  <2>4. ROB' \in [Cores -> ReorderBuffer]
    <3> DEFINE c == q.thread_id
               r == ROB[c]
               times == [r.comptime EXCEPT ![q.instruction_id] = Arrival]
    <3>1. c \in Cores /\ r \in ReorderBuffer
      BY <1>1, <1>2 DEF ReadRequest
    <3>2. Arrival \in -1 .. BIGNUM
      <4>1. \A t \in {T_CAS, T_DATA_TRANS} : t \in Nat
        BY TimingsAssumption DEF Timings
      <4>2. (T_CAS + T_DATA_TRANS) * PROCESSOR_CLK_MULTIPLIER \in Nat
        BY <4>1, LoopAssumption
      <4>3. Arrival \in Nat
        BY <4>2, LoopAssumption DEF Arrival
      <4> QED BY <4>3, BignumAssumption
    <3>3. times \in [Slots -> -1 .. BIGNUM]
      <4>1. r.comptime \in [Slots -> -1 .. BIGNUM]
        BY <3>1 DEF ReorderBuffer
      <4> HIDE DEF r
      <4> QED BY <3>2, <4>1
    <3>4. ROB' = [ROB EXCEPT ![c] = [r EXCEPT !.comptime = times]]
      BY <1>1, <1>4
    <3>5. [r EXCEPT !.comptime = times] \in ReorderBuffer
      <4> HIDE DEF r, times
      <4> QED BY <3>1, <3>3 DEF ReorderBuffer
    <3> HIDE DEF r, times, c
    <3> QED BY <1>1, <3>1, <3>4, <3>5
  <2>5. Genuine(read_queue)' /\ Single(read_queue)'
    BY <1>4, <2>3 DEF Genuine, Single
  <2> QED BY <1>4, <2>2, <2>4, <2>5
<1> QED BY <1>3, <1>4 DEF IssueRead

LEMMA ServeWriteInv ==
  ASSUME UsimmInv, NEW i \in DOMAIN write_queue, IssueWrite(i), UNCHANGED prefixtable
  PROVE  /\ write_queue' \in Seq(WriteRequest) /\ Len(write_queue') = Len(write_queue)
         /\ Genuine(write_queue)' /\ Single(write_queue)'
<1> DEFINE q == write_queue[i]
           served == [write_queue EXCEPT ![i].request_served = TRUE]
<1>1. write_queue \in Seq(WriteRequest)
  BY DEF UsimmInv, UsimmTypeOK
<1>2. q \in WriteRequest /\ Genuine(write_queue) /\ Single(write_queue)
  BY <1>1 DEF UsimmInv
<1>3. CASE UNCHANGED write_queue
  BY <1>1, <1>2, <1>3 DEF Genuine, Single
<1>4. CASE write_queue' = served
  <2>1. [q EXCEPT !.request_served = TRUE] \in WriteRequest
    BY <1>2 DEF WriteRequest
  <2>2. served \in Seq(WriteRequest) /\ Len(served) = Len(write_queue)
    BY <1>1, <2>1
  <2>3. Genuine(served) /\ Single(served)
    BY <1>2, ServedInv
  <2>4. Genuine(write_queue)' /\ Single(write_queue)'
    BY <1>4, <2>3 DEF Genuine, Single
  <2> QED BY <1>4, <2>2, <2>4
<1> QED BY <1>3, <1>4 DEF IssueWrite

LEMMA EnterROBType ==
  ASSUME UsimmTypeOK, NEW c \in Cores, MayFetch(c),
         NEW comptime \in -1 .. BIGNUM, EnterROB(c, comptime)
  PROVE  ROB' \in [Cores -> ReorderBuffer] /\ num_fetch' \in 0 .. MAX_FETCH
<1> DEFINE r == ROB[c]
           times == [r.comptime EXCEPT ![r.tail] = comptime]
           entered == [r EXCEPT !.comptime = times, !.tail = (r.tail + 1) % ROBSIZE,
                                !.inflight = r.inflight + 1]
<1>1. ROB \in [Cores -> ReorderBuffer] /\ num_fetch \in 0 .. MAX_FETCH
  BY DEF UsimmTypeOK
<1>2. r \in ReorderBuffer /\ r.inflight # ROBSIZE /\ num_fetch < MAX_FETCH
  BY <1>1 DEF MayFetch
<1>3. num_fetch' = num_fetch + 1
  BY DEF EnterROB
<1>4. num_fetch' \in 0 .. MAX_FETCH
  BY <1>1, <1>2, <1>3, LoopSizes
<1>5. ROB' = [ROB EXCEPT ![c] = entered]
  BY <1>1 DEF EnterROB
<1>6. times \in [Slots -> -1 .. BIGNUM]
  <2>1. r.comptime \in [Slots -> -1 .. BIGNUM]
    BY <1>2 DEF ReorderBuffer
  <2> HIDE DEF r
  <2> QED BY <2>1
<1>7. (r.tail + 1) % ROBSIZE \in Slots
  <2>1. r.tail \in 0 .. ROBSIZE - 1
    BY <1>2 DEF ReorderBuffer, Slots
  <2> HIDE DEF r
  <2>2. \A x \in Nat : x % ROBSIZE \in 0 .. ROBSIZE - 1
    BY LoopSizes
  <2> QED BY <2>1, <2>2 DEF Slots
<1>8. r.inflight + 1 \in 0 .. ROBSIZE
  <2>1. r.inflight \in 0 .. ROBSIZE
    BY <1>2 DEF ReorderBuffer
  <2> HIDE DEF r
  <2> QED BY <1>2, <2>1, LoopSizes
<1>9. entered \in ReorderBuffer
  <2> HIDE DEF r, times
  <2> QED BY <1>2, <1>6, <1>7, <1>8 DEF ReorderBuffer
<1> HIDE DEF entered
<1> QED BY <1>1, <1>4, <1>5, <1>9

LEMMA NextLineType ==
  ASSUME UsimmTypeOK, NEW c \in Cores, MayFetch(c), NextLine(c)
  PROVE  line' \in [Cores -> Line] /\ lines_left' \in [Cores -> 0 .. TraceLength]
<1>1. /\ line \in [Cores -> Line] /\ lines_left \in [Cores -> 0 .. TraceLength]
      /\ lines_left[c] > 0
  BY DEF UsimmTypeOK, MayFetch
<1>2. lines_left[c] \in 0 .. TraceLength /\ lines_left[c] - 1 \in 0 .. TraceLength
  BY <1>1, LoopSizes
<1>3. lines_left' \in [Cores -> 0 .. TraceLength]
  BY <1>1, <1>2 DEF NextLine
<1>4. line' \in [Cores -> Line]
  <2>1. CASE lines_left[c] > 1
    <3>1. lines_left[c] - 1 \in 1 .. TraceLength
      BY <1>2, <2>1, LoopSizes
    <3>2. PICK next \in Lines[c][lines_left[c] - 1] : line' = [line EXCEPT ![c] = next]
      BY <2>1 DEF NextLine
    <3>3. next \in Line
      BY <3>1, <3>2, LinesAssumption
    <3> QED BY <1>1, <3>2, <3>3
  <2>2. CASE ~(lines_left[c] > 1)
    BY <1>1, <2>2 DEF NextLine
  <2> QED BY <2>1, <2>2
<1> QED BY <1>3, <1>4

LEMMA FetchNonMemoryInv ==
  ASSUME UsimmInv, NEW c \in Cores, FetchNonMemory(c) PROVE UsimmInv'
<1>1. UsimmTypeOK
  BY DEF UsimmInv
<1>2. PIPELINEDEPTH \in -1 .. BIGNUM
  BY LoopSizes, BignumAssumption, LookupAssumption
<1>3. ROB' \in [Cores -> ReorderBuffer] /\ num_fetch' \in 0 .. MAX_FETCH
  BY <1>1, <1>2, EnterROBType DEF FetchNonMemory
<1>4. line' \in [Cores -> Line]
  <2>1. line \in [Cores -> Line] /\ line[c].nonmemops > 0
    BY <1>1 DEF UsimmTypeOK, FetchNonMemory
  <2>2. line' = [line EXCEPT ![c] = [line[c] EXCEPT !.nonmemops = line[c].nonmemops - 1]]
    BY <2>1 DEF FetchNonMemory
  <2>3. [line[c] EXCEPT !.nonmemops = line[c].nonmemops - 1] \in Line
    BY <2>1 DEF Line
  <2> QED BY <2>1, <2>2, <2>3
<1>5. UsimmTypeOK'
  BY <1>1, <1>3, <1>4 DEF UsimmTypeOK, FetchNonMemory, EnterROB, queueVars
<1>6. UNCHANGED <<queueVars, prefixtable>>
  BY DEF FetchNonMemory, EnterROB
<1> QED BY <1>5, <1>6, SameQueues

LEMMA FetchNothingInv ==
  ASSUME UsimmInv, NEW c \in Cores, FetchNothing(c) PROVE UsimmInv'
<1>1. UsimmTypeOK
  BY DEF UsimmInv
<1>2. pc' \in {"tick", "fetch"} /\ numc' \in Cores /\ num_fetch' \in 0 .. MAX_FETCH
  <2>1. CASE c = NumCores
    BY <1>1, <2>1, LoopSizes DEF FetchNothing, UsimmTypeOK
  <2>2. CASE c # NumCores
    <3>1. c + 1 \in Cores
      BY <2>2, CoresType
    <3> QED BY <2>2, <3>1, LoopSizes DEF FetchNothing
  <2> QED BY <2>1, <2>2
<1>3. UsimmTypeOK'
  BY <1>1, <1>2 DEF UsimmTypeOK, FetchNothing, queueVars, coreVars
<1>4. UNCHANGED <<queueVars, prefixtable>>
  BY DEF FetchNothing, coreVars
<1> QED BY <1>3, <1>4, SameQueues

LEMMA FetchReadInv ==
  ASSUME UsimmInv, NEW c \in Cores, FetchRead(c) PROVE UsimmInv'
<1> DEFINE latency == ReadMatch(Addr(c))
           q == [physical_address |-> Addr(c), addr |-> CalcDramAddr(Addr(c)),
                 thread_id |-> c, instruction_id |-> ROB[c].tail, request_served |-> FALSE]
<1>1. UsimmTypeOK /\ MayFetch(c)
  BY DEF UsimmInv, FetchRead
<1>2. line' \in [Cores -> Line] /\ lines_left' \in [Cores -> 0 .. TraceLength]
  BY <1>1, NextLineType DEF FetchRead
<1>3. UNCHANGED write_queue
  BY DEF FetchRead
<1>4. UNCHANGED <<vars, prefixtable, pc, numc, subcycle, expt_done>>
  BY DEF FetchRead, EnterROB
<1>5. CASE latency # 0
  <2>1. EnterROB(c, latency + PIPELINEDEPTH) /\ UNCHANGED read_queue
    BY <1>5 DEF FetchRead
  <2>2. latency + PIPELINEDEPTH \in -1 .. BIGNUM
    <3>1. latency \in {WQ_LOOKUP_LATENCY, RQ_LOOKUP_LATENCY}
      BY <1>5 DEF ReadMatch
    <3>2. WQ_LOOKUP_LATENCY \in Nat /\ RQ_LOOKUP_LATENCY \in Nat
      BY LookupAssumption DEF RQ_LOOKUP_LATENCY
    <3> HIDE DEF latency
    <3> QED BY <3>1, <3>2, LoopSizes, BignumAssumption
  <2>3. ROB' \in [Cores -> ReorderBuffer] /\ num_fetch' \in 0 .. MAX_FETCH
    BY <1>1, <2>1, <2>2, EnterROBType
  <2>4. UsimmTypeOK'
    BY <1>1, <1>2, <1>3, <1>4, <2>1, <2>3 DEF UsimmTypeOK
  <2> QED BY <1>3, <1>4, <2>1, <2>4, SameQueues DEF queueVars
<1>6. CASE latency = 0
  <2>1. EnterROB(c, BIGNUM) /\ read_queue' = Append(read_queue, q)
    BY <1>6 DEF FetchRead, InsertRead
  <2>2. ROB' \in [Cores -> ReorderBuffer] /\ num_fetch' \in 0 .. MAX_FETCH
    <3>1. BIGNUM \in -1 .. BIGNUM
      BY LoopSizes
    <3> QED BY <1>1, <2>1, <3>1, EnterROBType
  <2>3. q \in ReadRequest
    <3>1. ROB[c].tail \in Slots
      BY <1>1 DEF UsimmTypeOK, ReorderBuffer
    <3> QED BY <1>1, <3>1, AddrType DEF ReadRequest
  <2>4. read_queue \in Seq(ReadRequest) /\ Genuine(read_queue) /\ Single(read_queue)
    BY DEF UsimmInv, UsimmTypeOK
  <2>5. WQ_LOOKUP_LATENCY # 0 => ~Holds(read_queue, Addr(c))
    BY <1>6 DEF ReadMatch, RQ_LOOKUP_LATENCY
  <2>6. /\ q.physical_address = Addr(c) /\ q.addr = CalcDramAddr(Addr(c))
        /\ q.thread_id = c
    OBVIOUS
  <2>7. Genuine(Append(read_queue, q)) /\ Single(Append(read_queue, q))
    <3>1. /\ Addr(c) \in PhysicalAddresses
          /\ \E a \in LineAddresses : Addr(c) = Prefixed(a, prefixtable[c])
      BY <1>1, AddrType
    <3> HIDE DEF q
    <3> QED BY <2>3, <2>4, <2>5, <2>6, <3>1, InsertedInv
  <2> HIDE DEF q
  <2>8. read_queue' \in Seq(ReadRequest)
    BY <2>1, <2>3, <2>4
  <2>9. UsimmTypeOK'
    BY <1>1, <1>2, <1>3, <1>4, <2>2, <2>8 DEF UsimmTypeOK
  <2>10. /\ Genuine(read_queue)' /\ Genuine(write_queue)'
         /\ Single(read_queue)' /\ Single(write_queue)'
    BY <1>3, <1>4, <2>1, <2>7 DEF UsimmInv, Genuine, Single
  <2> QED BY <1>3, <2>9, <2>10 DEF UsimmInv, WriteQueueBounded
<1> QED BY <1>5, <1>6

\* The queue is not full before, so it is not too full after.
LEMMA FetchWriteInv ==
  ASSUME UsimmInv, NEW c \in Cores, FetchWrite(c) PROVE UsimmInv'
<1> DEFINE q == [physical_address |-> Addr(c), addr |-> CalcDramAddr(Addr(c)),
                 thread_id |-> c, request_served |-> FALSE]
<1>1. UsimmTypeOK /\ MayFetch(c)
  BY DEF UsimmInv, FetchWrite
<1>2. line' \in [Cores -> Line] /\ lines_left' \in [Cores -> 0 .. TraceLength]
  BY <1>1, NextLineType DEF FetchWrite
<1>3. ROB' \in [Cores -> ReorderBuffer] /\ num_fetch' \in 0 .. MAX_FETCH
  <2>1. PIPELINEDEPTH \in -1 .. BIGNUM
    BY LoopSizes, BignumAssumption, LookupAssumption
  <2> QED BY <1>1, <2>1, EnterROBType DEF FetchWrite
<1>4. UNCHANGED <<vars, prefixtable, pc, numc, subcycle, expt_done, read_queue>>
  BY DEF FetchWrite, EnterROB
<1>5. CASE WriteExists(Addr(c))
  <2>1. UNCHANGED write_queue
    BY <1>5 DEF FetchWrite
  <2>2. UsimmTypeOK'
    BY <1>1, <1>2, <1>3, <1>4, <2>1 DEF UsimmTypeOK
  <2> QED BY <1>4, <2>1, <2>2, SameQueues DEF queueVars
<1>6. CASE ~WriteExists(Addr(c))
  <2>1. write_queue' = Append(write_queue, q)
    BY <1>6 DEF FetchWrite, InsertWrite
  <2>2. q \in WriteRequest
    BY <1>1, AddrType DEF WriteRequest
  <2>3. write_queue \in Seq(WriteRequest) /\ Genuine(write_queue) /\ Single(write_queue)
    BY DEF UsimmInv, UsimmTypeOK
  <2>4. ~Holds(write_queue, Addr(c))
    BY <1>6 DEF WriteExists
  <2>5. /\ q.physical_address = Addr(c) /\ q.addr = CalcDramAddr(Addr(c))
        /\ q.thread_id = c
    OBVIOUS
  <2>6. Genuine(Append(write_queue, q)) /\ Single(Append(write_queue, q))
    <3>1. /\ Addr(c) \in PhysicalAddresses
          /\ \E a \in LineAddresses : Addr(c) = Prefixed(a, prefixtable[c])
      BY <1>1, AddrType
    <3> HIDE DEF q
    <3> QED BY <2>2, <2>3, <2>4, <2>5, <3>1, InsertedInv
  <2> HIDE DEF q
  <2>7. write_queue' \in Seq(WriteRequest) /\ Len(write_queue') = Len(write_queue) + 1
    BY <2>1, <2>2, <2>3
  <2>8. UsimmTypeOK'
    BY <1>1, <1>2, <1>3, <1>4, <2>7 DEF UsimmTypeOK
  <2>9. /\ Genuine(read_queue)' /\ Genuine(write_queue)'
        /\ Single(read_queue)' /\ Single(write_queue)'
    BY <1>4, <2>1, <2>6 DEF UsimmInv, Genuine, Single
  <2>10. WriteQueueBounded'
    <3>1. Len(write_queue) \in Nat /\ Len(write_queue) <= WQ_CAPACITY
      BY <2>3 DEF UsimmInv, WriteQueueBounded
    <3>2. Len(write_queue) # WQ_CAPACITY
      BY <1>1 DEF MayFetch, WriteQFull
    <3> QED BY <2>7, <3>1, <3>2, LoopSizes DEF WriteQueueBounded
  <2> QED BY <2>8, <2>9, <2>10 DEF UsimmInv
<1> QED BY <1>5, <1>6

LEMMA ScheduleInv == ASSUME UsimmInv, AnySchedule PROVE UsimmInv'
<1>1. UsimmTypeOK
  BY DEF UsimmInv
<1>2. UNCHANGED <<prefixtable, line, lines_left, subcycle, expt_done>>
  BY DEF AnySchedule
<1>3. pc' \in {"fetch", "autoprecharge"} /\ numc' \in Cores /\ num_fetch' \in 0 .. MAX_FETCH
  <2>1. CASE StartFetch
    BY <2>1, FetchStarts
  <2>2. CASE pc' = "autoprecharge" /\ UNCHANGED <<numc, num_fetch>>
    BY <1>1, <2>2 DEF UsimmTypeOK
  <2> QED BY <2>1, <2>2 DEF AnySchedule
<1>4. CASE \E i \in DOMAIN read_queue : IssueRead(i)
  <2>1. PICK i \in DOMAIN read_queue : IssueRead(i)
    BY <1>4
  <2>2. /\ read_queue' \in Seq(ReadRequest) /\ ROB' \in [Cores -> ReorderBuffer]
        /\ Genuine(read_queue)' /\ Single(read_queue)'
    BY <1>2, <2>1, ServeReadInv
  <2>3. UNCHANGED write_queue
    BY <2>1 DEF IssueRead
  <2>4. UsimmTypeOK'
    BY <1>1, <1>2, <1>3, <2>2, <2>3 DEF UsimmTypeOK
  <2>5. Genuine(write_queue)' /\ Single(write_queue)' /\ WriteQueueBounded'
    BY <1>2, <2>3 DEF UsimmInv, Genuine, Single, WriteQueueBounded
  <2> QED BY <2>2, <2>4, <2>5 DEF UsimmInv
<1>5. CASE \E i \in DOMAIN write_queue : IssueWrite(i)
  <2>1. PICK i \in DOMAIN write_queue : IssueWrite(i)
    BY <1>5
  <2>2. /\ write_queue' \in Seq(WriteRequest) /\ Len(write_queue') = Len(write_queue)
        /\ Genuine(write_queue)' /\ Single(write_queue)'
    BY <1>2, <2>1, ServeWriteInv
  <2>3. UNCHANGED <<read_queue, ROB>>
    BY <2>1 DEF IssueWrite
  <2>4. UsimmTypeOK'
    BY <1>1, <1>2, <1>3, <2>2, <2>3 DEF UsimmTypeOK
  <2>5. Genuine(read_queue)' /\ Single(read_queue)' /\ WriteQueueBounded'
    BY <1>2, <2>2, <2>3 DEF UsimmInv, Genuine, Single, WriteQueueBounded
  <2> QED BY <2>2, <2>4, <2>5 DEF UsimmInv
<1>6. CASE UNCHANGED <<queueVars, ROB>>
  <2>1. UsimmTypeOK'
    BY <1>1, <1>2, <1>3, <1>6 DEF UsimmTypeOK, queueVars
  <2> QED BY <1>2, <1>6, <2>1, SameQueues
<1>7. \/ \E i \in DOMAIN read_queue : IssueRead(i)
      \/ \E i \in DOMAIN write_queue : IssueWrite(i)
      \/ UNCHANGED <<queueVars, ROB>>
  BY DEF AnySchedule
<1> QED BY <1>4, <1>5, <1>6, <1>7

LEMMA UsimmStep == ASSUME UsimmInv, [UsimmNext]_usimmVars PROVE UsimmInv'
<1>1. CASE Retire
  BY <1>1, RetireInv
<1>2. CASE MemoryCycle
  BY <1>2, MemoryCycleInv
<1>3. CASE Fetch
  BY <1>3, FetchNonMemoryInv, FetchReadInv, FetchWriteInv, FetchNothingInv DEF Fetch
<1>4. CASE Tick
  BY <1>4, TickInv
<1>5. CASE AnySchedule
  BY <1>5, ScheduleInv
<1>6. CASE UNCHANGED usimmVars
  <2>1. UsimmTypeOK'
    BY <1>6 DEF UsimmInv, UsimmTypeOK, usimmVars, queueVars, coreVars, loopVars
  <2> QED BY <1>6, <2>1, SameQueues DEF usimmVars, coreVars
<1> QED BY <1>1, <1>2, <1>3, <1>4, <1>5, <1>6 DEF UsimmNext, LoopStep, Stop

LEMMA UsimmInvariance == UsimmSpec => []UsimmInv
  BY UsimmInitially, UsimmStep, PTL DEF UsimmSpec

-----------------------------------------------------------------------------
\* The queues.

\* The variables of the queues and the cores keep their types, whatever schedule()
\* issues: in particular the retirement of main.c stops, its cores never have more
\* instructions in flight than the reorder buffer has slots, and every address a core
\* makes has a place in the DRAM.
THEOREM UsimmTypeCorrect == UsimmSpec => []UsimmTypeOK
BY UsimmInvariance, PTL DEF UsimmInv

\* No core writes past the capacity of the write queue: main.c tests it before each
\* instruction, for equality only, and an instruction inserts one write at most.
THEOREM WriteQueueBoundedHolds == UsimmSpec => []WriteQueueBounded
BY UsimmInvariance, PTL DEF UsimmInv

LEMMA QueuesType ==
  ASSUME UsimmInv
  PROVE  /\ read_queue \in Seq(ReadRequest) /\ write_queue \in Seq(WriteRequest)
         /\ Genuine(read_queue) /\ Genuine(write_queue)
         /\ Single(read_queue) /\ Single(write_queue)
BY DEF UsimmInv, UsimmTypeOK

\* No queue ever holds two requests for one place of the DRAM, although
\* write_exists_in_write_queue and read_matches_write_or_read_queue look for physical
\* addresses and served requests leave only at the next update_memory.
THEOREM NoTwinsHolds ==
  ASSUME WQ_LOOKUP_LATENCY # 0
  PROVE  UsimmSpec => []NoTwins
<1>1. ASSUME NEW queue, Genuine(queue), Single(queue),
             NEW i \in DOMAIN queue, NEW j \in DOMAIN queue, i # j
      PROVE  queue[i].addr # queue[j].addr
  BY <1>1, PlacesKeptApart DEF Genuine, Single, PlacesApart
<1>2. UsimmInv => NoTwins
  BY <1>1, QueuesType DEF NoTwins
<1>3. QED
  BY <1>2, UsimmInvariance, PTL

\* The prefix of an address is what is left of it above the address bits.
LEMMA PrefixesDiffer ==
  ASSUME NEW a \in LineAddresses, NEW b \in LineAddresses,
         NEW p \in Nat, NEW q \in Nat, Prefixed(a, p) = Prefixed(b, q)
  PROVE  p = q
<1> DEFINE B == Pow2[ADDRESS_BITS]
<1>1. B \in Int
  BY WidthsAssumption, PowersType
<1>2. a \in 0 .. B - 1 /\ b \in 0 .. B - 1
  BY DEF LineAddresses
<1>3. a + p * B = b + q * B
  BY DEF Prefixed
<1> HIDE DEF B
<1>4. ASSUME NEW x \in 0 .. B - 1, NEW y \in 0 .. B - 1, NEW m \in Nat, NEW n \in Nat,
             m < n
      PROVE  x + m * B # y + n * B
  <2>1. PICK d \in Nat : n = m + 1 + d
    <3>1. n - m - 1 \in Nat /\ n = m + 1 + (n - m - 1)
      BY <1>4
    <3> QED BY <3>1
  <2>2. n * B = m * B + B + d * B
    BY <1>1, <2>1
  <2>3. d * B \in Int /\ d * B >= 0 /\ m * B \in Int
    BY <1>1, <1>4
  <2> HIDE DEF B
  <2>4. x < B /\ y >= 0
    BY <1>1
  <2> QED BY <1>1, <2>2, <2>3, <2>4
<1> QED BY <1>1, <1>2, <1>3, <1>4

\* "Each trace accesses a different address space": requests of traces that are not
\* threads of one application are never for one place of the DRAM.
THEOREM AddressSpacesApartHolds == UsimmSpec => []AddressSpacesApart
<1>1. ASSUME UsimmInv, NEW q \in Requests
      PROVE  /\ q.physical_address \in PhysicalAddresses
             /\ q.addr = CalcDramAddr(q.physical_address)
             /\ prefixtable[q.thread_id] \in Nat
             /\ \E a \in LineAddresses :
                  q.physical_address = Prefixed(a, prefixtable[q.thread_id])
  <2>1. q.thread_id \in Cores
    <3>1. \/ \E i \in DOMAIN read_queue : q = read_queue[i]
          \/ \E i \in DOMAIN write_queue : q = write_queue[i]
      BY DEF Requests
    <3>2. \A i \in DOMAIN read_queue : read_queue[i] \in ReadRequest
      BY <1>1, QueuesType
    <3>3. \A i \in DOMAIN write_queue : write_queue[i] \in WriteRequest
      BY <1>1, QueuesType
    <3> QED BY <3>1, <3>2, <3>3 DEF ReadRequest, WriteRequest
  <2>2. prefixtable[q.thread_id] \in Nat
    BY <1>1, <2>1, CoresType DEF UsimmInv, UsimmTypeOK
  <2> QED BY <1>1, <2>2, QueuesType DEF Requests, Genuine
<1>2. ASSUME UsimmInv, NEW p \in Requests, NEW q \in Requests, p.addr = q.addr
      PROVE  prefixtable[p.thread_id] = prefixtable[q.thread_id]
  <2>1. p.physical_address = q.physical_address
    BY <1>1, <1>2, PlacesKeptApart DEF PlacesApart
  <2> QED BY <1>1, <1>2, <2>1, PrefixesDiffer
<1>3. UsimmInv => AddressSpacesApart
  BY <1>2 DEF AddressSpacesApart
<1>4. QED
  BY <1>3, UsimmInvariance, PTL

\* A read is never sent to the DRAM past an older write of the same place, which
\* read_matches_write_or_read_queue would have found.
THEOREM ReadsSeeWritesHolds ==
  ASSUME WQ_LOOKUP_LATENCY # 0
  PROVE  UsimmSpec => ReadsSeeWrites
<1>1. ASSUME UsimmInv, NEW c \in Cores, FetchRead(c), read_queue' # read_queue,
             NEW i \in DOMAIN write_queue
      PROVE  write_queue[i].addr # CalcDramAddr(Addr(c))
  <2>1. ReadMatch(Addr(c)) = 0
    BY <1>1 DEF FetchRead
  <2>2. write_queue[i].physical_address # Addr(c)
    BY <2>1, LookupAssumption DEF ReadMatch, Holds
  <2>3. Addr(c) \in PhysicalAddresses
    BY <1>1, AddrType DEF UsimmInv
  <2> QED BY <1>1, <2>2, <2>3, QueuesType, PlacesKeptApart DEF Genuine, PlacesApart
<1>2. UsimmInv =>
        [\A c \in Cores : FetchRead(c) /\ read_queue' # read_queue =>
           \A i \in DOMAIN write_queue : write_queue[i].addr # CalcDramAddr(Addr(c))]_usimmVars
  BY <1>1
<1>3. QED
  BY <1>2, UsimmInvariance, PTL DEF ReadsSeeWrites

-----------------------------------------------------------------------------
\* The DRAM.

LEMMA RequestStep ==
  ASSUME NEW addr \in Address, NEW command, IssueRequestCommand(addr, command)
  PROVE  \E r \in Ranks, b \in Banks : BankStep(r, b)
<1>1. addr.rank \in Ranks /\ addr.bank \in Banks /\ addr.row \in Rows
  BY DEF Address
<1>2. BankStep(addr.rank, addr.bank)
  BY <1>1 DEF IssueRequestCommand, BankStep
<1> QED BY <1>1, <1>2

LEMMA DramStep == ASSUME UsimmInv, [UsimmNext]_usimmVars PROVE [LazyNext]_vars
<1>1. CASE MemoryCycle
  BY <1>1 DEF MemoryCycle, LazyNext
<1>2. CASE \E i \in DOMAIN read_queue : IssueRead(i)
  <2>1. PICK i \in DOMAIN read_queue : IssueRead(i)
    BY <1>2
  <2>2. read_queue[i].addr \in Address
    <3>1. read_queue[i] \in ReadRequest
      BY QueuesType
    <3> QED BY <3>1 DEF ReadRequest
  <2> QED BY <2>1, <2>2, RequestStep DEF IssueRead, LazyNext
<1>3. CASE \E i \in DOMAIN write_queue : IssueWrite(i)
  <2>1. PICK i \in DOMAIN write_queue : IssueWrite(i)
    BY <1>3
  <2>2. write_queue[i].addr \in Address
    <3>1. write_queue[i] \in WriteRequest
      BY QueuesType
    <3> QED BY <3>1 DEF WriteRequest
  <2> QED BY <2>1, <2>2, RequestStep DEF IssueWrite, LazyNext
<1>4. CASE \E r \in Ranks : SchedulerCommand(r)
  BY <1>4 DEF SchedulerCommand, BankStep, LazyNext
<1>5. CASE AnySchedule
  BY <1>2, <1>3, <1>4, <1>5 DEF AnySchedule
<1>6. CASE Retire \/ Tick \/ Fetch
  BY <1>6 DEF Retire, Tick, Fetch, FetchNonMemory, FetchRead, FetchWrite, FetchNothing, EnterROB
<1>7. CASE UNCHANGED usimmVars
  BY <1>7 DEF usimmVars
<1> QED BY <1>1, <1>5, <1>6, <1>7 DEF UsimmNext, LoopStep, Stop

\* The simulator, with any scheduler that issues no refreshes itself (none in src/ does),
\* implements the channel Dram with such a scheduler: whatever is true of LazySpec is true
\* of the channel inside the simulator.
THEOREM SimulatorDrivesDram == UsimmSpec => LazySpec
<1>1. UsimmInit => Init
  BY DEF UsimmInit
<1>2. QED
  BY <1>1, DramStep, UsimmInvariance, PTL DEF UsimmSpec, LazySpec

\* Hence no scheduler makes a rank of the simulator miss the deadline of its refreshes,
\* or be refreshed in the middle of something.
THEOREM RefreshesInTime == UsimmSpec => []DeadlinesRespected /\ QuietAtForcedRefresh
BY SimulatorDrivesDram, DeadlinesRespectedHolds, QuietAtForcedRefreshHolds
=============================================================================
