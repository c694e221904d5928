-------------------------- MODULE FailureReasonProofs --------------------------
(***************************************************************************)
(* Proof that the reason of a failed run is of that run, complete and in    *)
(* order.  The invariant is short; the work is in the order of the file     *)
(* names, which is that of decimal numerals as text.                        *)
(***************************************************************************)
EXTENDS FailureReason, WellFoundedInduction, NaturalsInduction, FiniteSetTheorems, TLAPS

(***************************************************************************)
(* Induction over the natural numbers, with a set in place of a predicate.  *)
(***************************************************************************)

LEMMA Least ==
    ASSUME NEW T, T \subseteq Nat, T # {}
    PROVE  \E n \in T : \A m \in T : n <= m
<1>1. PICK n \in T : \A m \in T : ~(<<m, n>> \in OpToRel(<, Nat))
  BY WFMin, NatLessThanWellFounded
<1>2. ASSUME NEW m \in T
      PROVE  n <= m
  <2>1. ~(<<m, n>> \in OpToRel(<, Nat))
    BY <1>1
  <2>2. ~(m < n)
    BY <2>1, Zenon DEF OpToRel
  <2> QED BY <2>2
<1> QED BY <1>2

LEMMA StrongInduction ==
    ASSUME NEW T, \A n \in Nat : (\A m \in Nat : m < n => m \in T) => n \in T
    PROVE  \A n \in Nat : n \in T
<1>1. SUFFICES ASSUME Nat \ T # {}
               PROVE  FALSE
  OBVIOUS
<1>2. PICK n \in Nat \ T : \A m \in Nat \ T : n <= m
  BY <1>1, Least
<1>3. \A m \in Nat : m < n => m \in T
  BY <1>2
<1> QED BY <1>2, <1>3

(***************************************************************************)
(* The digits of a number: the recursive function is well defined.          *)
(***************************************************************************)

(* Division with remainder.                                                 *)
LEMMA Tens ==
    ASSUME NEW n \in Nat
    PROVE  /\ n \div 10 \in Nat /\ n % 10 \in 0..9
           /\ n = 10 * (n \div 10) + (n % 10)
           /\ n >= 10 => n \div 10 < n /\ n \div 10 >= 1
OBVIOUS

NextDigits(f, n) == IF n < 10 THEN <<n>> ELSE Append(f[n \div 10], n % 10)

(* f is what digits should be, up to n.                                     *)
DigitsTo(f, n) == f = [m \in 0..n |-> NextDigits(f, m)]

LEMMA DigitsAgree ==
    ASSUME NEW a \in Nat, NEW b \in Nat, NEW f, NEW g, DigitsTo(f, a), DigitsTo(g, b)
    PROVE  \A n \in Nat : n <= a /\ n <= b => f[n] = g[n]
<1> DEFINE T == {n \in Nat : n <= a /\ n <= b => f[n] = g[n]}
<1>1. ASSUME NEW n \in Nat, \A m \in Nat : m < n => m \in T, n <= a, n <= b
      PROVE  f[n] = g[n]
  <2>1. f[n] = NextDigits(f, n) /\ g[n] = NextDigits(g, n)
    <3>1. n \in 0..a /\ n \in 0..b
      BY <1>1
    <3> QED BY <3>1, Zenon DEF DigitsTo
  <2>2. n >= 10 => n \div 10 \in Nat /\ n \div 10 < n
    BY Tens
  <2>3. n >= 10 => f[n \div 10] = g[n \div 10]
    BY <1>1, <2>2
  <2> QED BY <2>1, <2>3 DEF NextDigits
<1>2. \A n \in Nat : (\A m \in Nat : m < n => m \in T) => n \in T
  BY <1>1
<1>3. \A n \in Nat : n \in T
  <2> HIDE DEF T
  <2> QED BY <1>2, StrongInduction
<1> QED BY <1>3

LEMMA DigitsExist == \A n \in Nat : \E f : DigitsTo(f, n)
<1> DEFINE T == {n \in Nat : \E f : DigitsTo(f, n)}
<1>1. ASSUME NEW n \in Nat, \A m \in Nat : m < n => m \in T
      PROVE  n \in T
  <2>1. CASE n = 0
    <3> DEFINE f == [m \in 0..0 |-> <<m>>]
    <3>1. DigitsTo(f, 0)
      BY DEF DigitsTo, NextDigits
    <3> QED BY <2>1, <3>1
  <2>2. CASE n # 0
    <3>1. n - 1 \in Nat /\ n - 1 < n
      BY <2>2
    <3>2. PICK g : DigitsTo(g, n - 1)
      BY <1>1, <3>1
    <3> DEFINE f == [m \in 0..n |-> IF m = n THEN NextDigits(g, n) ELSE g[m]]
    <3>3. ASSUME NEW m \in 0..n
          PROVE  f[m] = NextDigits(f, m)
      <4>1. m >= 10 => f[m \div 10] = g[m \div 10]
        BY Tens
      <4>2. NextDigits(f, m) = NextDigits(g, m)
        BY <4>1 DEF NextDigits
      <4>3. CASE m = n
        BY <4>2, <4>3
      <4>4. CASE m # n
        BY <3>1, <3>2, <4>2, <4>4 DEF DigitsTo
      <4> QED BY <4>3, <4>4
    <3>4. DigitsTo(f, n)
      BY <3>3 DEF DigitsTo
    <3> QED BY <3>4
  <2> QED BY <2>1, <2>2
<1>2. \A n \in Nat : n \in T
  <2> HIDE DEF T
  <2> QED BY <1>1, StrongInduction
<1> QED BY <1>2

LEMMA DigitsDef == \A n \in Nat : digits[n] = NextDigits(digits, n)
<1> DEFINE part(n) == CHOOSE f : DigitsTo(f, n)
           whole   == [n \in Nat |-> part(n)[n]]
<1>1. \A n \in Nat : DigitsTo(part(n), n)
  BY DigitsExist
<1>2. ASSUME NEW n \in Nat
      PROVE  whole[n] = NextDigits(whole, n)
  <2> HIDE DEF part
  <2>1. part(n)[n] = NextDigits(part(n), n)
    BY <1>1 DEF DigitsTo
  <2>2. n >= 10 => part(n)[n \div 10] = part(n \div 10)[n \div 10]
    BY <1>1, Tens, DigitsAgree
  <2> QED BY <2>1, <2>2, Tens DEF NextDigits
<1>3. \E f : f = [n \in Nat |-> NextDigits(f, n)]
  <2> HIDE DEF part
  <2> QED BY <1>2
<1>4. digits = [n \in Nat |-> NextDigits(digits, n)]
  BY <1>3 DEF digits, NextDigits
<1> QED BY <1>4

LEMMA DigitsCases ==
    ASSUME NEW n \in Nat
    PROVE  /\ n < 10 => digits[n] = <<n>>
           /\ n >= 10 => digits[n] = Append(digits[n \div 10], n % 10)
<1>1. digits[n] = NextDigits(digits, n)
  BY DigitsDef
<1>2. n >= 10 => ~(n < 10)
  OBVIOUS
<1> QED BY <1>1, <1>2, Zenon DEF NextDigits

LEMMA DigitsType ==
    \A n \in Nat : /\ digits[n] \in Seq(0..9) /\ Len(digits[n]) >= 1
                   /\ Len(digits[n]) = 1 <=> n < 10
<1> DEFINE T == {n \in Nat : /\ digits[n] \in Seq(0..9) /\ Len(digits[n]) >= 1
                             /\ Len(digits[n]) = 1 <=> n < 10}
<1>1. ASSUME NEW n \in Nat, \A m \in Nat : m < n => m \in T
      PROVE  n \in T
  <2>1. CASE n < 10
    <3>1. digits[n] = <<n>> /\ n \in 0..9
      BY <2>1, DigitsCases
    <3>2. Len(<<n>>) = 1 /\ (n \in 0..9 => <<n>> \in Seq(0..9))
      OBVIOUS
    <3>3. digits[n] \in Seq(0..9) /\ Len(digits[n]) = 1
      BY <3>1, <3>2, Zenon
    <3>4. Len(digits[n]) >= 1 /\ (Len(digits[n]) = 1 <=> n < 10)
      BY <2>1, <3>3
    <3> QED BY <3>3, <3>4, Zenon
  <2>2. CASE n >= 10
    <3> DEFINE d == digits[n \div 10]
    <3>1. digits[n] = Append(d, n % 10)
      BY <2>2, DigitsCases, Zenon
    <3>2. d \in Seq(0..9) /\ Len(d) >= 1
      BY <1>1, <2>2, Tens
    <3>3. n % 10 \in 0..9
      BY Tens
    <3> HIDE DEF d
    <3>4. Append(d, n % 10) \in Seq(0..9) /\ Len(Append(d, n % 10)) = Len(d) + 1
      BY <3>2, <3>3
    <3>5. digits[n] \in Seq(0..9) /\ Len(digits[n]) = Len(d) + 1
      BY <3>1, <3>4, Zenon
    <3> QED BY <2>2, <3>2, <3>5
  <2> QED BY <2>1, <2>2
<1>2. \A n \in Nat : n \in T
  <2> HIDE DEF T
  <2> QED BY <1>1, StrongInduction
<1> QED BY <1>2

LEMMA DigitType ==
    \A n \in Nat : /\ Len(digits[n]) \in Nat
                   /\ \A k \in 1..Len(digits[n]) : digits[n][k] \in 0..9
BY DigitsType

(* The digits of n are those of m and the last one.                         *)
LongDigitsOf(n, m) ==
    /\ Len(digits[n]) = Len(digits[m]) + 1
    /\ \A k \in 1..Len(digits[m]) : digits[n][k] = digits[m][k]
    /\ digits[n][Len(digits[m]) + 1] = n % 10

LEMMA LongDigits ==
    ASSUME NEW n \in Nat, n >= 10
    PROVE  LongDigitsOf(n, n \div 10)
<1> DEFINE d == digits[n \div 10]
<1>1. digits[n] = Append(d, n % 10)
  BY DigitsCases, Zenon
<1>2. d \in Seq(0..9) /\ n % 10 \in 0..9
  BY DigitsType, Tens
<1> HIDE DEF d
<1>3. /\ Len(digits[n]) = Len(d) + 1
      /\ \A k \in 1..Len(d) : digits[n][k] = d[k]
      /\ digits[n][Len(d) + 1] = n % 10
  BY <1>1, <1>2
<1> QED BY <1>3, Zenon DEF LongDigitsOf, d

(* Two numerals with the same digits in all places.                         *)
SameDigits(i, j) ==
    /\ Len(digits[i]) = Len(digits[j])
    /\ \A k \in 1..Len(digits[i]) : digits[i][k] = digits[j][k]

LEMMA DigitsInjective == \A i, j \in Nat : SameDigits(i, j) => i = j
<1> DEFINE T == {i \in Nat : \A j \in Nat : SameDigits(i, j) => i = j}
<1>1. ASSUME NEW i \in Nat, \A m \in Nat : m < i => m \in T, NEW j \in Nat, SameDigits(i, j)
      PROVE  i = j
  <2>1. i < 10 <=> j < 10
    BY <1>1, DigitsType DEF SameDigits
  <2>2. CASE i < 10
    <3>1. digits[i] = <<i>> /\ digits[j] = <<j>>
      BY <2>1, <2>2, DigitsDef DEF NextDigits
    <3> QED BY <1>1, <3>1 DEF SameDigits
  <2>3. CASE i >= 10
    <3> DEFINE a == i \div 10
               b == j \div 10
    <3>1. /\ a \in Nat /\ a < i /\ i = 10 * a + (i % 10) /\ i % 10 \in 0..9
          /\ b \in Nat /\ j = 10 * b + (j % 10) /\ j % 10 \in 0..9
      BY <2>1, <2>3, Tens
    <3>2. LongDigitsOf(i, a) /\ LongDigitsOf(j, b)
      BY <2>1, <2>3, LongDigits
    <3> HIDE DEF a, b
    <3>3. Len(digits[a]) = Len(digits[b]) /\ Len(digits[a]) \in Nat
      <4>1. Len(digits[a]) \in Nat /\ Len(digits[b]) \in Nat
        BY <3>1, DigitsType
      <4>2. /\ Len(digits[i]) = Len(digits[a]) + 1
            /\ Len(digits[j]) = Len(digits[b]) + 1
        BY <3>2 DEF LongDigitsOf
      <4>3. Len(digits[i]) = Len(digits[j])
        BY <1>1 DEF SameDigits
      <4>4. \A x, y \in Nat : x + 1 = y + 1 => x = y
        OBVIOUS
      <4> QED BY <4>1, <4>2, <4>3, <4>4, Zenon
    <3>4. SameDigits(a, b)
      BY <1>1, <3>1, <3>2, <3>3 DEF SameDigits, LongDigitsOf
    <3>5. a = b
      BY <1>1, <3>1, <3>4
    <3>6. i % 10 = j % 10
      <4>1. Len(digits[a]) + 1 \in 1..Len(digits[i])
        BY <3>2, <3>3 DEF LongDigitsOf
      <4>2. digits[i][Len(digits[a]) + 1] = digits[j][Len(digits[b]) + 1]
        BY <1>1, <3>3, <4>1, Zenon DEF SameDigits
      <4> QED BY <3>2, <4>2, Zenon DEF LongDigitsOf
    <3> QED BY <3>1, <3>5, <3>6
  <2> QED BY <2>2, <2>3
<1>2. \A i \in Nat : i \in T
  <2>1. \A n \in Nat : (\A m \in Nat : m < n => m \in T) => n \in T
    BY <1>1
  <2> HIDE DEF T
  <2> QED BY <2>1, StrongInduction
<1> QED BY <1>2

(***************************************************************************)
(* The order of the names.                                                  *)
(***************************************************************************)

LEMMA NameIrreflexive == \A i \in Nat : ~NameBefore(i, i)
BY DigitsType DEF NameBefore

LEMMA NameTransitive ==
    ASSUME NEW i \in Nat, NEW j \in Nat, NEW m \in Nat, NameBefore(i, j), NameBefore(j, m)
    PROVE  NameBefore(i, m)
<1>1. PICK k \in 1..Len(digits[j]) :
         /\ \A l \in 1..(k - 1) : l <= Len(digits[i]) /\ digits[i][l] = digits[j][l]
         /\ k > Len(digits[i]) \/ digits[i][k] < digits[j][k]
  BY DEF NameBefore
<1>2. PICK n \in 1..Len(digits[m]) :
         /\ \A l \in 1..(n - 1) : l <= Len(digits[j]) /\ digits[j][l] = digits[m][l]
         /\ n > Len(digits[j]) \/ digits[j][n] < digits[m][n]
  BY DEF NameBefore
<1>t. digits[i] \in Seq(0..9) /\ digits[j] \in Seq(0..9) /\ digits[m] \in Seq(0..9)
  BY DigitsType
<1>3. CASE k < n
  <2>1. k \in 1..Len(digits[m]) /\ digits[j][k] = digits[m][k]
    BY <1>1, <1>2, <1>3, <1>t
  <2>2. \A l \in 1..(k - 1) : l <= Len(digits[i]) /\ digits[i][l] = digits[m][l]
    BY <1>1, <1>2, <1>3, <1>t
  <2>3. k > Len(digits[i]) \/ digits[i][k] < digits[m][k]
    BY <1>1, <2>1
  <2> QED BY <2>1, <2>2, <2>3 DEF NameBefore
<1>4. CASE n <= k
  <2>1. \A l \in 1..(n - 1) : l <= Len(digits[i]) /\ digits[i][l] = digits[m][l]
    BY <1>1, <1>2, <1>4, <1>t
  <2>2. digits[j][n] < digits[m][n]
    BY <1>1, <1>2, <1>4, <1>t
  <2>3. n > Len(digits[i]) \/ digits[i][n] < digits[m][n]
    <3>1. CASE n = k
      <4>1. n \in 1..Len(digits[i]) \/ n > Len(digits[i])
        BY <1>2, DigitType
      <4>2. digits[j][n] \in 0..9 /\ digits[m][n] \in 0..9
        BY <3>1, DigitType
      <4>3. \A x, y, z \in 0..9 : x < y /\ y < z => x < z
        OBVIOUS
      <4>4. n > Len(digits[i]) \/ digits[i][n] < digits[j][n]
        BY <1>1, <3>1
      <4>5. n \in 1..Len(digits[i]) => digits[i][n] \in 0..9
        BY DigitType
      <4> QED BY <2>2, <4>1, <4>2, <4>3, <4>4, <4>5, Zenon
    <3>2. CASE n < k
      BY <1>1, <1>2, <2>2, <3>2
    <3> QED BY <1>4, <3>1, <3>2
  <2> QED BY <2>1, <2>3 DEF NameBefore
<1> QED BY <1>3, <1>4

LEMMA NameConnected ==
    ASSUME NEW i \in Nat, NEW j \in Nat, i # j
    PROVE  NameBefore(i, j) \/ NameBefore(j, i)
<1> DEFINE D == {k \in Nat \ {0} : /\ k <= Len(digits[i]) \/ k <= Len(digits[j])
                                   /\ \/ k > Len(digits[i]) \/ k > Len(digits[j])
                                      \/ digits[i][k] # digits[j][k]}
<1>t. digits[i] \in Seq(0..9) /\ digits[j] \in Seq(0..9)
  BY DigitsType
<1>1. D # {}
  <2>1. CASE Len(digits[i]) = Len(digits[j])
    <3>1. PICK k \in 1..Len(digits[i]) : digits[i][k] # digits[j][k]
      BY <2>1, DigitsInjective DEF SameDigits
    <3>2. k \in D
      BY <1>t, <3>1
    <3> QED BY <3>2
  <2>2. CASE Len(digits[i]) < Len(digits[j])
    <3>1. Len(digits[j]) \in D
      BY <1>t, <2>2
    <3> QED BY <3>1
  <2>3. CASE Len(digits[j]) < Len(digits[i])
    <3>1. Len(digits[i]) \in D
      BY <1>t, <2>3
    <3> QED BY <3>1
  <2> QED BY <1>t, <2>1, <2>2, <2>3
<1>2. PICK k \in D : \A l \in D : k <= l
  <2>1. D \subseteq Nat
    OBVIOUS
  <2> HIDE DEF D
  <2> QED BY <1>1, <2>1, Least
<1>3. \A l \in 1..(k - 1) : /\ l <= Len(digits[i]) /\ l <= Len(digits[j])
                            /\ digits[i][l] = digits[j][l]
  <2> SUFFICES ASSUME NEW l \in 1..(k - 1)
               PROVE  /\ l <= Len(digits[i]) /\ l <= Len(digits[j])
                      /\ digits[i][l] = digits[j][l]
    OBVIOUS
  <2>1. l \notin D
    BY <1>2
  <2> QED BY <1>t, <1>2, <2>1
<1>4. CASE k > Len(digits[i])
  BY <1>t, <1>2, <1>3, <1>4 DEF NameBefore
<1>5. CASE k > Len(digits[j])
  BY <1>t, <1>2, <1>3, <1>5 DEF NameBefore
<1>6. CASE k <= Len(digits[i]) /\ k <= Len(digits[j])
  <2>1. k \in 1..Len(digits[i]) /\ k \in 1..Len(digits[j])
    BY <1>t, <1>6
  <2>2. digits[i][k] \in 0..9 /\ digits[j][k] \in 0..9
    BY <2>1, DigitType
  <2>3. digits[i][k] # digits[j][k]
    BY <1>2, <1>6
  <2>4. \A x, y \in 0..9 : x # y => x < y \/ y < x
    OBVIOUS
  <2>5. digits[i][k] < digits[j][k] \/ digits[j][k] < digits[i][k]
    BY <2>2, <2>3, <2>4, Zenon
  <2> QED BY <1>3, <2>1, <2>5 DEF NameBefore
<1> QED BY <1>t, <1>4, <1>5, <1>6

(* Among names of one length the order is that of the numbers.              *)
LEMMA NameOrder ==
    \A i, j \in Nat : NameBefore(i, j) /\ Len(digits[i]) = Len(digits[j]) => i < j
<1> DEFINE Ordered(i, j) == NameBefore(i, j) /\ Len(digits[i]) = Len(digits[j]) => i < j
           T == {i \in Nat : \A j \in Nat : Ordered(i, j)}
<1>1. ASSUME NEW i \in Nat, \A m \in Nat : m < i => m \in T, NEW j \in Nat,
             NameBefore(i, j), Len(digits[i]) = Len(digits[j])
      PROVE  i < j
  <2>1. i < 10 <=> j < 10
    BY <1>1, DigitsType
  <2>2. PICK k \in 1..Len(digits[j]) :
           /\ \A l \in 1..(k - 1) : digits[i][l] = digits[j][l]
           /\ digits[i][k] < digits[j][k]
    BY <1>1, DigitsType DEF NameBefore
  <2>3. CASE i < 10
    <3>1. digits[i] = <<i>> /\ digits[j] = <<j>>
      BY <2>1, <2>3, DigitsDef DEF NextDigits
    <3> QED BY <2>2, <3>1
  <2>4. CASE i >= 10
    <3> DEFINE a == i \div 10
               b == j \div 10
    <3>1. a \in Nat /\ b \in Nat /\ a < i
      BY <2>1, <2>4, Tens
    <3>2. LongDigitsOf(i, a) /\ LongDigitsOf(j, b)
      BY <2>1, <2>4, LongDigits
    <3>3. /\ i = 10 * a + (i % 10) /\ i % 10 \in 0..9
          /\ j = 10 * b + (j % 10) /\ j % 10 \in 0..9
      BY Tens
    <3> HIDE DEF a, b
    <3>4. Len(digits[a]) = Len(digits[b]) /\ Len(digits[a]) \in Nat
      <4>1. Len(digits[a]) \in Nat /\ Len(digits[b]) \in Nat
        BY <3>1, DigitsType
      <4>2. /\ Len(digits[i]) = Len(digits[a]) + 1
            /\ Len(digits[j]) = Len(digits[b]) + 1
        BY <3>2 DEF LongDigitsOf
      <4>3. Len(digits[i]) = Len(digits[j])
        BY <1>1
      <4>4. \A x, y \in Nat : x + 1 = y + 1 => x = y
        OBVIOUS
      <4> QED BY <4>1, <4>2, <4>3, <4>4, Zenon
    <3>5. CASE k <= Len(digits[a])
      <4>1. NameBefore(a, b)
        <5>1. k \in 1..Len(digits[a]) /\ k \in 1..Len(digits[b])
          BY <2>2, <3>4, <3>5
        <5>2. digits[i][k] = digits[a][k] /\ digits[j][k] = digits[b][k]
          BY <3>2, <5>1, Zenon DEF LongDigitsOf
        <5>3. \A l \in 1..(k - 1) : /\ l \in 1..Len(digits[a]) /\ l \in 1..Len(digits[b])
                                    /\ l <= Len(digits[a])
          BY <2>2, <3>4, <3>5
        <5>4. \A l \in 1..(k - 1) : l <= Len(digits[a]) /\ digits[a][l] = digits[b][l]
          BY <2>2, <3>2, <5>3, Zenon DEF LongDigitsOf
        <5> QED BY <2>2, <5>1, <5>2, <5>4, Zenon DEF NameBefore
      <4>2. a < b
        BY <1>1, <3>1, <3>4, <4>1
      <4> QED BY <3>1, <3>3, <4>2
    <3>6. CASE k = Len(digits[a]) + 1
      <4>1. SameDigits(a, b)
        BY <2>2, <3>2, <3>4, <3>6 DEF SameDigits, LongDigitsOf
      <4>2. a = b
        BY <3>1, <4>1, DigitsInjective
      <4>3. i % 10 < j % 10
        BY <2>2, <3>2, <3>4, <3>6 DEF LongDigitsOf
      <4> QED BY <3>1, <3>3, <4>2, <4>3
    <3> QED BY <1>1, <2>2, <3>2, <3>4, <3>5, <3>6 DEF LongDigitsOf
  <2> QED BY <2>3, <2>4
<1>2. \A i \in Nat : i \in T
  <2>1. \A n \in Nat : (\A m \in Nat : m < n => m \in T) => n \in T
    BY <1>1
  <2> HIDE DEF T
  <2> QED BY <2>1, StrongInduction
<1> QED BY <1>2

(***************************************************************************)
(* ReadDir returns the files, each once, in the order of their names.       *)
(***************************************************************************)

LEMMA Positions ==
    ASSUME NEW files, files \subseteq Nat, IsFiniteSet(files)
    PROVE  /\ \A i \in files : Position(i, files) \in 0..(Cardinality(files) - 1)
           /\ \A i, j \in files :
                 NameBefore(i, j) => Position(i, files) < Position(j, files)
<1> DEFINE before(i) == {other \in files : NameBefore(other, i)}
<1>1. ASSUME NEW i \in files
      PROVE  /\ before(i) \in SUBSET files /\ i \notin before(i)
             /\ IsFiniteSet(before(i)) /\ Position(i, files) = Cardinality(before(i))
             /\ Position(i, files) \in Nat
  <2>1. before(i) \in SUBSET files /\ i \notin before(i)
    BY NameIrreflexive
  <2>2. IsFiniteSet(before(i))
    BY <2>1, FS_Subset
  <2> QED BY <2>1, <2>2, FS_CardinalityType DEF Position
<1>2. ASSUME NEW i \in files
      PROVE  Position(i, files) \in 0..(Cardinality(files) - 1)
  <2>1. Cardinality(before(i)) <= Cardinality(files) /\ Cardinality(files) # Cardinality(before(i))
    BY <1>1, FS_Subset
  <2>2. Cardinality(files) \in Nat
    BY FS_CardinalityType
  <2> HIDE DEF before
  <2> QED BY <1>1, <2>1, <2>2
<1>3. ASSUME NEW i \in files, NEW j \in files, NameBefore(i, j)
      PROVE  Position(i, files) < Position(j, files)
  <2>1. before(i) \in SUBSET before(j)
    BY <1>3, NameTransitive
  <2>2. i \in before(j) /\ i \notin before(i)
    BY <1>1, <1>3
  <2>3. IsFiniteSet(before(j))
    BY <1>1
  <2>4. Cardinality(before(i)) <= Cardinality(before(j)) /\ Cardinality(before(j)) # Cardinality(before(i))
    <3> HIDE DEF before
    <3> QED BY <2>1, <2>2, <2>3, FS_Subset
  <2> HIDE DEF before
  <2> QED BY <1>1, <2>4
<1> QED BY <1>2, <1>3

LEMMA ReadDirSorts ==
    ASSUME NEW files, files \subseteq Nat, IsFiniteSet(files)
    PROVE  /\ ReadDir(files) \in [1..Cardinality(files) -> files]
           /\ \A i \in files : \E k \in 1..Cardinality(files) : ReadDir(files)[k] = i
           /\ \A k, l \in 1..Cardinality(files) :
                 k < l => NameBefore(ReadDir(files)[k], ReadDir(files)[l])
<1> DEFINE n   == Cardinality(files)
           pos == [i \in files |-> Position(i, files)]
           dir == ReadDir(files)
<1>1. n \in Nat
  BY FS_CardinalityType
<1>2. \A i, j \in files : Position(i, files) = Position(j, files) => i = j
  <2>1. \A i \in files : i \in Nat /\ Position(i, files) \in 0..(n - 1)
    BY Positions
  <2>2. \A i, j \in files : i # j => NameBefore(i, j) \/ NameBefore(j, i)
    BY <2>1, NameConnected
  <2>3. \A i, j \in files : NameBefore(i, j) => Position(i, files) < Position(j, files)
    BY Positions
  <2>4. \A x \in 0..(n - 1) : ~(x < x)
    OBVIOUS
  <2> QED BY <2>1, <2>2, <2>3, <2>4, Zenon
<1>3. pos \in Surjection(files, 0..(n - 1))
  <2>1. pos \in Injection(files, 0..(n - 1))
    <3>1. pos \in [files -> 0..(n - 1)]
      BY Positions
    <3> QED BY <1>2, <3>1 DEF Injection, IsInjective
  <2>2. IsFiniteSet(0..(n - 1)) /\ Cardinality(0..(n - 1)) = n
    <3> HIDE DEF n
    <3> QED BY <1>1, FS_Interval
  <2> HIDE DEF pos
  <2> QED BY <2>1, <2>2, FS_Injection
<1>4. ASSUME NEW k \in 1..n
      PROVE  dir[k] \in files /\ Position(dir[k], files) = k - 1
  <2>1. k - 1 \in 0..(n - 1)
    <3> HIDE DEF n
    <3> QED BY <1>1
  <2>2. \E i \in files : Position(i, files) = k - 1
    BY <1>3, <2>1 DEF Surjection
  <2>3. dir[k] = CHOOSE i \in files : Position(i, files) = k - 1
    BY DEF ReadDir
  <2> QED BY <2>2, <2>3
<1>5. dir \in [1..n -> files]
  BY <1>4 DEF ReadDir
<1>6. ASSUME NEW i \in files
      PROVE  \E k \in 1..n : dir[k] = i
  <2>1. Position(i, files) + 1 \in 1..n /\ Position(i, files) \in Nat
    <3>1. Position(i, files) \in 0..(n - 1)
      BY Positions
    <3> HIDE DEF n
    <3> QED BY <1>1, <3>1
  <2>2. Position(dir[Position(i, files) + 1], files) = Position(i, files)
    <3> HIDE DEF n, dir
    <3> QED BY <1>4, <2>1
  <2> QED BY <1>2, <1>4, <2>1, <2>2
<1>7. ASSUME NEW k \in 1..n, NEW l \in 1..n, k < l
      PROVE  NameBefore(dir[k], dir[l])
  <2> HIDE DEF dir, n
  <2>1. /\ dir[k] \in files /\ Position(dir[k], files) = k - 1
        /\ dir[l] \in files /\ Position(dir[l], files) = l - 1
    BY <1>4
  <2>2. dir[k] # dir[l] /\ ~(Position(dir[l], files) < Position(dir[k], files))
    BY <1>7, <2>1
  <2> QED BY <2>1, <2>2, NameConnected, Positions
<1> QED BY <1>5, <1>6, <1>7

(***************************************************************************)
(* The reason that Run makes of the events of a run.                        *)
(***************************************************************************)

(* The events that have a message: all that are readable and count.         *)
Counted(events) ==
    {i \in DOMAIN events : /\ events[i].event \notin {"runner_on_ok", "unreadable"}
                           /\ events[i].data = "plain"}

InOrder(msgs) ==
    \A k, l \in DOMAIN msgs :
        k < l /\ Len(digits[msgs[k]]) = Len(digits[msgs[l]]) => msgs[k] < msgs[l]

LEMMA ReasonOfEvents ==
    ASSUME NEW events \in Seq(jobEvent), NEW reason, reason = extractFailureReason(events)
    PROVE  /\ InOrder(reason.msgs)
           /\ reason.reasoned =>
                 /\ {reason.msgs[k] : k \in DOMAIN reason.msgs} = Counted(events)
                 /\ \A k, l \in DOMAIN reason.msgs : reason.msgs[k] = reason.msgs[l] => k = l
<1> DEFINE evts  == parseEvents(events)
           files == {i \in evts : runnerEventMessage(events[i])}
           msgs  == ReadDir(files)
<1>1. CASE \E i \in evts : events[i].data = "mistyped"
  <2>1. reason = PlainErr
    BY <1>1 DEF extractFailureReason
  <2>2. reason.msgs = <<>> /\ ~reason.reasoned
    BY <2>1 DEF PlainErr, Ok
  <2> QED BY <2>2 DEF InOrder
<1>2. CASE ~ \E i \in evts : events[i].data = "mistyped"
  <2>1. reason.msgs = msgs
    BY <1>2 DEF extractFailureReason
  <2>2. DOMAIN events = 1..Len(events) /\ \A i \in DOMAIN events : events[i] \in jobEvent
    OBVIOUS
  <2>3. files \subseteq Nat /\ IsFiniteSet(files)
    <3>1. files \in SUBSET (1..Len(events))
      BY <2>2 DEF parseEvents
    <3>2. IsFiniteSet(1..Len(events)) /\ 1..Len(events) \subseteq Nat
      BY FS_Interval
    <3> HIDE DEF files
    <3> QED BY <3>1, <3>2, FS_Subset
  <2>4. files = Counted(events)
    <3>1. ASSUME NEW i \in DOMAIN events
          PROVE  i \in files <=> i \in Counted(events)
      <4>1. i \in evts => events[i].data # "mistyped"
        BY <1>2
      <4> QED BY <2>2, <3>1, <4>1
              DEF Counted, parseEvents, runnerEventMessage, jobEvent, Quiet, Unreadable
    <3> QED BY <3>1 DEF Counted, parseEvents
  <2>5. /\ msgs \in [1..Cardinality(files) -> files]
        /\ \A i \in files : \E k \in 1..Cardinality(files) : msgs[k] = i
        /\ \A k, l \in 1..Cardinality(files) : k < l => NameBefore(msgs[k], msgs[l])
    <3> HIDE DEF files
    <3> QED BY <2>3, ReadDirSorts
  <2>6. Cardinality(files) \in Nat
    BY <2>3, FS_CardinalityType
  <2> HIDE DEF files, msgs
  <2>7. DOMAIN msgs = 1..Cardinality(files) /\ \A k \in DOMAIN msgs : msgs[k] \in Nat
    BY <2>3, <2>5
  <2>8. {msgs[k] : k \in DOMAIN msgs} = files
    BY <2>5, <2>7
  <2>9. \A k, l \in DOMAIN msgs : k < l => NameBefore(msgs[k], msgs[l])
    BY <2>5, <2>7
  <2>10. \A k, l \in DOMAIN msgs : msgs[k] = msgs[l] => k = l
    <3>1. \A k, l \in DOMAIN msgs : msgs[k] = msgs[l] => ~(k < l)
      BY <2>7, <2>9, NameIrreflexive
    <3>2. \A k, l \in DOMAIN msgs : k < l \/ l < k \/ k = l
      BY <2>6, <2>7
    <3> QED BY <3>1, <3>2
  <2>11. InOrder(msgs)
    BY <2>7, <2>9, NameOrder DEF InOrder
  <2> QED BY <2>1, <2>4, <2>8, <2>10, <2>11
<1> QED BY <1>1, <1>2

(***************************************************************************)
(* The invariant.                                                           *)
(***************************************************************************)

LEMMA ReasonInit == Init => ReasonInv
BY DEF Init, ReasonInv, ReasonIsOfThisRun, ReasonInOrder, Ok

LEMMA ReasonStep == ReasonInv /\ [Next]_vars => ReasonInv'
<1> SUFFICES ASSUME ReasonInv, [Next]_vars
             PROVE  ReasonInv'
  OBVIOUS
<1>n. Quiet \in jobEvent
  BY DEF jobEvent
<1>a. /\ runs \in Nat /\ happened \in Seq(jobEvent)
      /\ phase = "running" => runs \in DOMAIN artifacts /\ artifacts[runs] = happened
      /\ ReasonIsOfThisRun /\ ReasonInOrder
  BY DEF ReasonInv
<1>b. ASSUME result' \in {Ok, PlainErr}
      PROVE  ReasonIsOfThisRun' /\ ReasonInOrder'
  <2>1. result'.msgs = <<>> /\ ~result'.reasoned
    BY <1>b DEF Ok, PlainErr
  <2> QED BY <2>1 DEF ReasonIsOfThisRun, ReasonInOrder
<1>c. ASSUME UNCHANGED result, phase' = "running"
      PROVE  ReasonIsOfThisRun' /\ ReasonInOrder'
  BY <1>a, <1>c DEF ReasonIsOfThisRun, ReasonInOrder
<1>1. CASE Start
  <2>1. happened' \in Seq(jobEvent)
    <3>1. PICK quiet \in QuietStarts : happened' = [i \in 1..quiet |-> Quiet]
      BY <1>1 DEF Start
    <3>2. quiet \in Nat
      BY ReasonAssumption
    <3> QED BY <1>n, <3>1, <3>2
  <2>2. runs' \in Nat /\ runs' \in DOMAIN artifacts' /\ artifacts'[runs'] = happened'
    BY <1>1, <1>a DEF Start
  <2>3. UNCHANGED result /\ phase' = "running"
    BY <1>1 DEF Start
  <2> QED BY <1>c, <2>1, <2>2, <2>3 DEF ReasonInv
<1>2. CASE StartErr
  <2>1. /\ runs' \in Nat /\ happened' \in Seq(jobEvent)
        /\ phase' # "running" /\ result' = PlainErr
    BY <1>2, <1>a DEF StartErr
  <2> QED BY <1>b, <2>1 DEF ReasonInv
<1>3. ASSUME NEW e \in jobEvent \ {Quiet}, Emit(e)
      PROVE  ReasonInv'
  <2>1. /\ happened' = Append(happened, e) /\ UNCHANGED runs
        /\ artifacts' = [artifacts EXCEPT ![runs] = happened']
        /\ phase = "running" /\ phase' = "running" /\ UNCHANGED result
    BY <1>3 DEF Emit
  <2>2. happened' \in Seq(jobEvent)
    BY <1>a, <2>1
  <2>3. runs' \in Nat /\ runs' \in DOMAIN artifacts' /\ artifacts'[runs'] = happened'
    BY <1>a, <2>1
  <2> QED BY <1>c, <2>1, <2>2, <2>3 DEF ReasonInv
<1>4. CASE EndOk
  <2>1. result' = Ok /\ phase' # "running" /\ UNCHANGED <<runs, happened>>
    BY <1>4 DEF EndOk
  <2> QED BY <1>a, <1>b, <2>1 DEF ReasonInv
<1>5. CASE EndErr
  <2>1. /\ phase' # "running" /\ UNCHANGED <<runs, happened>>
        /\ result' = extractFailureReason(happened) \/ result' = PlainErr
    BY <1>5, <1>a DEF EndErr, jobEventsDir
  <2>2. CASE result' = PlainErr
    BY <1>a, <1>b, <2>1, <2>2 DEF ReasonInv
  <2>3. CASE result' = extractFailureReason(happened)
    <3>1. /\ InOrder(result'.msgs)
          /\ result'.reasoned =>
                /\ {result'.msgs[k] : k \in DOMAIN result'.msgs} = Counted(happened)
                /\ \A k, l \in DOMAIN result'.msgs :
                      result'.msgs[k] = result'.msgs[l] => k = l
      BY <1>a, <2>3, ReasonOfEvents
    <3>2. ReasonIsOfThisRun' /\ ReasonInOrder'
      BY <2>1, <3>1 DEF ReasonIsOfThisRun, ReasonInOrder, Counted, InOrder
    <3> QED BY <1>a, <2>1, <3>2 DEF ReasonInv
  <2> QED BY <2>1, <2>2, <2>3
<1>6. CASE UNCHANGED vars
  BY <1>a, <1>6 DEF vars, ReasonInv, ReasonIsOfThisRun, ReasonInOrder
<1> QED BY <1>1, <1>2, <1>3, <1>4, <1>5, <1>6 DEF Next

THEOREM ReasonInvariant == Spec => []ReasonInv
BY ReasonInit, ReasonStep, PTL DEF Spec

(* Run's error tells each task of this run that failed and counts, once,    *)
(* and nothing of the earlier runs whose artifacts the directory still has. *)
THEOREM ReasonOfThisRun == Spec => []ReasonIsOfThisRun
<1>1. ReasonInv => ReasonIsOfThisRun
  BY DEF ReasonInv
<1> QED BY <1>1, ReasonInvariant, PTL

(* Messages are in the order of their counters, except that a counter of    *)
(* more digits may come first.                                              *)
THEOREM ReasonOrder == Spec => []ReasonInOrder
<1>1. ReasonInv => ReasonInOrder
  BY DEF ReasonInv
<1> QED BY <1>1, ReasonInvariant, PTL

===============================================================================
