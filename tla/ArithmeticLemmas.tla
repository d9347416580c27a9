-------------------------- MODULE ArithmeticLemmas --------------------------
(***************************************************************************)
(* Division and remainder of integers, induction over the naturals and     *)
(* sums of sequences, as the other proof modules use them.                 *)
(***************************************************************************)
EXTENDS Integers, Sequences, WellFoundedInduction, TLAPS

(* Induction with the induction hypothesis as a set: what is proved of n   *)
(* is that it belongs to S.                                                *)
LEMMA InductionOnSet ==
  ASSUME NEW S, 0 \in S, \A n \in Nat : n \in S => n + 1 \in S
  PROVE  Nat \subseteq S
<1> DEFINE R == OpToRel(<, Nat)
           T == Nat \ S
<1>1. IsWellFoundedOn(R, Nat)
  BY NatLessThanWellFounded
<1>2. \A x, y \in Nat : <<x, y>> \in R <=> x < y
  BY DEF OpToRel
<1> HIDE DEF R
<1>3. SUFFICES ASSUME T # {} PROVE FALSE
  OBVIOUS
<1>4. PICK x \in T : \A y \in T : ~ (<<y, x>> \in R)
  <2>1. T \subseteq Nat
    OBVIOUS
  <2> HIDE DEF T
  <2>2. QED
    BY <1>1, <1>3, <2>1, WFMin
<1>5. x \in Nat /\ x # 0 /\ x \notin S
  OBVIOUS
<1>6. x - 1 \in Nat
  BY <1>5
<1>7. x - 1 \in S
  <2>1. <<x - 1, x>> \in R
    BY <1>2, <1>5, <1>6
  <2>2. QED
    BY <1>4, <1>6, <2>1
<1>8. (x - 1) + 1 = x
  BY <1>5
<1>9. QED
  BY <1>5, <1>6, <1>7, <1>8

(* The running sums of x[1], ..., x[n] exist, and there is only one        *)
(* function of them.                                                       *)
PartialSums(x, n, f) ==
  f = [k \in 0..n |-> IF k = 0 THEN 0 ELSE f[k - 1] + x[k]]

LEMMA PartialSumsExist ==
  ASSUME NEW x, NEW n \in Nat
  PROVE  \E f : PartialSums(x, n, f)
<1> DEFINE S == {m \in Nat : \E f : PartialSums(x, m, f)}
<1>1. 0 \in S
  <2> DEFINE f == [k \in 0..0 |-> 0]
  <2>1. f = [k \in 0..0 |-> IF k = 0 THEN 0 ELSE f[k - 1] + x[k]]
    OBVIOUS
  <2>2. PartialSums(x, 0, f)
    BY <2>1 DEF PartialSums
  <2>3. QED
    BY <2>2
<1>2. ASSUME NEW m \in Nat, m \in S
      PROVE  m + 1 \in S
  <2>1. PICK f : PartialSums(x, m, f)
    BY <1>2
  <2> DEFINE g == [k \in 0..(m + 1) |->
                     IF k = m + 1 THEN f[m] + x[m + 1] ELSE f[k]]
             h == [k \in 0..(m + 1) |->
                     IF k = 0 THEN 0 ELSE g[k - 1] + x[k]]
  <2>2. \A k \in 0..m : f[k] = IF k = 0 THEN 0 ELSE f[k - 1] + x[k]
    BY <2>1 DEF PartialSums
  <2>3. \A k \in 0..(m + 1) : g[k] = h[k]
    <3> TAKE k \in 0..(m + 1)
    <3>1. CASE k = 0
      BY <2>2, <3>1
    <3>2. CASE k \in 1..m
      <4>1. k - 1 \in 0..(m + 1) /\ k - 1 # m + 1 /\ k \in 0..m
            /\ k # m + 1 /\ k # 0
        BY <3>2
      <4>2. g[k] = f[k] /\ g[k - 1] = f[k - 1]
        BY <4>1
      <4>3. QED
        BY <2>2, <4>1, <4>2
    <3>3. CASE k = m + 1
      BY <3>3
    <3>4. QED
      BY <3>1, <3>2, <3>3
  <2>4. g = h
    BY <2>3
  <2>5. PartialSums(x, m + 1, g)
    BY <2>4 DEF PartialSums
  <2>6. QED
    BY <2>5
<1>3. Nat \subseteq S
  <2> HIDE DEF S
  <2>1. QED
    BY <1>1, <1>2, InductionOnSet
<1>4. QED
  BY <1>3

LEMMA PartialSumsUnique ==
  ASSUME NEW x, NEW n \in Nat,
         NEW f, PartialSums(x, n, f), NEW g, PartialSums(x, n, g)
  PROVE  f = g
<1> DEFINE S == {m \in Nat : m <= n => f[m] = g[m]}
<1>1. \A k \in 0..n : /\ f[k] = IF k = 0 THEN 0 ELSE f[k - 1] + x[k]
                      /\ g[k] = IF k = 0 THEN 0 ELSE g[k - 1] + x[k]
  BY DEF PartialSums
<1>2. 0 \in S
  BY <1>1
<1>3. ASSUME NEW m \in Nat, m \in S
      PROVE  m + 1 \in S
  <2>1. CASE m + 1 <= n
    <3>1. m + 1 \in 0..n /\ m + 1 # 0 /\ (m + 1) - 1 = m
      BY <2>1
    <3>2. f[m] = g[m]
      BY <1>3, <2>1
    <3>3. f[m + 1] = f[m] + x[m + 1] /\ g[m + 1] = g[m] + x[m + 1]
      BY <1>1, <3>1
    <3>4. QED
      BY <3>2, <3>3
  <2>2. CASE ~(m + 1 <= n)
    BY <2>2
  <2>3. QED
    BY <2>1, <2>2
<1>4. Nat \subseteq S
  <2> HIDE DEF S
  <2>1. QED
    BY <1>2, <1>3, InductionOnSet
<1>5. \A k \in 0..n : f[k] = g[k]
  BY <1>4
<1>6. QED
  BY <1>5 DEF PartialSums

(* What SampleLog calls Total, for any sequence: nothing for the empty     *)
(* one, and the last element more than for the sequence without it.        *)
SumOf(s) ==
  LET upTo[k \in 0..Len(s)] == IF k = 0 THEN 0 ELSE upTo[k - 1] + s[k]
  IN  upTo[Len(s)]

LEMMA SumIsPartialSum ==
  ASSUME NEW s, Len(s) \in Nat, NEW f, PartialSums(s, Len(s), f)
  PROVE  SumOf(s) = f[Len(s)]
<1> DEFINE c == CHOOSE g : PartialSums(s, Len(s), g)
<1>1. PartialSums(s, Len(s), c)
  OBVIOUS
<1>2. c = f
  BY <1>1, PartialSumsUnique
<1>3. SumOf(s) = c[Len(s)]
  BY DEF SumOf, PartialSums
<1>4. QED
  BY <1>2, <1>3

LEMMA SumAppend ==
  ASSUME NEW D, NEW s \in Seq(D), NEW t \in D
  PROVE  SumOf(<< >>) = 0 /\ SumOf(Append(s, t)) = SumOf(s) + t
<1> DEFINE n == Len(s)
           r == Append(s, t)
<1>1. n \in Nat /\ Len(r) = n + 1 /\ r[n + 1] = t
      /\ \A k \in 1..n : r[k] = s[k]
  OBVIOUS
<1> HIDE DEF n, r
<1>2. PICK f : PartialSums(r, n + 1, f)
  <2>1. n + 1 \in Nat
    BY <1>1
  <2>2. QED
    BY <2>1, PartialSumsExist
<1> DEFINE g == [k \in 0..n |-> f[k]]
           h == [k \in 0..n |-> IF k = 0 THEN 0 ELSE g[k - 1] + s[k]]
<1>3. \A k \in 0..(n + 1) : f[k] = IF k = 0 THEN 0 ELSE f[k - 1] + r[k]
  BY <1>2 DEF PartialSums
<1>4. \A k \in 0..n : g[k] = h[k]
  <2> TAKE k \in 0..n
  <2>1. k \in 0..(n + 1)
    BY <1>1
  <2>2. CASE k = 0
    BY <1>3, <2>1, <2>2
  <2>3. CASE k # 0
    <3>1. k - 1 \in 0..n /\ k \in 1..n
      BY <1>1, <2>3
    <3>2. QED
      BY <1>1, <1>3, <2>1, <2>3, <3>1
  <2>4. QED
    BY <2>2, <2>3
<1>5. g = h
  BY <1>4
<1>6. PartialSums(s, n, g)
  BY <1>5 DEF PartialSums
<1>7. SumOf(s) = f[n]
  <2>1. SumOf(s) = g[n]
    BY <1>1, <1>6, SumIsPartialSum DEF n
  <2>2. QED
    BY <1>1, <2>1
<1>8. SumOf(r) = f[n + 1]
  BY <1>1, <1>2, SumIsPartialSum
<1>9. f[n + 1] = f[n] + t
  <2>1. n + 1 \in 0..(n + 1) /\ n + 1 # 0 /\ (n + 1) - 1 = n
    BY <1>1
  <2>2. QED
    BY <1>1, <1>3, <2>1
<1>10. SumOf(<< >>) = 0
  <2>1. Len(<< >>) = 0
    OBVIOUS
  <2>2. PICK e : PartialSums(<< >>, 0, e)
    BY PartialSumsExist
  <2>3. e[0] = 0
    BY <2>2 DEF PartialSums
  <2>4. QED
    BY <2>1, <2>2, <2>3, SumIsPartialSum
<1>11. QED
  BY <1>7, <1>8, <1>9, <1>10 DEF r

LEMMA ModRange ==
  ASSUME NEW n \in Int, NEW m \in Nat \ {0}
  PROVE  n % m \in 0..(m - 1)
OBVIOUS

(* A remainder is the only one.                                            *)
LEMMA ModUnique ==
  ASSUME NEW m \in Nat \ {0}, NEW k \in Int, NEW r \in 0..(m - 1)
  PROVE  (m * k + r) % m = r
<1> DEFINE n == m * k + r
           q == n \div m
           d == q - k
<1>1. m * k \in Int /\ n \in Int
  OBVIOUS
<1>2. q \in Int /\ n = m * q + (n % m) /\ n % m \in 0..(m - 1)
  <2> HIDE DEF n
  <2>1. QED
    BY <1>1
<1>3. m * k \in Int /\ n = m * k + r
  OBVIOUS
<1> HIDE DEF n, q
<1>4. d \in Int /\ m * d = m * q - m * k /\ m * q \in Int
  BY <1>2
<1> HIDE DEF d
<1>5. m * d = r - (n % m) /\ r \in Int /\ n % m \in Int
  BY <1>2, <1>3, <1>4
<1>6. m * d < m /\ m * d > -m
  BY <1>2, <1>4, <1>5
<1>7. \A e \in Int : e >= 1 => m * e >= m
  OBVIOUS
<1>8. \A e \in Int : e <= -1 => m * e <= -m
  OBVIOUS
<1>9. d = 0
  BY <1>4, <1>6, <1>7, <1>8
<1>10. m * d = 0
  BY <1>9
<1>11. n % m = r
  BY <1>5, <1>10
<1>12. QED
  BY <1>11 DEF n

LEMMA ModSmall ==
  ASSUME NEW m \in Nat \ {0}, NEW n \in 0..(m - 1)
  PROVE  n % m = n
OBVIOUS

LEMMA ModBelow ==
  ASSUME NEW m \in Nat \ {0}, NEW n \in Nat
  PROVE  n % m \in Nat /\ n % m <= n
<1>1. n % m \in 0..(m - 1)
  OBVIOUS
<1>2. CASE n < m
  BY <1>2, ModSmall
<1>3. CASE n >= m
  BY <1>1, <1>3
<1>4. QED
  BY <1>2, <1>3

LEMMA QuotientBounds ==
  ASSUME NEW d \in Nat \ {0}, NEW n \in Int
  PROVE  /\ n \div d \in Int
         /\ d * (n \div d) <= n /\ n < d * (n \div d) + d
OBVIOUS

LEMMA QuotientAtLeast ==
  ASSUME NEW d \in Nat \ {0}, NEW n \in Int, NEW q \in Int, d * q <= n
  PROVE  q <= n \div d
<1> DEFINE k == n \div d
<1>1. k \in Int /\ n < d * k + d
  BY QuotientBounds
<1> HIDE DEF k
<1>2. d * q < d * (k + 1)
  BY <1>1
<1>3. q < k + 1
  BY <1>1, <1>2
<1>4. QED
  BY <1>1, <1>3 DEF k

LEMMA QuotientAtMost ==
  ASSUME NEW d \in Nat \ {0}, NEW n \in Int, NEW q \in Int, n <= d * q
  PROVE  n \div d <= q
<1> DEFINE k == n \div d
<1>1. k \in Int /\ d * k <= n
  BY QuotientBounds
<1> HIDE DEF k
<1>2. d * k <= d * q
  BY <1>1
<1>3. k <= q
  BY <1>1, <1>2
<1>4. QED
  BY <1>3 DEF k

LEMMA QuotientNat ==
  ASSUME NEW d \in Nat \ {0}, NEW n \in Nat
  PROVE  n \div d \in Nat /\ n \div d <= n
<1>1. 0 <= n \div d /\ n \div d \in Int
  BY QuotientBounds, QuotientAtLeast
<1>2. n <= d * n
  OBVIOUS
<1>3. QED
  BY <1>1, <1>2, QuotientAtMost
=============================================================================
