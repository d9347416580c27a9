------------------------- MODULE PercentileProofs -------------------------
(***************************************************************************)
(* Theorems about Percentile.tla, for every granularity, histogram, list   *)
(* of percentiles and scale.  A printed line is described by the bucket    *)
(* its scan stopped at (LineOf); the three properties of the printed       *)
(* bounds follow from that description alone.                              *)
(***************************************************************************)
EXTENDS Percentile, ArithmeticLemmas, FiniteSetTheorems, TLAPS

HistogramOK ==
  /\ buckets \in [0..(num_buckets - 1) -> 0..MaxSamples]
  /\ overflows \in 0..MaxSamples
  /\ num_samples \in 0..MaxSamples
  /\ num_samples = Cardinality(PointsBelow(num_buckets)) + overflows

(* Samples in the buckets below n *)
Below(n) == Cardinality(PointsBelow(n))

LEMMA FirstNumbers ==
  ASSUME NEW m \in Nat
  PROVE  IsFiniteSet(1..m) /\ Cardinality(1..m) = m
<1>1. 1 \in Int /\ m \in Int
  OBVIOUS
<1>2. IsFiniteSet(1..m) /\ Cardinality(1..m) = IF 1 > m THEN 0 ELSE m - 1 + 1
  BY <1>1, FS_Interval
<1>3. (IF 1 > m THEN 0 ELSE m - 1 + 1) = m
  OBVIOUS
<1>4. QED
  BY <1>2, <1>3

(* The samples of one more bucket (jtr.c:332).                             *)
LEMMA BelowFinite ==
  ASSUME HistogramOK, NEW n \in 0..num_buckets
  PROVE  IsFiniteSet(PointsBelow(n)) /\ Below(n) \in Nat
<1> DEFINE Box == (0..(num_buckets - 1)) \X (1..MaxSamples)
<1>1. n \in Nat /\ num_buckets \in Nat /\ n <= num_buckets /\ MaxSamples \in Nat
  BY PercAssumption
<1>2. IsFiniteSet(0..(num_buckets - 1)) /\ IsFiniteSet(1..MaxSamples)
  BY <1>1, FS_Interval
<1>3. IsFiniteSet(Box)
  BY <1>2, FS_Product
<1>4. ASSUME NEW b \in 0..(n - 1)
      PROVE  Points(b) \in SUBSET Box
  <2>1. b \in 0..(num_buckets - 1) /\ buckets[b] \in 0..MaxSamples
    BY <1>1 DEF HistogramOK
  <2>2. 1..buckets[b] \subseteq 1..MaxSamples
    BY <1>1, <2>1
  <2>3. QED
    BY <2>1, <2>2 DEF Points
<1>5. PointsBelow(n) \in SUBSET Box
  BY <1>4 DEF PointsBelow
<1>6. IsFiniteSet(PointsBelow(n))
  BY <1>3, <1>5, FS_Subset
<1>7. QED
  BY <1>6, FS_CardinalityType DEF Below

LEMMA BelowZero == Below(0) = 0
<1>1. PointsBelow(0) = {}
  BY DEF PointsBelow
<1>2. QED
  BY <1>1, FS_EmptySet DEF Below

LEMMA BelowStep ==
  ASSUME HistogramOK, NEW n \in 0..(num_buckets - 1)
  PROVE  Below(n + 1) = Below(n) + buckets[n]
<1>1. n \in Nat /\ num_buckets \in Nat /\ MaxSamples \in Nat
      /\ n \in 0..num_buckets /\ n + 1 \in 0..num_buckets
  BY PercAssumption
<1>2. buckets[n] \in Nat
  BY <1>1 DEF HistogramOK
<1>3. 0..((n + 1) - 1) = (0..(n - 1)) \cup {n}
  BY <1>1
<1>4. PointsBelow(n + 1) = PointsBelow(n) \cup Points(n)
  BY <1>3 DEF PointsBelow
<1>5. IsFiniteSet(Points(n)) /\ Cardinality(Points(n)) = buckets[n]
  <2>1. IsFiniteSet({n}) /\ Cardinality({n}) = 1
    BY FS_Singleton
  <2>2. IsFiniteSet(1..buckets[n]) /\ Cardinality(1..buckets[n]) = buckets[n]
    BY <1>2, FirstNumbers
  <2>3. IsFiniteSet(Points(n))
        /\ Cardinality(Points(n)) = Cardinality({n}) * Cardinality(1..buckets[n])
    BY <2>1, <2>2, FS_Product DEF Points
  <2>4. QED
    BY <1>2, <2>1, <2>2, <2>3
<1>6. PointsBelow(n) \cap Points(n) = {}
  <2>1. \A b \in 0..(n - 1) : b # n
    BY <1>1
  <2>2. QED
    BY <2>1 DEF PointsBelow, Points
<1>7. IsFiniteSet(PointsBelow(n)) /\ Below(n) \in Nat
  BY <1>1, BelowFinite
<1>8. Cardinality({}) = 0
  BY FS_EmptySet
<1>9. Cardinality(PointsBelow(n) \cup Points(n))
        = Cardinality(PointsBelow(n)) + Cardinality(Points(n)) - Cardinality({})
  BY <1>5, <1>6, <1>7, FS_Union
<1>10. Below(n + 1) = Below(n) + buckets[n] - 0
  BY <1>4, <1>5, <1>8, <1>9 DEF Below
<1>11. QED
  BY <1>2, <1>7, <1>10

LEMMA BelowMonotone ==
  ASSUME HistogramOK, NEW m \in 0..num_buckets, NEW n \in 0..num_buckets,
         m <= n
  PROVE  Below(m) <= Below(n)
<1>1. 0..(m - 1) \subseteq 0..(n - 1)
  BY PercAssumption
<1>2. PointsBelow(m) \in SUBSET PointsBelow(n)
  BY <1>1 DEF PointsBelow
<1>3. QED
  BY <1>2, BelowFinite, FS_Subset DEF Below

(* The samples below the upper edge of a bucket are those of the buckets   *)
(* up to it.                                                               *)
LEMMA CountBelowEdge ==
  ASSUME HistogramOK, NEW n \in 0..num_buckets
  PROVE  CountBelow(n * HISTO_GRANULARITY) = Below(n)
<1> DEFINE g == HISTO_GRANULARITY
<1>1. g \in Nat \ {0} /\ num_buckets \in Nat /\ n \in Nat /\ n <= num_buckets
  BY PercAssumption
<1> HIDE DEF g
<1>2. \A b \in Nat : b * g < n * g <=> b < n
  <2>1. \A x, y \in Nat : x <= y => x * g <= y * g
    BY <1>1
  <2>2. \A x, y \in Nat : x < y => x * g < y * g
    BY <1>1
  <2>3. \A b \in Nat : b * g \in Nat /\ n * g \in Nat
    BY <1>1
  <2>4. QED
    BY <1>1, <2>1, <2>2, <2>3
<1>3. \A b : \A pt \in Points(b) : pt[1] = b
  BY DEF Points
<1>4. \A b \in 0..(num_buckets - 1) : b * g < n * g <=> b \in 0..(n - 1)
  BY <1>1, <1>2
<1>5. {pt \in PointsBelow(num_buckets) : pt[1] * g < n * g} = PointsBelow(n)
  <2>1. 0..(n - 1) \subseteq 0..(num_buckets - 1)
    BY <1>1
  <2>2. QED
    BY <1>3, <1>4, <2>1, Zenon DEF PointsBelow
<1>6. QED
  BY <1>5 DEF CountBelow, Below, g

(* (int)(x + 0.5) is reached by a count exactly when x is, to the nearest  *)
(* integer (jtr.c:326).                                                    *)
LEMMA MinCountIsNearest ==
  ASSUME NEW p \in 0..Scale, NEW c \in Nat, num_samples \in Nat
  PROVE  /\ MinCount(p, num_samples) \in Nat
         /\ c >= MinCount(p, num_samples) <=> Reaches(c, p)
<1> DEFINE s == 2 * Scale
           x == 2 * p * num_samples
           q == (x + Scale) \div s
<1>1. Scale \in Nat \ {0} /\ s \in Nat \ {0} /\ s = 2 * Scale /\ p \in Nat
  BY PercAssumption
<1>2. p * num_samples \in Nat
  BY <1>1
<1>3. x \in Nat
  BY <1>1, <1>2
<1>4. x + Scale \in Nat
  BY <1>1, <1>3
<1> HIDE DEF s, x
<1>5. \A a \in Nat, b \in Nat \ {0} :
        a \div b \in Nat /\ b * (a \div b) <= a /\ a < b * ((a \div b) + 1)
  OBVIOUS
<1>6. q \in Nat /\ s * q <= x + Scale /\ x + Scale < s * (q + 1)
  BY <1>1, <1>5, <1>4
<1> HIDE DEF q
<1>7. s * (q + 1) = s * q + s /\ s * (c + 1) = s * c + s
      /\ s * q \in Nat /\ s * c \in Nat
  BY <1>1, <1>6
<1>8. c >= q => s * c >= s * q
  BY <1>1, <1>6
<1>9. c + 1 <= q => s * (c + 1) <= s * q
  BY <1>1, <1>6
<1>10. c >= q => s * c + Scale > x
  BY <1>1, <1>3, <1>6, <1>7, <1>8
<1>11. c < q => s * c + Scale <= x
  BY <1>1, <1>3, <1>6, <1>7, <1>9
<1>12. c >= q <=> s * c + Scale > x
  BY <1>1, <1>3, <1>6, <1>7, <1>10, <1>11
<1>13. MinCount(p, num_samples) = q
  BY DEF MinCount, q, s, x
<1>14. Reaches(c, p) <=> s * c + Scale > x
  BY DEF Reaches, s, x
<1>15. QED
  BY <1>6, <1>12, <1>13, <1>14

(* All samples are enough for any percentile.                              *)
LEMMA MinCountAtMostAll ==
  ASSUME NEW p \in 0..Scale, num_samples \in Nat
  PROVE  MinCount(p, num_samples) \in 0..num_samples
<1>1. Scale \in Nat \ {0} /\ p \in Nat /\ p <= Scale
  BY PercAssumption
<1>2. p * num_samples <= Scale * num_samples /\ p * num_samples \in Nat
      /\ Scale * num_samples \in Nat
  BY <1>1
<1>3. /\ 2 * Scale * num_samples = 2 * (Scale * num_samples)
      /\ 2 * p * num_samples = 2 * (p * num_samples)
  BY <1>1
<1>4. Reaches(num_samples, p)
  BY <1>1, <1>2, <1>3 DEF Reaches
<1>5. num_samples >= MinCount(p, num_samples) /\ MinCount(p, num_samples) \in Nat
  BY <1>4, MinCountIsNearest
<1>6. QED
  BY <1>5
-----------------------------------------------------------------------------
(* During a scan: what has been added up, and that the percentile was not  *)
(* reached a bucket earlier                                                *)
ScanInv ==
  scanning =>
    /\ Len(printed) < Len(Percentiles)
    /\ tot_at_i_or_below = Below(i)
    /\ min_count = MinCount(Current, num_samples)
    /\ i > 0 => Below(i - 1) < min_count

(* A line printed by a scan that stopped at bucket n                       *)
LineOf(e, n) ==
  LET count == MinCount(e.perc, num_samples) IN
  /\ e.below = n * HISTO_GRANULARITY
  /\ e.warning <=> Below(n) < count
  /\ Below(n) < count => n = num_buckets
  /\ n > 0 => Below(n - 1) < count

PrintedInv ==
  \A k \in 1..Len(printed) : \E n \in 0..num_buckets : LineOf(printed[k], n)

PercInv == PercTypeOK /\ HistogramOK /\ ScanInv /\ PrintedInv

LEMMA CurrentType ==
  ASSUME PercTypeOK, Len(printed) < Len(Percentiles)
  PROVE  Current \in 0..Scale
BY PercAssumption DEF PercTypeOK, Current

LEMMA InitPercInv == Init => PercInv
<1> SUFFICES ASSUME Init PROVE PercInv
  OBVIOUS
<1>1. HistogramOK
  BY DEF Init, HistogramOK
<1>2. ~scanning /\ scanning \in BOOLEAN
  BY Zenon DEF Init
<1>3. printed = << >> /\ Len(printed) = 0
      /\ printed \in Seq([perc : 0..Scale, warning : BOOLEAN, below : Nat])
      /\ Len(printed) <= Len(Percentiles)
  BY PercAssumption DEF Init
<1>4. i \in 0..num_buckets /\ tot_at_i_or_below \in Nat
      /\ min_count \in 0..num_samples
  BY PercAssumption DEF Init
<1>5. PercTypeOK
  BY <1>1, <1>2, <1>3, <1>4 DEF PercTypeOK, HistogramOK
<1>6. ScanInv /\ PrintedInv
  BY <1>2, <1>3 DEF ScanInv, PrintedInv
<1>7. QED
  BY <1>1, <1>5, <1>6 DEF PercInv

(* The histogram, and what is said about it, does not change.              *)
LEMMA HistogramConstant ==
  ASSUME HistogramOK, UNCHANGED histogram
  PROVE  /\ HistogramOK'
         /\ \A n : Below(n)' = Below(n)
BY DEF histogram, HistogramOK, Below, PointsBelow, Points

LEMMA StartPercInv ==
  ASSUME PercInv, PercStart
  PROVE  PercInv'
<1>1. /\ Len(printed) < Len(Percentiles)
      /\ UNCHANGED histogram /\ printed' = printed
      /\ i' = 0 /\ tot_at_i_or_below' = 0
      /\ min_count' = MinCount(Current, num_samples)
  BY DEF PercStart, StartTotal
<1>2. HistogramOK' /\ \A n : Below(n)' = Below(n)
  BY <1>1, HistogramConstant DEF PercInv
<1>3. num_samples' = num_samples /\ num_samples \in Nat
      /\ buckets' = buckets /\ overflows' = overflows
  BY <1>1, PercAssumption DEF PercInv, PercTypeOK, histogram
<1>4. Current \in 0..Scale /\ 0 \in Nat
  BY <1>1, CurrentType DEF PercInv
<1>5. min_count' \in 0..num_samples
  BY <1>1, <1>3, <1>4, MinCountAtMostAll
<1>6. scanning' \in BOOLEAN
  BY Zenon DEF PercStart
<1>7. PercTypeOK'
  BY <1>1, <1>3, <1>5, <1>6, PercAssumption DEF PercInv, PercTypeOK
<1>8. ScanInv'
  <2>1. Current' = Current /\ min_count' = MinCount(Current, num_samples)'
    BY <1>1, <1>3 DEF Current, MinCount
  <2>2. Below(i)' = 0
    <3>1. Below(0)' = 0
      BY <1>2, BelowZero
    <3>2. QED
      BY <1>1, <3>1 DEF Below
  <2>3. QED
    BY <1>1, <2>1, <2>2 DEF ScanInv
<1>9. PrintedInv'
  BY <1>1, <1>2, <1>3 DEF PercInv, PrintedInv, LineOf, MinCount
<1>10. QED
  BY <1>2, <1>7, <1>8, <1>9 DEF PercInv

LEMMA StepPercInv ==
  ASSUME PercInv, PercStep
  PROVE  PercInv'
<1>1. /\ scanning /\ i < num_buckets /\ tot_at_i_or_below < min_count
      /\ UNCHANGED histogram /\ UNCHANGED <<min_count, scanning, printed>>
      /\ i' = i + 1 /\ tot_at_i_or_below' = tot_at_i_or_below + buckets[i]
  BY DEF PercStep, LoopTest, Advance
<1>2. HistogramOK /\ HistogramOK' /\ \A n : Below(n)' = Below(n)
  BY <1>1, HistogramConstant DEF PercInv
<1>3. /\ num_samples' = num_samples /\ buckets' = buckets
      /\ overflows' = overflows
      /\ num_buckets \in Nat /\ i \in 0..(num_buckets - 1) /\ i \in Nat
      /\ buckets[i] \in Nat /\ tot_at_i_or_below \in Nat
  BY <1>1, PercAssumption DEF PercInv, PercTypeOK, histogram
<1>4. PercTypeOK'
  <2>1. i' \in 0..num_buckets /\ tot_at_i_or_below' \in Nat
    BY <1>1, <1>3
  <2>2. QED
    BY <1>1, <1>3, <2>1 DEF PercInv, PercTypeOK
<1>5. ScanInv'
  <2>1. tot_at_i_or_below' = Below(i + 1) /\ Below(i) < min_count
    BY <1>1, <1>2, <1>3, BelowStep DEF PercInv, ScanInv
  <2>2. Below(i)' = Below(i + 1) /\ Below(i - 1)' = Below(i)
    <3>1. UNCHANGED buckets /\ i' - 1 = i
      BY <1>1, <1>3
    <3>2. QED
      BY <1>1, <3>1 DEF Below, PointsBelow, Points
  <2>3. Current' = Current /\ min_count' = MinCount(Current, num_samples)'
    BY <1>1, <1>3 DEF PercInv, ScanInv, Current, MinCount
  <2>4. QED
    BY <1>1, <1>3, <2>1, <2>2, <2>3 DEF PercInv, ScanInv
<1>6. PrintedInv'
  BY <1>1, <1>2, <1>3 DEF PercInv, PrintedInv, LineOf, MinCount
<1>7. QED
  BY <1>2, <1>4, <1>5, <1>6 DEF PercInv
LEMMA PrintPercInv ==
  ASSUME PercInv, PercPrint
  PROVE  PercInv'
<1> DEFINE e == Line
<1>1. /\ scanning /\ ~LoopTest
      /\ UNCHANGED histogram
      /\ UNCHANGED locals
      /\ printed' = Append(printed, e)
  BY DEF PercPrint
<1>2. HistogramOK /\ HistogramOK' /\ \A n : Below(n)' = Below(n)
  BY <1>1, HistogramConstant DEF PercInv
<1>3. /\ num_samples' = num_samples /\ buckets' = buckets
      /\ overflows' = overflows
      /\ num_buckets \in Nat /\ i \in 0..num_buckets
      /\ tot_at_i_or_below \in Nat /\ min_count \in Nat
  BY <1>1, PercAssumption DEF PercInv, PercTypeOK, histogram
<1>4. /\ Len(printed) < Len(Percentiles)
      /\ tot_at_i_or_below = Below(i)
      /\ min_count = MinCount(Current, num_samples)
      /\ i > 0 => Below(i - 1) < min_count
  BY <1>1 DEF PercInv, ScanInv
<1>5. /\ e.perc = Current /\ e.below = i * HISTO_GRANULARITY
      /\ e.warning = (tot_at_i_or_below < min_count)
      /\ e \in [perc : 0..Scale, warning : BOOLEAN, below : Nat]
  <2>1. Current \in 0..Scale
    BY <1>4, CurrentType DEF PercInv
  <2>2. i * HISTO_GRANULARITY \in Nat
    BY <1>3, PercAssumption
  <2>3. QED
    BY <2>1, <2>2 DEF Line
<1>6. ~scanning'
  BY Zenon DEF PercPrint
<1>7. /\ printed \in Seq([perc : 0..Scale, warning : BOOLEAN, below : Nat])
      /\ Len(printed) \in Nat /\ Len(Percentiles) \in Nat
  BY PercAssumption DEF PercInv, PercTypeOK
<1> HIDE DEF e
<1>8. PercTypeOK'
  <2>1. printed' \in Seq([perc : 0..Scale, warning : BOOLEAN, below : Nat])
        /\ Len(printed') = Len(printed) + 1
    BY <1>1, <1>5, <1>7
  <2>2. Len(printed') <= Len(Percentiles)
    BY <1>4, <1>7, <2>1
  <2>3. UNCHANGED <<i, tot_at_i_or_below, min_count>>
    BY <1>1 DEF locals
  <2>4. scanning' \in BOOLEAN
    BY Zenon DEF PercPrint
  <2>5. QED
    BY <1>3, <2>1, <2>2, <2>3, <2>4 DEF PercInv, PercTypeOK
<1>9. LineOf(e, i)
  <2>1. tot_at_i_or_below >= min_count \/ i = num_buckets
    BY <1>1, <1>3 DEF LoopTest
  <2>2. QED
    BY <1>3, <1>4, <1>5, <2>1 DEF LineOf
<1>10. \A k \in 1..Len(printed') :
         \E n \in 0..num_buckets : LineOf(printed'[k], n)
  <2> TAKE k \in 1..Len(printed')
  <2>1. CASE k = Len(printed) + 1
    <3>1. printed'[k] = e
      BY <1>1, <1>7, <2>1
    <3>2. QED
      BY <1>3, <1>9, <3>1
  <2>2. CASE k \in 1..Len(printed)
    <3>1. printed'[k] = printed[k]
      BY <1>1, <1>7, <2>2
    <3>2. QED
      BY <2>2, <3>1 DEF PercInv, PrintedInv
  <2>3. QED
    BY <1>1, <1>7, <2>1, <2>2
<1>11. PrintedInv'
  BY <1>2, <1>3, <1>10 DEF PrintedInv, LineOf, MinCount
<1>12. QED
  BY <1>2, <1>6, <1>8, <1>11 DEF PercInv, ScanInv

LEMMA NextPercInv ==
  ASSUME PercInv, [Next]_vars
  PROVE  PercInv'
<1>1. CASE UNCHANGED vars
  <2>1. UNCHANGED histogram
    BY <1>1 DEF vars
  <2>2. HistogramOK' /\ \A n : Below(n)' = Below(n)
    BY <2>1, HistogramConstant DEF PercInv
  <2>3. PercTypeOK'
    BY <1>1 DEF vars, histogram, locals, PercInv, PercTypeOK
  <2>4. ScanInv' /\ PrintedInv'
    BY <1>1, <2>2 DEF vars, histogram, locals, PercInv, ScanInv, PrintedInv,
                      LineOf, MinCount, Current, Below, PointsBelow, Points
  <2>5. QED
    BY <2>2, <2>3, <2>4 DEF PercInv
<1>2. QED
  BY <1>1, StartPercInv, StepPercInv, PrintPercInv DEF Next
-----------------------------------------------------------------------------
(* Type correctness: no bucket beyond the array is read (jtr.c:331).       *)
THEOREM PercTypeCorrect == Spec => []PercTypeOK
<1>1. PercInv => PercTypeOK
  BY DEF PercInv
<1>2. QED
  BY InitPercInv, NextPercInv, <1>1, PTL DEF Spec

LEMMA LinePercentile ==
  ASSUME PercInv, NEW k \in 1..Len(printed)
  PROVE  printed[k].perc \in 0..Scale /\ num_samples \in Nat
<1> DEFINE Lines == [perc : 0..Scale, warning : BOOLEAN, below : Nat]
<1>1. printed \in Seq(Lines)
  BY DEF PercInv, PercTypeOK
<1> HIDE DEF Lines
<1>2. printed[k] \in Lines
  BY <1>1
<1>3. QED
  BY <1>2, PercAssumption DEF Lines, PercInv, PercTypeOK

(* What LineOf says of a line, in terms of Reaches                         *)
LEMMA LineMeaning ==
  ASSUME PercInv, NEW k \in 1..Len(printed)
  PROVE  \E n \in 0..num_buckets :
           /\ MinCount(printed[k].perc, num_samples) \in Nat
           /\ LineOf(printed[k], n)
           /\ \A m \in 0..num_buckets :
                /\ Below(m) \in Nat
                /\ Reaches(Below(m), printed[k].perc)
                     <=> Below(m) >= MinCount(printed[k].perc, num_samples)
<1>1. PICK n \in 0..num_buckets : LineOf(printed[k], n)
  BY DEF PercInv, PrintedInv
<1>2. printed[k].perc \in 0..Scale /\ num_samples \in Nat /\ 0 \in Nat
  BY LinePercentile
<1>3. MinCount(printed[k].perc, num_samples) \in Nat
  BY <1>2, MinCountIsNearest
<1>4. \A m \in 0..num_buckets : Below(m) \in Nat
  BY BelowFinite DEF PercInv
<1>5. \A m \in 0..num_buckets :
        Reaches(Below(m), printed[k].perc)
          <=> Below(m) >= MinCount(printed[k].perc, num_samples)
  BY <1>2, <1>4, MinCountIsNearest
<1>6. QED
  BY <1>1, <1>3, <1>4, <1>5

(* A printed bound is the least bucket edge that has the percentile below  *)
(* it (jtr.c:326-337).                                                     *)
THEOREM BoundCorrect == Spec => []BoundIsTight
<1>1. ASSUME PercInv, NEW k \in 1..Len(printed), ~printed[k].warning
      PROVE  /\ Reaches(CountBelow(printed[k].below), printed[k].perc)
             /\ printed[k].below > 0 =>
                  ~Reaches(CountBelow(printed[k].below - HISTO_GRANULARITY),
                           printed[k].perc)
  <2> DEFINE e == printed[k]
             c == MinCount(e.perc, num_samples)
  <2>1. PICK n \in 0..num_buckets :
          /\ c \in Nat
          /\ LineOf(e, n)
          /\ \A m \in 0..num_buckets :
               Below(m) \in Nat /\ (Reaches(Below(m), e.perc) <=> Below(m) >= c)
    BY <1>1, LineMeaning
  <2>2. c \in Nat /\ num_buckets \in Nat /\ HISTO_GRANULARITY \in Nat \ {0}
    BY <2>1, PercAssumption
  <2>3. ~(Below(n) < c) /\ e.below = n * HISTO_GRANULARITY
        /\ (n > 0 => Below(n - 1) < c)
    BY <1>1, <2>1 DEF LineOf
  <2> HIDE DEF c, e
  <2>4. CountBelow(e.below) = Below(n)
    BY <1>1, <2>3, CountBelowEdge DEF PercInv
  <2>5. Reaches(CountBelow(e.below), e.perc)
    BY <2>1, <2>2, <2>3, <2>4
  <2>6. ASSUME e.below > 0
        PROVE  ~Reaches(CountBelow(e.below - HISTO_GRANULARITY), e.perc)
    <3>1. n > 0 /\ n - 1 \in 0..num_buckets
      BY <2>2, <2>3, <2>6
    <3>2. e.below - HISTO_GRANULARITY = (n - 1) * HISTO_GRANULARITY
      BY <2>2, <2>3, <3>1
    <3>3. CountBelow(e.below - HISTO_GRANULARITY) = Below(n - 1)
      BY <1>1, <3>1, <3>2, CountBelowEdge DEF PercInv
    <3>4. Below(n - 1) < c /\ Below(n - 1) \in Nat
      BY <2>1, <2>3, <3>1
    <3>5. QED
      BY <2>1, <2>2, <3>1, <3>3, <3>4
  <2>7. QED
    BY <2>5, <2>6 DEF e
<1>2. PercInv => BoundIsTight
  BY <1>1 DEF BoundIsTight
<1>3. QED
  BY InitPercInv, NextPercInv, <1>2, PTL DEF Spec

(* The overflow warning is printed exactly when the buckets do not hold    *)
(* the percentile (jtr.c:331-345).                                         *)
THEOREM WarningCorrect == Spec => []WarningIsExact
<1>1. ASSUME PercInv, NEW k \in 1..Len(printed)
      PROVE  printed[k].warning
               <=> ~Reaches(num_samples - overflows, printed[k].perc)
  <2> DEFINE e == printed[k]
             c == MinCount(e.perc, num_samples)
  <2>1. PICK n \in 0..num_buckets :
          /\ c \in Nat
          /\ LineOf(e, n)
          /\ \A m \in 0..num_buckets :
               Below(m) \in Nat /\ (Reaches(Below(m), e.perc) <=> Below(m) >= c)
    BY <1>1, LineMeaning
  <2>2. c \in Nat /\ num_buckets \in Nat /\ num_buckets \in 0..num_buckets
        /\ n <= num_buckets
    BY <2>1, PercAssumption
  <2>3. (e.warning <=> Below(n) < c) /\ (Below(n) < c => n = num_buckets)
    BY <2>1 DEF LineOf
  <2>4. num_samples - overflows = Below(num_buckets)
    <3>1. num_samples = Below(num_buckets) + overflows
          /\ overflows \in Nat /\ Below(num_buckets) \in Nat
      BY <1>1, <2>1, <2>2, PercAssumption DEF PercInv, HistogramOK, Below
    <3>2. QED
      BY <3>1
  <2>5. Below(n) <= Below(num_buckets)
    BY <1>1, <2>2, BelowMonotone DEF PercInv
  <2> HIDE DEF c, e
  <2>6. e.warning <=> Below(num_buckets) < c
    BY <2>1, <2>2, <2>3, <2>5
  <2>7. QED
    BY <2>1, <2>2, <2>4, <2>6 DEF e
<1>2. PercInv => WarningIsExact
  BY <1>1 DEF WarningIsExact
<1>3. QED
  BY InitPercInv, NextPercInv, <1>2, PTL DEF Spec

LEMMA MinCountMonotone ==
  ASSUME NEW p \in 0..Scale, NEW q \in 0..Scale, p <= q, num_samples \in Nat
  PROVE  MinCount(p, num_samples) <= MinCount(q, num_samples)
<1> DEFINE c == MinCount(q, num_samples)
<1>1. c \in Nat
  <2>1. 0 \in Nat
    OBVIOUS
  <2>2. QED
    BY <2>1, MinCountIsNearest
<1>2. Reaches(c, q)
  BY <1>1, MinCountIsNearest
<1> HIDE DEF c
<1>3. Reaches(c, p)
  <2>1. p \in Nat /\ q \in Nat /\ Scale \in Nat
    BY PercAssumption
  <2>2. 2 * p * num_samples <= 2 * q * num_samples
    BY <2>1
  <2>3. 2 * p * num_samples \in Nat /\ 2 * q * num_samples \in Nat
        /\ 2 * Scale * c \in Nat
    BY <1>1, <2>1
  <2>4. QED
    BY <1>2, <2>1, <2>2, <2>3 DEF Reaches
<1>4. c >= MinCount(p, num_samples)
  BY <1>1, <1>3, MinCountIsNearest
<1>5. MinCount(p, num_samples) \in Nat
  BY <1>1, MinCountIsNearest
<1>6. QED
  BY <1>1, <1>4, <1>5 DEF c

(* A higher percentile of one histogram has a higher or equal bound, and   *)
(* is warned about if the lower one is (jtr.c:457-461).                    *)
THEOREM BoundsOrdered == Spec => []HigherPercentileHigherBound
<1>1. ASSUME PercInv, NEW k \in 1..Len(printed), NEW m \in 1..Len(printed),
             printed[k].perc <= printed[m].perc
      PROVE  /\ printed[k].below <= printed[m].below
             /\ printed[k].warning => printed[m].warning
  <2> DEFINE e == printed[k]
             f == printed[m]
             ce == MinCount(e.perc, num_samples)
             cf == MinCount(f.perc, num_samples)
  <2>1. PICK a \in 0..num_buckets :
          /\ ce \in Nat
          /\ LineOf(e, a)
          /\ \A j \in 0..num_buckets : Below(j) \in Nat
    BY <1>1, LineMeaning
  <2>2. PICK b \in 0..num_buckets : cf \in Nat /\ LineOf(f, b)
    BY <1>1, LineMeaning
  <2>3. ce <= cf
    <3>1. e.perc \in 0..Scale /\ f.perc \in 0..Scale /\ num_samples \in Nat
      BY <1>1, LinePercentile
    <3>2. QED
      BY <1>1, <3>1, MinCountMonotone
  <2>4. /\ e.below = a * HISTO_GRANULARITY
        /\ e.warning <=> Below(a) < ce
        /\ Below(a) < ce => a = num_buckets
        /\ a > 0 => Below(a - 1) < ce
    BY <2>1 DEF LineOf
  <2>5. /\ f.below = b * HISTO_GRANULARITY
        /\ f.warning <=> Below(b) < cf
        /\ Below(b) < cf => b = num_buckets
    BY <2>2 DEF LineOf
  <2>6. num_buckets \in Nat /\ HISTO_GRANULARITY \in Nat
        /\ a \in Nat /\ b \in Nat /\ a <= num_buckets /\ b <= num_buckets
    BY PercAssumption
  <2> HIDE DEF ce, cf, e, f
  <2>7. a <= b
    <3> SUFFICES ASSUME a > b PROVE FALSE
      BY <2>6
    <3>1. a - 1 \in 0..num_buckets /\ b <= a - 1
      BY <2>6
    <3>2. Below(b) <= Below(a - 1)
      BY <1>1, <3>1, BelowMonotone DEF PercInv
    <3>3. Below(a - 1) < ce /\ Below(b) \in Nat /\ Below(a - 1) \in Nat
      BY <2>1, <2>4, <2>6, <3>1
    <3>4. Below(b) < cf
      BY <2>1, <2>2, <2>3, <3>2, <3>3
    <3>5. QED
      BY <2>5, <2>6, <3>4
  <2>8. e.below <= f.below
    BY <2>4, <2>5, <2>6, <2>7
  <2>9. e.warning => f.warning
    <3>1. Below(b) \in Nat /\ Below(a) \in Nat
      BY <2>1
    <3>2. ASSUME e.warning PROVE f.warning
      <4>1. Below(a) < ce /\ a = b
        BY <2>4, <2>6, <2>7, <3>2
      <4>2. QED
        BY <2>1, <2>2, <2>3, <2>5, <3>1, <4>1
    <3>3. QED
      BY <3>2
  <2>10. QED
    BY <2>8, <2>9 DEF e, f
<1>2. PercInv => HigherPercentileHigherBound
  BY <1>1 DEF HigherPercentileHigherBound
<1>3. QED
  BY InitPercInv, NextPercInv, <1>2, PTL DEF Spec
-----------------------------------------------------------------------------
(* How many steps the calls have left at most                              *)
StepsLeft ==
  (Len(Percentiles) - Len(printed)) * (num_buckets + 2)
    - IF scanning THEN i + 1 ELSE 0

(* Every step of jtr_histo_print_perc() brings its return nearer, also     *)
(* over empty buckets and when the percentile is never reached: all calls  *)
(* together take at most num_buckets + 2 steps each, for any number of     *)
(* buckets and percentiles (jtr.c:327-331).                                *)
THEOREM ScansCorrect ==
  Spec => [][StepsLeft' \in Nat /\ StepsLeft' < StepsLeft]_vars
<1> DEFINE Nearer == StepsLeft' \in Nat /\ StepsLeft' < StepsLeft
           m == Len(Percentiles) - Len(printed)
           c == num_buckets + 2
<1>1. ASSUME PercInv, Next
      PROVE  Nearer
  <2>1. /\ Len(Percentiles) \in Nat /\ Len(printed) \in Nat
        /\ Len(printed) <= Len(Percentiles)
        /\ num_buckets \in Nat /\ i \in 0..num_buckets
    BY <1>1, PercAssumption DEF PercInv, PercTypeOK
  <2>2. scanning \/ PercStart => Len(printed) < Len(Percentiles)
    BY <1>1 DEF PercInv, ScanInv, PercStart
  <2>3. m \in Nat /\ c \in Nat /\ (scanning \/ PercStart => m > 0)
    BY <2>1, <2>2
  <2>4. /\ StepsLeft = m * c - (IF scanning THEN i + 1 ELSE 0)
        /\ StepsLeft' = (Len(Percentiles) - Len(printed')) * c
                        - (IF scanning' THEN i' + 1 ELSE 0)
    BY DEF StepsLeft
  <2> HIDE DEF m
  <2>5. m > 0 => m * c = (m - 1) * c + c /\ (m - 1) * c \in Nat
    <3> HIDE DEF c
    <3>1. QED
      BY <2>3
  <2>6. CASE PercStart
    <3>1. ~scanning /\ scanning' /\ i' = 0 /\ printed' = printed
      BY <2>6 DEF PercStart, StartTotal
    <3>2. m * c \in Int
      <4> HIDE DEF c
      <4>1. QED
        BY <2>3
    <3>4. StepsLeft = m * c - 0 /\ StepsLeft' = m * c - (0 + 1)
      BY <2>4, <3>1 DEF m
    <3>3. QED
      BY <2>1, <2>3, <2>5, <2>6, <3>2, <3>4
  <2>7. CASE PercStep
    <3>1. scanning /\ scanning' /\ i' = i + 1 /\ i < num_buckets
          /\ printed' = printed
      BY <2>7 DEF PercStep, LoopTest, Advance
    <3>2. StepsLeft = m * c - (i + 1) /\ StepsLeft' = m * c - (i + 2)
      BY <2>1, <2>4, <3>1 DEF m
    <3>3. QED
      BY <2>1, <2>3, <2>5, <3>1, <3>2
  <2>8. CASE PercPrint
    <3>1. scanning /\ ~scanning' /\ printed' = Append(printed, Line)
      BY <2>8 DEF PercPrint
    <3>2. Len(printed') = Len(printed) + 1
      BY <1>1, <3>1 DEF PercInv, PercTypeOK
    <3>3. StepsLeft = m * c - (i + 1) /\ StepsLeft' = (m - 1) * c
      BY <2>1, <2>4, <3>1, <3>2 DEF m
    <3>4. QED
      BY <2>1, <2>3, <2>5, <3>1, <3>3
  <2>9. QED
    BY <1>1, <2>6, <2>7, <2>8 DEF Next
<1>2. PercInv /\ [Next]_vars => [Nearer]_vars
  BY <1>1
<1>3. Spec => []PercInv
  BY InitPercInv, NextPercInv, PTL DEF Spec
<1>4. QED
  BY <1>2, <1>3, PTL DEF Spec
-----------------------------------------------------------------------------
(* p percent of the samples is a whole number, or rounds up to the next.   *)
RoundsUp(p) ==
  LET rest == (p * num_samples) % Scale IN rest = 0 \/ 2 * rest >= Scale

(* README.md:203 and "p% are below X" are right for every percentile that  *)
(* is not rounded down: for all five of the default 2,000,000 samples, of  *)
(* which each is a whole number (jtr.c:326, 334).                          *)
THEOREM PercentagesCorrectUnlessRoundedDown ==
  Spec => []((\A k \in 1..Len(printed) : RoundsUp(printed[k].perc))
             => PercentOfSamplesAreBelow)
<1>1. ASSUME PercInv, NEW k \in 1..Len(printed), RoundsUp(printed[k].perc),
             Reaches(CountBelow(printed[k].below), printed[k].perc),
             CountBelow(printed[k].below) \in Nat
      PROVE  CountBelow(printed[k].below) * Scale
             >= printed[k].perc * num_samples
  <2> DEFINE p == printed[k].perc
             c == CountBelow(printed[k].below)
             x == p * num_samples
             q == x \div Scale
             r == x % Scale
  <2>1. p \in Nat /\ num_samples \in Nat /\ Scale \in Nat \ {0} /\ c \in Nat
    BY <1>1, LinePercentile, PercAssumption
  <2> HIDE DEF p, c
  <2>2. x \in Nat /\ 2 * p * num_samples = 2 * x
    BY <2>1
  <2>3. 2 * Scale * c + Scale > 2 * x
    BY <1>1, <2>2 DEF Reaches, p, c
  <2>4. r = 0 \/ 2 * r >= Scale
    BY <1>1 DEF RoundsUp, p
  <2> HIDE DEF x
  <2>5. q \in Int /\ x = Scale * q + r /\ r \in 0..(Scale - 1)
    BY <2>1, <2>2
  <2> HIDE DEF q, r
  <2>6. Scale * c \in Int /\ Scale * q \in Int /\ 2 * Scale * c = 2 * (Scale * c)
    BY <2>1, <2>5
  <2>7. CASE r = 0
    <3>1. Scale * q < Scale * c + Scale
      BY <2>1, <2>2, <2>3, <2>5, <2>6, <2>7
    <3>2. Scale * q < Scale * (c + 1)
      BY <2>1, <2>6, <3>1
    <3>3. q < c + 1
      BY <2>1, <2>5, <3>2
    <3>4. Scale * q <= Scale * c
      BY <2>1, <2>5, <3>3
    <3>5. QED
      BY <2>1, <2>2, <2>5, <2>6, <2>7, <3>4 DEF x, c, p
  <2>8. CASE 2 * r >= Scale
    <3>1. Scale * q < Scale * c
      BY <2>1, <2>2, <2>3, <2>5, <2>6, <2>8
    <3>2. q < c
      BY <2>1, <2>5, <3>1
    <3>3. Scale * (q + 1) <= Scale * c
      BY <2>1, <2>5, <3>2
    <3>4. Scale * q + Scale <= Scale * c
      BY <2>1, <2>5, <3>3
    <3>5. QED
      BY <2>1, <2>2, <2>5, <2>6, <3>4 DEF x, c, p
  <2>9. QED
    BY <2>4, <2>7, <2>8
<1>2. ASSUME PercInv, BoundIsTight,
             \A k \in 1..Len(printed) : RoundsUp(printed[k].perc)
      PROVE  PercentOfSamplesAreBelow
  <2> SUFFICES ASSUME NEW k \in 1..Len(printed), ~printed[k].warning
               PROVE  CountBelow(printed[k].below) * Scale
                      >= printed[k].perc * num_samples
    BY DEF PercentOfSamplesAreBelow
  <2>1. Reaches(CountBelow(printed[k].below), printed[k].perc)
    BY <1>2 DEF BoundIsTight
  <2>2. CountBelow(printed[k].below) \in Nat
    <3>1. PICK n \in 0..num_buckets : LineOf(printed[k], n)
      BY <1>2 DEF PercInv, PrintedInv
    <3>2. CountBelow(printed[k].below) = Below(n)
      BY <1>2, <3>1, CountBelowEdge DEF PercInv, LineOf
    <3>3. QED
      BY <1>2, <3>2, BelowFinite DEF PercInv
  <2>3. QED
    BY <1>1, <1>2, <2>1, <2>2
<1>3. Spec => []PercInv
  BY InitPercInv, NextPercInv, PTL DEF Spec
<1>4. PercInv /\ BoundIsTight
      => ((\A k \in 1..Len(printed) : RoundsUp(printed[k].perc))
          => PercentOfSamplesAreBelow)
  BY <1>2
<1>5. QED
  BY <1>3, <1>4, BoundCorrect, PTL
=============================================================================
