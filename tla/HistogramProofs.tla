-------------------------- MODULE HistogramProofs --------------------------
(***************************************************************************)
(* Theorems about Histogram.tla, for every granularity, width of int, set  *)
(* of histogram sizes, set of time differences and number of samples.      *)
(***************************************************************************)
EXTENDS Histogram, ArithmeticLemmas, FiniteSetTheorems, TLAPS

(* What is left of a long long in an int is an int (jtr.c:532).            *)
LEMMA NarrowRange ==
  ASSUME NEW d \in Int
  PROVE  Narrow(d) \in (-INT_MAX - 1)..INT_MAX
<1> DEFINE m == 2 * (INT_MAX + 1)
<1>1. m \in Nat \ {0}
  BY HistoAssumption
<1>2. \A a \in Int, b \in Nat \ {0} : a % b \in 0..(b - 1)
  OBVIOUS
<1>3. (d + INT_MAX + 1) % m \in 0..(m - 1)
  BY <1>1, <1>2, HistoAssumption
<1>4. QED
  BY <1>1, <1>3, HistoAssumption DEF Narrow

(* A truncated average lies between the bounds of what it averages         *)
(* (jtr.c:298).                                                            *)
LEMMA QuotientBetween ==
  ASSUME NEW n \in Nat \ {0}, NEW lo \in Int, NEW hi \in Int, NEW tot \in Int,
         n * lo <= tot, tot <= n * hi
  PROVE  tot \div n \in lo..hi
<1> DEFINE q == tot \div n
<1>1. q \in Int /\ n * q <= tot /\ tot < n * (q + 1)
  OBVIOUS
<1>2. n * lo < n * (q + 1)
  BY <1>1
<1>3. lo < q + 1
  BY <1>1, <1>2
<1>4. n * q <= n * hi
  BY <1>1
<1>5. q <= hi
  BY <1>1, <1>4
<1>6. QED
  BY <1>1, <1>3, <1>5

(* The bucket number of a sample is a natural number (jtr.c:282).          *)
LEMMA BucketNat ==
  ASSUME NEW t \in Nat
  PROVE  Bucket(t) \in Nat
BY HistoAssumption, QuotientBetween DEF Bucket
-----------------------------------------------------------------------------
(* An accumulated difference is a sample in the range of an int            *)
(* (jtr.c:281, 526-532).                                                   *)
LEMMA SampleInRange ==
  ASSUME NEW d \in Diffs, AccumDiff(d)
  PROVE  Narrow(Clamp(d)) \in 0..INT_MAX
<1>1. Clamp(d) \in Int
  BY HistoAssumption DEF Clamp
<1>2. Narrow(Clamp(d)) \in (-INT_MAX - 1)..INT_MAX
  BY <1>1, NarrowRange
<1>3. Narrow(Clamp(d)) >= 0
  BY DEF AccumDiff, HistoAccum
<1>4. QED
  BY <1>2, <1>3, HistoAssumption

(* Type correctness: every counter keeps the range of its C type.          *)
LEMMA InitType == Init => HistoTypeOK
<1> SUFFICES ASSUME Init PROVE HistoTypeOK
  OBVIOUS
<1>1. 0..(num_buckets - 1) = {}
  BY DEF Init
<1>2. buckets \in [0..(num_buckets - 1) -> 0..num_samples]
  BY <1>1 DEF Init
<1>3. tot_time \in 0..(num_samples * INT_MAX)
  BY HistoAssumption DEF Init
<1>4. samples \in Seq(0..INT_MAX) /\ Len(samples) = num_samples
  BY DEF Init
<1>5. num_buckets \in Nat /\ num_samples \in 0..MaxSamples /\ num_samples = 0
  BY HistoAssumption DEF Init
<1>6. /\ status \in {"running", "aborted"}
      /\ overflows \in 0..num_samples /\ neg_diffs \in 0..num_samples
      /\ min_time \in 0..INT_MAX /\ max_time \in 0..INT_MAX
      /\ average \in 0..INT_MAX /\ longest \in Nat
  BY HistoAssumption DEF Init
<1>7. allocated \in BOOLEAN
  BY Zenon DEF Init
<1>8. QED
  BY <1>2, <1>3, <1>4, <1>5, <1>6, <1>7 DEF HistoTypeOK

LEMMA HistoInitType ==
  ASSUME HistoTypeOK, NEW n \in BucketCounts, HistoInit(n)
  PROVE  HistoTypeOK'
BY HistoAssumption
   DEF HistoTypeOK, HistoInit, ResetBuckets, ResetExtremes, ResetTotals

LEMMA AccumType ==
  ASSUME HistoTypeOK, MeasureAllowed, NEW d \in Diffs, AccumDiff(d)
  PROVE  HistoTypeOK'
<1> DEFINE t == Narrow(Clamp(d))
<1>1. t \in 0..INT_MAX
  BY SampleInRange
<1> HIDE DEF t
<1>2. HistoAccum(t) /\ num_samples < MaxSamples
  BY DEF AccumDiff, MeasureAllowed, t
<1>3. num_samples' = num_samples + 1 /\ num_samples' \in 1..MaxSamples
  BY <1>2, HistoAssumption DEF HistoTypeOK, HistoAccum, UpdateTotals
<1>4. buckets' \in [0..(num_buckets' - 1) -> 0..num_samples']
      /\ overflows' \in 0..num_samples'
  <2>1. Bucket(t) \in Nat
    BY <1>1, BucketNat
  <2>2. num_buckets' = num_buckets /\ CountInBucket(t)
    BY <1>2 DEF HistoAccum
  <2> DEFINE b == Bucket(t)
  <2>3. num_samples \in Nat /\ num_buckets \in Nat
    BY HistoAssumption DEF HistoTypeOK
  <2>4. CASE InHistogram(t)
    <3>1. buckets' = [buckets EXCEPT ![b] = buckets[b] + 1]
          /\ overflows' = overflows /\ b \in 0..(num_buckets - 1)
      BY <2>1, <2>2, <2>3, <2>4 DEF CountInBucket, InHistogram
    <3> HIDE DEF b
    <3>2. buckets[b] + 1 \in 0..num_samples'
      BY <1>3, <2>3, <3>1 DEF HistoTypeOK
    <3>3. buckets \in [0..(num_buckets - 1) -> 0..num_samples']
      BY <1>3, <2>3 DEF HistoTypeOK
    <3>4. QED
      BY <1>3, <2>2, <2>3, <3>1, <3>2, <3>3 DEF HistoTypeOK
  <2>5. CASE ~InHistogram(t)
    BY <1>3, <2>2, <2>3, <2>5 DEF HistoTypeOK, CountInBucket
  <2>6. QED
    BY <2>4, <2>5
<1>5. min_time' \in 0..INT_MAX /\ max_time' \in 0..INT_MAX
  BY <1>1, <1>2 DEF HistoTypeOK, HistoAccum, UpdateExtremes
<1>6. tot_time' \in 0..(num_samples' * INT_MAX)
  <2>1. tot_time' = tot_time + t
    BY <1>2 DEF HistoAccum, UpdateTotals
  <2>2. (num_samples + 1) * INT_MAX = num_samples * INT_MAX + INT_MAX
    BY HistoAssumption DEF HistoTypeOK
  <2>3. num_samples * INT_MAX \in Nat
    BY HistoAssumption DEF HistoTypeOK
  <2>4. QED
    BY <1>1, <1>3, <2>1, <2>2, <2>3, HistoAssumption DEF HistoTypeOK
<1>7. average' \in 0..INT_MAX
  <2>1. average' = tot_time' \div num_samples'
    BY <1>2 DEF HistoAccum, UpdateTotals
  <2>2. num_samples' * 0 <= tot_time' /\ tot_time' <= num_samples' * INT_MAX
    BY <1>3, <1>6, HistoAssumption
  <2>3. QED
    BY <1>3, <1>6, <2>1, <2>2, QuotientBetween, HistoAssumption
<1>8. samples' \in Seq(0..INT_MAX) /\ Len(samples') = num_samples'
  BY <1>1, <1>2, <1>3 DEF HistoTypeOK, HistoAccum
<1>9. neg_diffs' \in 0..num_samples' /\ longest' \in Nat
  BY <1>3, HistoAssumption DEF HistoTypeOK, AccumDiff
<1>10. UNCHANGED <<status, allocated, num_buckets>>
  BY <1>2 DEF HistoAccum
<1>11. num_samples' \in 0..MaxSamples
  BY <1>3, HistoAssumption
<1>12. QED
  BY <1>4, <1>5, <1>6, <1>7, <1>8, <1>9, <1>10, <1>11 DEF HistoTypeOK

LEMMA NextType ==
  ASSUME HistoTypeOK, [Next]_vars
  PROVE  HistoTypeOK'
<1>1. ASSUME NEW n \in BucketCounts, HistoInit(n)
      PROVE  HistoTypeOK'
  BY <1>1, HistoInitType
<1>2. ASSUME NEW n \in BucketCounts, HistoInitResize(n)
      PROVE  HistoTypeOK'
  BY <1>2 DEF HistoTypeOK, HistoInitResize, Abort, histoVars, totals
<1>3. ASSUME MeasureAllowed, NEW d \in Diffs, AccumDiff(d)
      PROVE  HistoTypeOK'
  BY <1>3, AccumType
<1>4. ASSUME NEW d \in Diffs, AccumDiffNegative(d)
      PROVE  HistoTypeOK'
  BY <1>4 DEF HistoTypeOK, AccumDiffNegative, Abort, histoVars, totals
<1>5. CASE UNCHANGED vars
  BY <1>5 DEF HistoTypeOK, vars, histoVars, totals
<1>6. QED
  BY <1>1, <1>2, <1>3, <1>4, <1>5 DEF Next

(* Every counter of the histogram keeps the range of its C type, whatever  *)
(* is measured (jtr.c:45-60).                                              *)
THEOREM HistoTypeCorrect == Spec => []HistoTypeOK
<1>1. HistoTypeOK /\ [Next]_vars => HistoTypeOK'
  BY NextType
<1>2. QED
  BY InitType, <1>1, PTL DEF Spec
-----------------------------------------------------------------------------
(* The actions of Next that leave the histogram alone                      *)
LEMMA AbortKeepsHistogram ==
  ASSUME \/ \E n \in BucketCounts : HistoInitResize(n)
         \/ \E d \in Diffs : AccumDiffNegative(d)
         \/ UNCHANGED vars
  PROVE  UNCHANGED <<allocated, num_buckets, buckets, overflows, min_time,
                     max_time, tot_time, num_samples, average, samples>>
BY DEF HistoInitResize, AccumDiffNegative, Abort, vars, histoVars, totals

(* What accumulating a difference appends to the samples                   *)
LEMMA AccumAppends ==
  ASSUME HistoTypeOK, NEW d \in Diffs, AccumDiff(d)
  PROVE  LET t == Narrow(Clamp(d)) IN
         /\ t \in 0..INT_MAX
         /\ num_samples \in Nat
         /\ Len(samples) = num_samples
         /\ Len(samples') = num_samples + 1
         /\ num_samples' = num_samples + 1
         /\ samples'[num_samples + 1] = t
         /\ \A k \in 1..num_samples : samples'[k] = samples[k]
         /\ HistoAccum(t)
<1> DEFINE t == Narrow(Clamp(d))
<1>1. t \in 0..INT_MAX
  BY SampleInRange
<1> HIDE DEF t
<1>2. HistoAccum(t)
  BY DEF AccumDiff, t
<1>3. samples \in Seq(0..INT_MAX) /\ Len(samples) = num_samples
      /\ num_samples \in Nat
  BY HistoAssumption DEF HistoTypeOK
<1>4. samples' = Append(samples, t) /\ num_samples' = num_samples + 1
  BY <1>2 DEF HistoAccum, UpdateTotals
<1>5. QED
  BY <1>1, <1>2, <1>3, <1>4 DEF t

(* ExtremesExact is inductive once the extremes of an empty run are known: *)
(* the first sample must replace both.                                     *)
EmptyExtremes ==
  allocated /\ num_samples = 0 => min_time = INT_MAX /\ max_time = 0

LEMMA AccumExtremes ==
  ASSUME HistoTypeOK, ExtremesExact, EmptyExtremes, MeasureAllowed,
         NEW d \in Diffs, AccumDiff(d)
  PROVE  (ExtremesExact /\ EmptyExtremes)'
<1> DEFINE t == Narrow(Clamp(d))
<1>1. /\ t \in 0..INT_MAX
      /\ num_samples \in Nat
      /\ Len(samples) = num_samples
      /\ Len(samples') = num_samples + 1
      /\ num_samples' = num_samples + 1
      /\ samples'[num_samples + 1] = t
      /\ \A k \in 1..num_samples : samples'[k] = samples[k]
      /\ HistoAccum(t)
  BY AccumAppends
<1>2. allocated
  BY DEF MeasureAllowed
<1> HIDE DEF t
<1>3. /\ min_time' = (IF t < min_time THEN t ELSE min_time)
      /\ max_time' = (IF t > max_time THEN t ELSE max_time)
  BY <1>1 DEF HistoAccum, UpdateExtremes
<1>4. min_time \in 0..INT_MAX /\ max_time \in 0..INT_MAX
  BY DEF HistoTypeOK
<1>5. CASE num_samples = 0
  <2>1. min_time = INT_MAX /\ max_time = 0
    BY <1>2, <1>5 DEF EmptyExtremes
  <2>2. min_time' = t /\ max_time' = t
    BY <1>1, <1>3, <2>1, HistoAssumption
  <2>3. QED
    BY <1>1, <1>5, <2>2, HistoAssumption DEF ExtremesExact, EmptyExtremes
<1>6. CASE num_samples > 0
  <2>1. PICK lo \in 1..num_samples : samples[lo] = min_time
    BY <1>1, <1>6 DEF ExtremesExact
  <2>2. PICK hi \in 1..num_samples : samples[hi] = max_time
    BY <1>1, <1>6 DEF ExtremesExact
  <2>3. \A k \in 1..num_samples : samples[k] \in min_time..max_time
    BY <1>1, <1>6 DEF ExtremesExact
  <2>4. \E k \in 1..Len(samples') : samples'[k] = min_time'
    BY <1>1, <1>3, <2>1
  <2>5. \E k \in 1..Len(samples') : samples'[k] = max_time'
    BY <1>1, <1>3, <2>2
  <2>6. \A k \in 1..Len(samples') : samples'[k] \in min_time'..max_time'
    <3> TAKE k \in 1..Len(samples')
    <3>1. CASE k = num_samples + 1
      BY <1>1, <1>3, <1>4, <3>1
    <3>2. CASE k \in 1..num_samples
      BY <1>1, <1>3, <1>4, <2>3, <3>2
    <3>3. QED
      BY <1>1, <3>1, <3>2
  <2>7. QED
    BY <1>1, <1>6, <2>4, <2>5, <2>6 DEF ExtremesExact, EmptyExtremes
<1>7. QED
  BY <1>1, <1>5, <1>6

LEMMA ExtremesInvariant == Spec => [](ExtremesExact /\ EmptyExtremes)
<1> DEFINE Inv == ExtremesExact /\ EmptyExtremes
<1>1. Init => Inv
  BY Zenon, SMT DEF Init, ExtremesExact, EmptyExtremes
<1>2. HistoTypeOK /\ Inv /\ [Next]_vars => Inv'
  <2> SUFFICES ASSUME HistoTypeOK, Inv, [Next]_vars
               PROVE  Inv'
    OBVIOUS
  <2>1. ASSUME NEW n \in BucketCounts, HistoInit(n)
        PROVE  Inv'
    BY <2>1 DEF HistoInit, ResetExtremes, ResetTotals, ExtremesExact,
                EmptyExtremes
  <2>2. ASSUME MeasureAllowed, NEW d \in Diffs, AccumDiff(d)
        PROVE  Inv'
    BY <2>2, AccumExtremes
  <2>3. CASE UNCHANGED <<allocated, num_buckets, buckets, overflows,
                         min_time, max_time, tot_time, num_samples, average,
                         samples>>
    BY <2>3 DEF ExtremesExact, EmptyExtremes
  <2>4. QED
    BY <2>1, <2>2, <2>3, AbortKeepsHistogram DEF Next
<1>3. QED
  BY <1>1, <1>2, HistoTypeCorrect, PTL DEF Spec

(* The least and the greatest sample of every run are published as its     *)
(* minimum and maximum, in whatever order the samples come                 *)
(* (jtr.c:289-294).                                                        *)
THEOREM ExtremesCorrect == Spec => []ExtremesExact
BY ExtremesInvariant, PTL
-----------------------------------------------------------------------------
(* The average of a run is known from its total, and the total lies        *)
(* between the extremes times the number of samples.                       *)
TotalBetweenExtremes ==
  /\ num_samples * min_time <= tot_time
  /\ tot_time <= num_samples * max_time
  /\ num_samples > 0 => average = tot_time \div num_samples

LEMMA AccumTotal ==
  ASSUME HistoTypeOK, TotalBetweenExtremes, NEW d \in Diffs, AccumDiff(d)
  PROVE  TotalBetweenExtremes'
<1> DEFINE t == Narrow(Clamp(d))
<1>1. /\ t \in 0..INT_MAX
      /\ num_samples \in Nat
      /\ num_samples' = num_samples + 1
      /\ HistoAccum(t)
  BY AccumAppends
<1> HIDE DEF t
<1>2. /\ min_time' = (IF t < min_time THEN t ELSE min_time)
      /\ max_time' = (IF t > max_time THEN t ELSE max_time)
      /\ tot_time' = tot_time + t
      /\ average' = tot_time' \div num_samples'
  BY <1>1 DEF HistoAccum, UpdateExtremes, UpdateTotals
<1>3. min_time \in Nat /\ max_time \in Nat /\ tot_time \in Nat /\ t \in Nat
  <2>1. num_samples * INT_MAX \in Nat
    BY <1>1, HistoAssumption
  <2>2. QED
    BY <1>1, <2>1, HistoAssumption DEF HistoTypeOK
<1>4. min_time' \in Nat /\ min_time' <= min_time /\ min_time' <= t
      /\ max_time' \in Nat /\ max_time <= max_time' /\ t <= max_time'
  BY <1>2, <1>3
<1>5. \A x \in Nat : (num_samples + 1) * x = num_samples * x + x
  BY <1>1
<1>6. \A x, y \in Nat : x <= y => num_samples * x <= num_samples * y
  BY <1>1
<1>7. num_samples * min_time' <= num_samples * min_time
      /\ num_samples * max_time <= num_samples * max_time'
  BY <1>3, <1>4, <1>6
<1>8. /\ num_samples * min_time' \in Int /\ num_samples * min_time \in Int
      /\ num_samples * max_time' \in Int /\ num_samples * max_time \in Int
  BY <1>1, <1>3, <1>4
<1>9. num_samples' * min_time' <= tot_time'
      /\ tot_time' <= num_samples' * max_time'
  <2>1. num_samples' * min_time' = num_samples * min_time' + min_time'
        /\ num_samples' * max_time' = num_samples * max_time' + max_time'
    BY <1>1, <1>4, <1>5
  <2>2. num_samples * min_time <= tot_time /\ tot_time <= num_samples * max_time
    BY DEF TotalBetweenExtremes
  <2>3. QED
    BY <1>2, <1>3, <1>4, <1>7, <1>8, <2>1, <2>2
<1>10. QED
  BY <1>2, <1>9 DEF TotalBetweenExtremes

(* The published average of every run lies between its published minimum   *)
(* and maximum (jtr.c:296-298).                                            *)
THEOREM AverageCorrect == Spec => []AverageBetweenExtremes
<1>1. Init => TotalBetweenExtremes
  BY SMT DEF Init, TotalBetweenExtremes
<1>2. HistoTypeOK /\ TotalBetweenExtremes /\ [Next]_vars
      => TotalBetweenExtremes'
  <2> SUFFICES ASSUME HistoTypeOK, TotalBetweenExtremes, [Next]_vars
               PROVE  TotalBetweenExtremes'
    OBVIOUS
  <2>1. ASSUME NEW n \in BucketCounts, HistoInit(n)
        PROVE  TotalBetweenExtremes'
    BY <2>1, HistoAssumption
       DEF HistoInit, ResetExtremes, ResetTotals, TotalBetweenExtremes
  <2>2. ASSUME MeasureAllowed, NEW d \in Diffs, AccumDiff(d)
        PROVE  TotalBetweenExtremes'
    BY <2>2, AccumTotal
  <2>3. CASE UNCHANGED <<allocated, num_buckets, buckets, overflows,
                         min_time, max_time, tot_time, num_samples, average,
                         samples>>
    BY <2>3 DEF TotalBetweenExtremes
  <2>4. QED
    BY <2>1, <2>2, <2>3, AbortKeepsHistogram DEF Next
<1>3. HistoTypeOK /\ TotalBetweenExtremes => AverageBetweenExtremes
  <2> SUFFICES ASSUME HistoTypeOK, TotalBetweenExtremes, num_samples > 0
               PROVE  average \in min_time..max_time
    BY DEF AverageBetweenExtremes
  <2>1. num_samples \in Nat \ {0} /\ num_samples * INT_MAX \in Nat
    BY HistoAssumption DEF HistoTypeOK
  <2>2. min_time \in Int /\ max_time \in Int /\ tot_time \in Int
    BY <2>1, HistoAssumption DEF HistoTypeOK
  <2>3. QED
    BY <2>1, <2>2, QuotientBetween DEF TotalBetweenExtremes
<1>4. QED
  BY <1>1, <1>2, <1>3, HistoTypeCorrect, PTL DEF Spec
-----------------------------------------------------------------------------
(* Sets of sample numbers are finite, with a natural cardinality; one more *)
(* number adds one.                                                        *)
LEMMA CountOneMore ==
  ASSUME NEW n \in Nat, NEW S \in SUBSET (1..n)
  PROVE  /\ IsFiniteSet(S) /\ Cardinality(S) \in Nat
         /\ Cardinality(S \cup {n + 1}) = Cardinality(S) + 1
<1>1. IsFiniteSet(1..n)
  BY FS_Interval
<1>2. IsFiniteSet(S)
  BY <1>1, FS_Subset
<1>3. n + 1 \notin S
  OBVIOUS
<1>4. QED
  BY <1>2, <1>3, FS_AddElement, FS_CardinalityType

LEMMA AccumBuckets ==
  ASSUME HistoTypeOK, BucketsExact, NEW d \in Diffs, AccumDiff(d)
  PROVE  BucketsExact'
<1> DEFINE t == Narrow(Clamp(d))
           n == num_samples
<1>1. /\ t \in 0..INT_MAX
      /\ n \in Nat
      /\ Len(samples) = n
      /\ Len(samples') = n + 1
      /\ samples'[n + 1] = t
      /\ \A k \in 1..n : samples'[k] = samples[k]
      /\ HistoAccum(t)
  BY AccumAppends
<1> HIDE DEF t
<1>2. Bucket(t) \in Nat
  BY <1>1, BucketNat
<1>3. num_buckets' = num_buckets /\ num_buckets \in Nat /\ CountInBucket(t)
  BY <1>1 DEF HistoAccum, HistoTypeOK
<1>4. \A b \in 0..(num_buckets - 1) :
        /\ SamplesIn(b) \in SUBSET (1..n)
        /\ Bucket(t) = b => SamplesIn(b)' = SamplesIn(b) \cup {n + 1}
        /\ Bucket(t) # b => SamplesIn(b)' = SamplesIn(b)
  <2> TAKE b \in 0..(num_buckets - 1)
  <2>1. SamplesIn(b) \in SUBSET (1..n)
    BY <1>1 DEF SamplesIn
  <2>2. \A k \in 1..(n + 1) :
          k \in SamplesIn(b)' <=>
            k \in SamplesIn(b) \/ (k = n + 1 /\ Bucket(t) = b)
    BY <1>1 DEF SamplesIn, Bucket
  <2>3. SamplesIn(b)' \in SUBSET (1..(n + 1))
    BY <1>1 DEF SamplesIn
  <2>4. 1..n \subseteq 1..(n + 1) /\ n + 1 \in 1..(n + 1)
    BY <1>1
  <2>5. Bucket(t) = b => SamplesIn(b)' = SamplesIn(b) \cup {n + 1}
    BY <2>1, <2>2, <2>3, <2>4, Zenon
  <2>6. Bucket(t) # b => SamplesIn(b)' = SamplesIn(b)
    BY <2>1, <2>2, <2>3, <2>4, Zenon
  <2>7. QED
    BY <2>1, <2>5, <2>6
<1>5. /\ SamplesBeyond \in SUBSET (1..n)
      /\ Bucket(t) >= num_buckets =>
           SamplesBeyond' = SamplesBeyond \cup {n + 1}
      /\ Bucket(t) < num_buckets => SamplesBeyond' = SamplesBeyond
  <2>1. SamplesBeyond \in SUBSET (1..n)
    BY <1>1 DEF SamplesBeyond
  <2>2. \A k \in 1..(n + 1) :
          k \in SamplesBeyond' <=>
            k \in SamplesBeyond \/ (k = n + 1 /\ Bucket(t) >= num_buckets)
    BY <1>1, <1>3 DEF SamplesBeyond, Bucket
  <2>3. SamplesBeyond' \in SUBSET (1..(n + 1))
    BY <1>1 DEF SamplesBeyond
  <2>4. 1..n \subseteq 1..(n + 1) /\ n + 1 \in 1..(n + 1)
    BY <1>1
  <2>5. Bucket(t) >= num_buckets =>
          SamplesBeyond' = SamplesBeyond \cup {n + 1}
    BY <2>1, <2>2, <2>3, <2>4, Zenon
  <2>6. Bucket(t) < num_buckets => SamplesBeyond' = SamplesBeyond
    <3>1. Bucket(t) < num_buckets => ~(Bucket(t) >= num_buckets)
      BY <1>2, <1>3
    <3>2. QED
      BY <2>1, <2>2, <2>3, <2>4, <3>1, Zenon
  <2>7. QED
    BY <2>1, <2>5, <2>6
<1>6. CASE InHistogram(t)
  <2>1. Bucket(t) < num_buckets /\ Bucket(t) \in 0..(num_buckets - 1)
    BY <1>2, <1>3, <1>6 DEF InHistogram
  <2>2. overflows' = overflows
        /\ buckets' = [buckets EXCEPT ![Bucket(t)] = @ + 1]
    BY <1>3, <1>6 DEF CountInBucket
  <2>3. \A b \in 0..(num_buckets - 1) :
          buckets'[b] = IF b = Bucket(t) THEN buckets[b] + 1 ELSE buckets[b]
    BY <2>1, <2>2 DEF HistoTypeOK
  <2>4. \A b \in 0..(num_buckets' - 1) : buckets'[b] = Cardinality(SamplesIn(b)')
    <3> TAKE b \in 0..(num_buckets' - 1)
    <3>1. b \in 0..(num_buckets - 1) /\ buckets[b] = Cardinality(SamplesIn(b))
      BY <1>3 DEF BucketsExact
    <3>2. CASE b = Bucket(t)
      <4>1. buckets'[b] = Cardinality(SamplesIn(b)) + 1
        BY <2>3, <3>1, <3>2
      <4>2. Cardinality(SamplesIn(b) \cup {n + 1}) = Cardinality(SamplesIn(b)) + 1
        BY <1>1, <1>4, <3>1, CountOneMore
      <4>3. SamplesIn(b)' = SamplesIn(b) \cup {n + 1}
        BY <1>4, <3>1, <3>2
      <4>4. QED
        BY <4>1, <4>2, <4>3
    <3>3. CASE b # Bucket(t)
      BY <1>4, <2>3, <3>1, <3>3
    <3>4. QED
      BY <3>2, <3>3
  <2>5. overflows' = Cardinality(SamplesBeyond')
    BY <1>5, <2>1, <2>2 DEF BucketsExact
  <2>6. QED
    BY <2>4, <2>5 DEF BucketsExact
<1>7. CASE ~InHistogram(t)
  <2>1. Bucket(t) >= num_buckets
    BY <1>2, <1>3, <1>7 DEF InHistogram
  <2>2. overflows' = overflows + 1 /\ buckets' = buckets
    BY <1>3, <1>7 DEF CountInBucket
  <2>3. \A b \in 0..(num_buckets' - 1) : buckets'[b] = Cardinality(SamplesIn(b)')
    <3> TAKE b \in 0..(num_buckets' - 1)
    <3>1. b \in 0..(num_buckets - 1) /\ buckets[b] = Cardinality(SamplesIn(b))
      BY <1>3 DEF BucketsExact
    <3>2. Bucket(t) # b
      BY <1>2, <1>3, <2>1, <3>1
    <3>3. QED
      BY <1>4, <2>2, <3>1, <3>2
  <2>4. Cardinality(SamplesBeyond \cup {n + 1}) = Cardinality(SamplesBeyond) + 1
    BY <1>1, <1>5, CountOneMore
  <2>5. overflows' = Cardinality(SamplesBeyond')
    BY <1>5, <2>1, <2>2, <2>4 DEF BucketsExact
  <2>6. QED
    BY <2>3, <2>5 DEF BucketsExact
<1>8. QED
  BY <1>6, <1>7

LEMMA ResetBucketsExact ==
  ASSUME NEW n \in BucketCounts, HistoInit(n)
  PROVE  BucketsExact'
<1>1. samples' = << >> /\ num_buckets' = n /\ overflows' = 0
      /\ buckets' = [b \in 0..(n - 1) |-> 0]
  BY DEF HistoInit, ResetBuckets
<1>2. \A b \in 0..(n - 1) : SamplesIn(b)' = {}
  BY <1>1 DEF SamplesIn
<1>3. SamplesBeyond' = {}
  BY <1>1 DEF SamplesBeyond
<1>4. Cardinality({}) = 0
  BY FS_EmptySet
<1>5. QED
  BY <1>1, <1>2, <1>3, <1>4 DEF BucketsExact

(* Every sample of every run is counted once, in the bucket it belongs to  *)
(* or as an overflow, and none of an earlier run is left                   *)
(* (jtr.c:255-271, 282-287).                                               *)
THEOREM BucketsCorrect == Spec => []BucketsExact
<1>1. Init => BucketsExact
  <2> SUFFICES ASSUME Init PROVE BucketsExact
    OBVIOUS
  <2>1. 0..(num_buckets - 1) = {} /\ SamplesBeyond = {} /\ overflows = 0
    BY DEF Init, SamplesBeyond
  <2>2. QED
    BY <2>1, FS_EmptySet DEF BucketsExact
<1>2. HistoTypeOK /\ BucketsExact /\ [Next]_vars => BucketsExact'
  <2> SUFFICES ASSUME HistoTypeOK, BucketsExact, [Next]_vars
               PROVE  BucketsExact'
    OBVIOUS
  <2>1. ASSUME NEW n \in BucketCounts, HistoInit(n)
        PROVE  BucketsExact'
    BY <2>1, ResetBucketsExact
  <2>2. ASSUME MeasureAllowed, NEW d \in Diffs, AccumDiff(d)
        PROVE  BucketsExact'
    BY <2>2, AccumBuckets
  <2>3. CASE UNCHANGED <<allocated, num_buckets, buckets, overflows,
                         min_time, max_time, tot_time, num_samples, average,
                         samples>>
    BY <2>3 DEF BucketsExact, SamplesIn, SamplesBeyond
  <2>4. QED
    BY <2>1, <2>2, <2>3, AbortKeepsHistogram DEF Next
<1>3. QED
  BY <1>1, <1>2, HistoTypeCorrect, PTL DEF Spec
-----------------------------------------------------------------------------
(* Refinement of SampleLog: what is published is what the abstract log     *)
(* computes from all the samples of the run.                               *)
TotalIsSum ==
  /\ tot_time = SumOf(samples)
  /\ average = IF num_samples = 0 THEN 0 ELSE tot_time \div num_samples

LEMMA TotalCorrect == Spec => []TotalIsSum
<1>1. SumOf(<< >>) = 0
  <2>1. << >> \in Seq({0})
    OBVIOUS
  <2>2. QED
    BY <2>1, SumAppend
<1>2. Init => TotalIsSum
  BY <1>1 DEF Init, TotalIsSum
<1>3. HistoTypeOK /\ TotalIsSum /\ [Next]_vars => TotalIsSum'
  <2> SUFFICES ASSUME HistoTypeOK, TotalIsSum, [Next]_vars
               PROVE  TotalIsSum'
    OBVIOUS
  <2>1. ASSUME NEW n \in BucketCounts, HistoInit(n)
        PROVE  TotalIsSum'
    BY <1>1, <2>1 DEF HistoInit, ResetTotals, TotalIsSum
  <2>2. ASSUME MeasureAllowed, NEW d \in Diffs, AccumDiff(d)
        PROVE  TotalIsSum'
    <3> DEFINE t == Narrow(Clamp(d))
    <3>1. t \in 0..INT_MAX /\ num_samples \in Nat /\ HistoAccum(t)
      BY <2>2, AccumAppends
    <3> HIDE DEF t
    <3>2. SumOf(Append(samples, t)) = SumOf(samples) + t
      BY <3>1, SumAppend DEF HistoTypeOK
    <3>3. /\ samples' = Append(samples, t) /\ tot_time' = tot_time + t
          /\ num_samples' = num_samples + 1
          /\ average' = tot_time' \div num_samples'
      BY <3>1 DEF HistoAccum, UpdateTotals
    <3>4. num_samples' # 0
      BY <3>1, <3>3
    <3>5. tot_time' = SumOf(samples')
      BY <3>2, <3>3 DEF TotalIsSum
    <3>6. QED
      BY <3>3, <3>4, <3>5 DEF TotalIsSum
  <2>3. CASE UNCHANGED <<allocated, num_buckets, buckets, overflows,
                         min_time, max_time, tot_time, num_samples, average,
                         samples>>
    BY <2>3 DEF TotalIsSum
  <2>4. QED
    BY <2>1, <2>2, <2>3, AbortKeepsHistogram DEF Next
<1>4. QED
  BY <1>2, <1>3, HistoTypeCorrect, PTL DEF Spec

(* The least element of a set of numbers is the one the log calls Min, and *)
(* the greatest the one it calls Max.                                      *)
LEMMA LogExtremes ==
  ASSUME NEW S \in SUBSET Int, NEW lo \in S, NEW hi \in S,
         \A x \in S : lo <= x /\ x <= hi
  PROVE  Log!Min(S) = lo /\ Log!Max(S) = hi
<1>1. Log!Min(S) = lo
  <2> DEFINE m == CHOOSE x \in S : \A y \in S : x <= y
  <2>1. m \in S /\ \A y \in S : m <= y
    OBVIOUS
  <2>2. Log!Min(S) = m
    BY DEF Log!Min
  <2> HIDE DEF m
  <2>3. QED
    BY <2>1, <2>2
<1>2. Log!Max(S) = hi
  <2> DEFINE m == CHOOSE x \in S : \A y \in S : x >= y
  <2>1. m \in S /\ \A y \in S : m >= y
    OBVIOUS
  <2>2. Log!Max(S) = m
    BY DEF Log!Max
  <2> HIDE DEF m
  <2>3. QED
    BY <2>1, <2>2
<1>3. QED
  BY <1>1, <1>2

LEMMA ResultsFromLog ==
  ASSUME HistoTypeOK, BucketsExact, ExtremesExact, EmptyExtremes, TotalIsSum,
         allocated
  PROVE  PublishedResults = Log!Results(samples, num_buckets)
<1> DEFINE n == num_samples
<1>1. /\ samples \in Seq(0..INT_MAX) /\ Len(samples) = n /\ n \in Nat
      /\ DOMAIN samples = 1..n /\ INT_MAX \in Nat /\ num_buckets \in Nat
      /\ \A k \in 1..n : samples[k] \in 0..INT_MAX
  BY HistoAssumption DEF HistoTypeOK
<1>2. min_time \in 0..INT_MAX /\ max_time \in 0..INT_MAX
  BY DEF HistoTypeOK
<1> DEFINE Taken == Log!Range(samples)
<1>3. Taken = {samples[k] : k \in 1..n}
  BY <1>1 DEF Log!Range
<1> HIDE DEF Taken
<1>4. Log!Min(Taken \cup {INT_MAX}) = min_time
  <2> DEFINE S == Taken \cup {INT_MAX}
  <2>1. min_time \in S
    <3>1. CASE n = 0
      BY <3>1 DEF EmptyExtremes
    <3>2. CASE n > 0
      BY <1>1, <1>3, <3>2 DEF ExtremesExact
    <3>3. QED
      BY <1>1, <3>1, <3>2
  <2>2. \A x \in S : x \in min_time..INT_MAX
    BY <1>1, <1>2, <1>3 DEF ExtremesExact
  <2>3. INT_MAX \in S /\ S \in SUBSET Int
    BY <1>1, <1>2, <2>2
  <2>4. \A x \in S : min_time <= x /\ x <= INT_MAX
    BY <1>1, <1>2, <2>2
  <2> HIDE DEF S
  <2>5. Log!Min(S) = min_time
    BY <2>1, <2>3, <2>4, LogExtremes
  <2>6. QED
    BY <2>5 DEF S
<1>5. Log!Max(Taken \cup {0}) = max_time
  <2> DEFINE S == Taken \cup {0}
  <2>1. max_time \in S
    <3>1. CASE n = 0
      BY <3>1 DEF EmptyExtremes
    <3>2. CASE n > 0
      BY <1>1, <1>3, <3>2 DEF ExtremesExact
    <3>3. QED
      BY <1>1, <3>1, <3>2
  <2>2. \A x \in S : x \in 0..max_time
    BY <1>1, <1>2, <1>3 DEF ExtremesExact
  <2>3. 0 \in S /\ S \in SUBSET Int
    BY <1>1, <1>2, <2>2
  <2>4. \A x \in S : 0 <= x /\ x <= max_time
    BY <1>1, <1>2, <2>2
  <2> HIDE DEF S
  <2>5. Log!Max(S) = max_time
    BY <2>1, <2>3, <2>4, LogExtremes
  <2>6. QED
    BY <2>5 DEF S
<1>6. average = IF samples = << >> THEN 0
                                   ELSE Log!Total(samples) \div Len(samples)
  <2>1. samples = << >> <=> n = 0
    BY <1>1
  <2>2. Log!Total(samples) = tot_time
    BY DEF TotalIsSum, SumOf, Log!Total
  <2>3. QED
    BY <1>1, <2>1, <2>2 DEF TotalIsSum
<1>7. \A b \in 0..(num_buckets - 1) :
        buckets[b] = Cardinality({k \in DOMAIN samples :
                                    samples[k] \div HISTO_GRANULARITY = b})
  BY <1>1 DEF BucketsExact, SamplesIn, Bucket
<1>8. buckets = [b \in 0..(num_buckets - 1) |->
                   Cardinality({k \in DOMAIN samples :
                                  samples[k] \div HISTO_GRANULARITY = b})]
  BY <1>7 DEF HistoTypeOK
<1>9. overflows = Cardinality({k \in DOMAIN samples :
                     samples[k] >= num_buckets * HISTO_GRANULARITY})
  <2>1. \A k \in 1..n : Bucket(samples[k]) >= num_buckets
                         <=> samples[k] >= num_buckets * HISTO_GRANULARITY
    <3> TAKE k \in 1..n
    <3> DEFINE x == samples[k]
               q == Bucket(x)
    <3>1. x \in Int
      BY <1>1
    <3>2. q \in Int /\ HISTO_GRANULARITY * q <= x
          /\ x < HISTO_GRANULARITY * q + HISTO_GRANULARITY
      BY <3>1, QuotientBounds, HistoAssumption DEF Bucket
    <3>3. num_buckets * HISTO_GRANULARITY <= x => num_buckets <= q
      <4> HIDE DEF x
      <4>1. HISTO_GRANULARITY * num_buckets = num_buckets * HISTO_GRANULARITY
            /\ num_buckets \in Int /\ HISTO_GRANULARITY \in Nat \ {0}
        BY <1>1, HistoAssumption
      <4>2. HISTO_GRANULARITY * num_buckets <= x => num_buckets <= q
        BY <3>1, <4>1, QuotientAtLeast DEF Bucket
      <4>3. QED
        BY <4>1, <4>2
    <3> HIDE DEF q
    <3>4. num_buckets <= q
          => HISTO_GRANULARITY * num_buckets <= HISTO_GRANULARITY * q
      BY <1>1, <3>2, HistoAssumption
    <3> HIDE DEF x
    <3>5. HISTO_GRANULARITY * num_buckets = num_buckets * HISTO_GRANULARITY
          /\ HISTO_GRANULARITY * num_buckets \in Int
          /\ HISTO_GRANULARITY * q \in Int
      BY <1>1, <3>2, HistoAssumption
    <3>6. q >= num_buckets <=> x >= num_buckets * HISTO_GRANULARITY
      BY <1>1, <3>1, <3>2, <3>3, <3>4, <3>5
    <3>7. QED
      BY <3>6 DEF q, x
  <2>2. SamplesBeyond = {k \in DOMAIN samples :
                           samples[k] >= num_buckets * HISTO_GRANULARITY}
    BY <1>1, <2>1 DEF SamplesBeyond
  <2>3. QED
    BY <2>2 DEF BucketsExact
<1>10. QED
  <2>1. Log!Results(samples, num_buckets)
        = [count     |-> Len(samples),
           minimum   |-> Log!Min(Taken \cup {INT_MAX}),
           maximum   |-> Log!Max(Taken \cup {0}),
           average   |-> IF samples = << >>
                         THEN 0 ELSE Log!Total(samples) \div Len(samples),
           counts    |-> [b \in 0..(num_buckets - 1) |->
                            Cardinality({k \in DOMAIN samples :
                              samples[k] \div HISTO_GRANULARITY = b})],
           overflows |-> Cardinality({k \in DOMAIN samples :
                           samples[k] >= num_buckets * HISTO_GRANULARITY})]
    BY DEF Log!Results, Log!Quantify, Log!Cardinality, Cardinality, Taken
  <2>2. QED
    BY <1>1, <1>4, <1>5, <1>6, <1>8, <1>9, <2>1 DEF PublishedResults

LEMMA LogBuckets ==
  ASSUME HistoTypeOK, allocated
  PROVE  Log!Buckets = num_buckets
<1>1. num_buckets \in Nat /\ DOMAIN buckets = 0..(num_buckets - 1)
  BY DEF HistoTypeOK
<1>2. Cardinality(DOMAIN buckets) = num_buckets
  BY <1>1, FS_Interval
<1>3. Log!Buckets = Cardinality(DOMAIN buckets)
  BY DEF Log!Buckets, Log!Cardinality, Cardinality, PublishedResults
<1>4. QED
  BY <1>2, <1>3

(* A histogram that was initialised publishes the results of its log.      *)
ResultsExact == allocated => PublishedResults = Log!Results(samples, num_buckets)

LEMMA ResultsInvariant == Spec => []ResultsExact
<1>1. HistoTypeOK /\ BucketsExact /\ (ExtremesExact /\ EmptyExtremes)
      /\ TotalIsSum => ResultsExact
  BY ResultsFromLog DEF ResultsExact
<1>2. QED
  BY <1>1, HistoTypeCorrect, BucketsCorrect, ExtremesInvariant, TotalCorrect, PTL

LEMMA LogStart == Init => Log!LogInit
BY Zenon DEF Init, Log!LogInit

LEMMA LogStep ==
  ASSUME HistoTypeOK, HistoTypeOK', ResultsExact', [Next]_vars
  PROVE  [Log!LogNext]_(Log!logVars)
<1> DEFINE results == IF allocated THEN PublishedResults ELSE << >>
<1>1. ASSUME NEW n \in BucketCounts, HistoInit(n)
      PROVE  Log!Reset(n)
  <2>1. allocated' /\ samples' = << >> /\ num_buckets' = n
        /\ (allocated => n = num_buckets)
    BY <1>1 DEF HistoInit
  <2>2. results # << >> => n = Log!Buckets
    BY <2>1, LogBuckets
  <2>3. results' = Log!Results(<< >>, n)
    BY <2>1 DEF ResultsExact
  <2>4. QED
    BY <2>1, <2>2, <2>3 DEF Log!Reset
<1>2. ASSUME MeasureAllowed, NEW d \in Diffs, AccumDiff(d)
      PROVE  \E t \in 0..INT_MAX : Log!Record(t)
  <2> DEFINE t == Narrow(Clamp(d))
  <2>1. t \in 0..INT_MAX /\ HistoAccum(t)
    BY <1>2, AccumAppends
  <2>2. allocated
    BY <1>2 DEF AccumDiff, MeasureAllowed
  <2> HIDE DEF t
  <2>3. allocated' /\ num_buckets' = num_buckets
        /\ samples' = Append(samples, t)
    BY <2>1, <2>2 DEF HistoAccum
  <2>4. results # << >>
    BY <2>2 DEF PublishedResults
  <2>5. results' = Log!Results(samples', Log!Buckets)
    BY <2>2, <2>3, LogBuckets DEF ResultsExact
  <2>6. QED
    BY <2>1, <2>3, <2>4, <2>5 DEF Log!Record
<1>3. CASE UNCHANGED <<allocated, num_buckets, buckets, overflows,
                       min_time, max_time, tot_time, num_samples, average,
                       samples>>
  BY <1>3 DEF Log!logVars, PublishedResults
<1>4. QED
  BY <1>1, <1>2, <1>3, AbortKeepsHistogram DEF Next, Log!LogNext

(* The histogram of jtr.c implements the log of all samples: every call of *)
(* jtr_histo_init() starts an empty run, every jtr_histo_accum() adds one  *)
(* sample, and what is published is always computed from the samples of    *)
(* the current run alone (jtr.c:243-299).                                  *)
THEOREM LogImplemented == Spec => ImplementsSampleLog
<1>1. Spec => [](HistoTypeOK /\ ResultsExact)
  BY HistoTypeCorrect, ResultsInvariant, PTL
<1>2. HistoTypeOK /\ HistoTypeOK' /\ ResultsExact' /\ [Next]_vars
      => [Log!LogNext]_(Log!logVars)
  BY LogStep
<1>3. QED
  BY <1>1, <1>2, LogStart, PTL DEF Spec, ImplementsSampleLog, Log!LogSpec
-----------------------------------------------------------------------------
(* The histogrammed samples, each as its bucket and its rank in it, as     *)
(* Percentile.tla counts them                                              *)
PointsIn(b) == {b} \X (1..buckets[b])
AllPoints == UNION {PointsIn(b) : b \in 0..(num_buckets - 1)}

LEMMA MemberOfAllPoints ==
  ASSUME HistoTypeOK, NEW x
  PROVE  x \in AllPoints <=>
           \E b \in 0..(num_buckets - 1) :
             \E r \in 1..buckets[b] : x = <<b, r>>
BY DEF AllPoints, PointsIn

LEMMA AllPointsFinite ==
  ASSUME HistoTypeOK
  PROVE  IsFiniteSet(AllPoints) /\ Cardinality(AllPoints) \in Nat
<1> DEFINE Box == (0..(num_buckets - 1)) \X (1..num_samples)
<1>1. num_samples \in Nat /\ num_buckets \in Nat
      /\ buckets \in [0..(num_buckets - 1) -> 0..num_samples]
  BY HistoAssumption DEF HistoTypeOK
<1>2. IsFiniteSet(0..(num_buckets - 1)) /\ IsFiniteSet(1..num_samples)
  BY <1>1, FS_Interval
<1>3. IsFiniteSet(Box)
  BY <1>2, FS_Product
<1>4. \A b \in 0..(num_buckets - 1) : 1..buckets[b] \subseteq 1..num_samples
  BY <1>1
<1>5. AllPoints \subseteq Box
  BY <1>4, MemberOfAllPoints
<1>6. QED
  BY <1>3, <1>5, FS_Subset, FS_CardinalityType

(* No sample is lost between the buckets and the overflows.                *)
PointsAddUp == num_samples = Cardinality(AllPoints) + overflows

LEMMA AccumPoints ==
  ASSUME HistoTypeOK, HistoTypeOK', PointsAddUp,
         NEW d \in Diffs, AccumDiff(d)
  PROVE  PointsAddUp'
<1> DEFINE t == Narrow(Clamp(d))
           b == Bucket(t)
           new == <<b, buckets[b] + 1>>
<1>1. t \in 0..INT_MAX /\ num_samples \in Nat /\ HistoAccum(t)
      /\ num_samples' = num_samples + 1
  BY AccumAppends
<1>2. b \in Nat
  BY <1>1, BucketNat
<1>3. num_buckets' = num_buckets /\ num_buckets \in Nat /\ CountInBucket(t)
      /\ overflows \in Nat
  BY <1>1 DEF HistoAccum, HistoTypeOK
<1>4. CASE InHistogram(t)
  <2>1. b \in 0..(num_buckets - 1) /\ overflows' = overflows
        /\ buckets' = [buckets EXCEPT ![b] = buckets[b] + 1]
    BY <1>2, <1>3, <1>4 DEF CountInBucket, InHistogram
  <2> HIDE DEF b, t
  <2>2. \A c \in 0..(num_buckets - 1) :
          buckets[c] \in Nat
          /\ buckets'[c] = IF c = b THEN buckets[b] + 1 ELSE buckets[c]
    <3>1. buckets \in [0..(num_buckets - 1) -> Nat]
      <4>1. buckets \in [0..(num_buckets - 1) -> 0..num_samples]
        BY DEF HistoTypeOK
      <4>2. \A c \in 0..num_samples : c \in Nat
        BY <1>1
      <4>3. QED
        BY <4>1, <4>2
    <3>2. QED
      BY <2>1, <3>1
  <2>3. new \notin AllPoints
    BY <2>1, <2>2, MemberOfAllPoints
  <2>4. ASSUME NEW x PROVE x \in AllPoints' <=> x \in AllPoints \cup {new}
    <3>1. x \in AllPoints' <=>
            \E c \in 0..(num_buckets - 1) :
              \E r \in 1..buckets'[c] : x = <<c, r>>
      BY <1>3 DEF AllPoints, PointsIn
    <3>2. \A c \in 0..(num_buckets - 1) : \A r :
            r \in 1..buckets'[c] <=>
              r \in 1..buckets[c] \/ (c = b /\ r = buckets[b] + 1)
      BY <2>2
    <3>3. x \in AllPoints \cup {new} <=>
            \/ \E c \in 0..(num_buckets - 1) :
                 \E r \in 1..buckets[c] : x = <<c, r>>
            \/ x = new
      BY MemberOfAllPoints
    <3>4. QED
      BY <2>1, <3>1, <3>2, <3>3
  <2>5. AllPoints' = AllPoints \cup {new}
    BY <2>4
  <2>6. Cardinality(AllPoints') = Cardinality(AllPoints) + 1
    BY <2>3, <2>5, AllPointsFinite, FS_AddElement
  <2>7. QED
    BY <1>1, <1>3, <2>1, <2>6, AllPointsFinite DEF PointsAddUp
<1>5. CASE ~InHistogram(t)
  <2>1. overflows' = overflows + 1 /\ buckets' = buckets
    BY <1>3, <1>5 DEF CountInBucket
  <2>2. AllPoints' = AllPoints
    BY <1>3, <2>1 DEF AllPoints, PointsIn
  <2>3. QED
    BY <1>1, <1>3, <2>1, <2>2, AllPointsFinite DEF PointsAddUp
<1>6. QED
  BY <1>4, <1>5

LEMMA NoPoints ==
  ASSUME \A b \in 0..(num_buckets - 1) : buckets[b] = 0
  PROVE  Cardinality(AllPoints) = 0
<1>1. \A b \in 0..(num_buckets - 1) : PointsIn(b) = {}
  BY DEF PointsIn
<1>2. AllPoints = {}
  BY <1>1 DEF AllPoints
<1>3. QED
  BY <1>2, FS_EmptySet

LEMMA PointsInvariant == Spec => []PointsAddUp
<1>1. Init => PointsAddUp
  <2> SUFFICES ASSUME Init PROVE PointsAddUp
    OBVIOUS
  <2>1. \A b \in 0..(num_buckets - 1) : buckets[b] = 0
    BY DEF Init
  <2>2. QED
    BY <2>1, NoPoints DEF PointsAddUp, Init
<1>2. HistoTypeOK /\ HistoTypeOK' /\ PointsAddUp /\ [Next]_vars
      => PointsAddUp'
  <2> SUFFICES ASSUME HistoTypeOK, HistoTypeOK', PointsAddUp, [Next]_vars
               PROVE  PointsAddUp'
    OBVIOUS
  <2>1. ASSUME NEW n \in BucketCounts, HistoInit(n)
        PROVE  PointsAddUp'
    <3>1. num_samples' = 0 /\ overflows' = 0 /\ num_buckets' = n
          /\ buckets' = [b \in 0..(n - 1) |-> 0]
      BY <2>1 DEF HistoInit, ResetBuckets, ResetTotals
    <3>2. \A b \in 0..(n - 1) : ({b} \X (1..0)) = {}
      OBVIOUS
    <3>3. AllPoints' = {}
      BY <3>1, <3>2 DEF AllPoints, PointsIn
    <3>4. QED
      BY <3>1, <3>3, FS_EmptySet DEF PointsAddUp
  <2>2. ASSUME MeasureAllowed, NEW d \in Diffs, AccumDiff(d)
        PROVE  PointsAddUp'
    BY <2>2, AccumPoints
  <2>3. CASE UNCHANGED <<allocated, num_buckets, buckets, overflows,
                         min_time, max_time, tot_time, num_samples, average,
                         samples>>
    BY <2>3 DEF PointsAddUp, AllPoints, PointsIn
  <2>4. QED
    BY <2>1, <2>2, <2>3, AbortKeepsHistogram DEF Next
<1>3. QED
  BY <1>1, <1>2, HistoTypeCorrect, PTL DEF Spec
-----------------------------------------------------------------------------
(* README.md:193 is right as long as no difference exceeds an int: then    *)
(* the maximum is the most time measured, negative differences and all     *)
(* (jtr.c:520-532).                                                        *)
THEOREM MaximumCorrectWithinInt ==
  ASSUME \A d \in Diffs : d <= INT_MAX
  PROVE  Spec => []MaximumIsMostTimeMeasured
<1> DEFINE Inv == allocated => max_time = longest
<1>1. Init => Inv
  BY Zenon DEF Init
<1>2. HistoTypeOK /\ Inv /\ [Next]_vars => Inv'
  <2> SUFFICES ASSUME HistoTypeOK, Inv, [Next]_vars
               PROVE  Inv'
    OBVIOUS
  <2>1. ASSUME NEW n \in BucketCounts, HistoInit(n)
        PROVE  Inv'
    BY <2>1 DEF HistoInit, ResetExtremes
  <2>2. ASSUME MeasureAllowed, NEW d \in Diffs, AccumDiff(d)
        PROVE  Inv'
    <3>1. d \in Int /\ d <= INT_MAX /\ INT_MAX \in Nat /\ longest \in Nat
      BY HistoAssumption DEF HistoTypeOK
    <3>2. Clamp(d) \in 0..INT_MAX
      BY <3>1 DEF Clamp
    <3>3. Narrow(Clamp(d)) = Clamp(d)
      <4> DEFINE c == Clamp(d)
                 m == 2 * (INT_MAX + 1)
      <4>1. m \in Nat \ {0} /\ c + INT_MAX + 1 \in 0..(m - 1)
        BY <3>1, <3>2
      <4> HIDE DEF c, m
      <4>2. (c + INT_MAX + 1) % m = c + INT_MAX + 1
        BY <4>1, ModSmall
      <4>3. QED
        BY <3>1, <3>2, <4>2 DEF Narrow, c, m
    <3>4. allocated /\ HistoAccum(Clamp(d))
          /\ longest' = IF d > longest THEN d ELSE longest
      BY <2>2, <3>3 DEF AccumDiff, MeasureAllowed
    <3>5. max_time' = IF Clamp(d) > max_time THEN Clamp(d) ELSE max_time
      BY <3>4 DEF HistoAccum, UpdateExtremes
    <3>6. max_time = longest
      BY <3>4
    <3>7. max_time' = longest'
      BY <3>1, <3>4, <3>5, <3>6 DEF Clamp
    <3>8. QED
      BY <3>7
  <2>3. CASE \/ \E n \in BucketCounts : HistoInitResize(n)
             \/ \E d \in Diffs : AccumDiffNegative(d)
             \/ UNCHANGED vars
    BY <2>3 DEF HistoInitResize, AccumDiffNegative, Abort, vars, histoVars,
                totals
  <2>4. QED
    BY <2>1, <2>2, <2>3 DEF Next
<1>3. Spec => []Inv
  BY <1>1, <1>2, HistoTypeCorrect, PTL DEF Spec
<1>4. Spec => [](num_samples > 0 => allocated)
  <2>1. Init => (num_samples > 0 => allocated)
    BY DEF Init
  <2>2. (num_samples > 0 => allocated) /\ [Next]_vars
        => (num_samples > 0 => allocated)'
    BY AbortKeepsHistogram
       DEF Next, HistoInit, AccumDiff, MeasureAllowed, HistoAccum
  <2>3. QED
    BY <2>1, <2>2, PTL DEF Spec
<1>5. Inv /\ (num_samples > 0 => allocated) => MaximumIsMostTimeMeasured
  BY DEF MaximumIsMostTimeMeasured
<1>6. QED
  BY <1>3, <1>4, <1>5, PTL
=============================================================================
