----------------------------- MODULE Percentile -----------------------------
(***************************************************************************)
(* jtr_histo_print_perc() of jtr.c, called by jtr_histo_print_all() for    *)
(* the percentiles 90, 99, 99.9, 99.99 and 99.999 of one histogram.  No    *)
(* sample is taken while it runs, so the histogram is any one that         *)
(* Histogram.tla can produce: bucket counts and overflows that add up to   *)
(* num_samples.  A percentile is an integer number of Scale-ths.           *)
(***************************************************************************)
EXTENDS Integers, Sequences, FiniteSets

CONSTANTS
  HISTO_GRANULARITY,  \* nanoseconds per bucket
  num_buckets,        \* jtr_histo_num_buckets
  Percentiles,        \* the calls of jtr_histo_print_all(), in their order
  Scale,              \* Scale of Scale is 100%
  MaxSamples          \* bound on num_samples

ASSUME PercAssumption ==
  /\ HISTO_GRANULARITY \in Nat \ {0}
  /\ num_buckets \in Nat
  /\ Scale \in Nat \ {0}
  /\ Percentiles \in Seq(0..Scale)
  /\ MaxSamples \in Nat

VARIABLES
  buckets, overflows, num_samples,    \* the histogram: constant here
  i, tot_at_i_or_below, min_count,    \* locals of jtr_histo_print_perc()
  scanning,                           \* inside the call
  printed                             \* what the calls so far have printed

histogram == <<buckets, overflows, num_samples>>
locals == <<i, tot_at_i_or_below, min_count>>
vars == <<histogram, locals, scanning, printed>>
-----------------------------------------------------------------------------
(* The histogrammed samples, each as its bucket and its rank in it.        *)
Points(b) == {b} \X (1..buckets[b])
PointsBelow(n) == UNION {Points(b) : b \in 0..(n - 1)}

(* (int)((percentile / 100.0) * num_samples + 0.5), in exact arithmetic.   *)
(* The C doubles give the same for the five percentiles and every count up *)
(* to 4,000,000, except that 99.99% of an odd multiple of 5000 samples, an *)
(* exact tie, comes out one less for 364 of those counts.                  *)
MinCount_NotDivided(p, n) == (2 * 100 * p * n + Scale) \div (2 * Scale)
MinCount_Truncated(p, n) == (p * n) \div Scale
MinCount(p, n) == (2 * p * n + Scale) \div (2 * Scale)

Init ==
  /\ buckets \in [0..(num_buckets - 1) -> 0..MaxSamples]
  /\ overflows \in 0..MaxSamples
  /\ num_samples \in 0..MaxSamples
  /\ num_samples = Cardinality(PointsBelow(num_buckets)) + overflows
  /\ i = 0 /\ tot_at_i_or_below = 0 /\ min_count = 0
  /\ scanning = FALSE
  /\ printed = << >>

Current == Percentiles[Len(printed) + 1]

StartTotal_Kept == i' = 0 /\ UNCHANGED tot_at_i_or_below
StartTotal == i' = 0 /\ tot_at_i_or_below' = 0

PercStart ==
  /\ ~scanning /\ Len(printed) < Len(Percentiles)
  /\ min_count' = MinCount(Current, num_samples)
  /\ StartTotal
  /\ scanning' = TRUE
  /\ UNCHANGED <<histogram, printed>>

LoopTest == i < num_buckets /\ tot_at_i_or_below < min_count

Advance_OnHit == i' = IF buckets[i] > 0 THEN i + 1 ELSE i
Advance == i' = i + 1

PercStep ==
  /\ scanning /\ LoopTest
  /\ tot_at_i_or_below' = tot_at_i_or_below + buckets[i]
  /\ Advance
  /\ UNCHANGED <<histogram, min_count, scanning, printed>>

(* "p% are below X ns", or the histogram overflow warning                  *)
Line_LastBucketWarns ==
  [perc |-> Current, warning |-> i >= num_buckets,
   below |-> i * HISTO_GRANULARITY]
Line ==
  [perc |-> Current, warning |-> tot_at_i_or_below < min_count,
   below |-> i * HISTO_GRANULARITY]

PercPrint ==
  /\ scanning /\ ~LoopTest
  /\ printed' = Append(printed, Line)
  /\ scanning' = FALSE
  /\ UNCHANGED <<histogram, locals>>

Next == PercStart \/ PercStep \/ PercPrint

(* jtr_histo_print_perc() is straight sequential code: the thread that     *)
(* runs it keeps running, and nothing in it blocks.                        *)
Spec == Init /\ [][Next]_vars /\ WF_vars(Next)
-----------------------------------------------------------------------------
(* The locals stay in range: buckets[i] is never read beyond the array,    *)
(* and no percentile asks for more samples than there are (jtr.c:322-330). *)
PercTypeOK ==
  /\ buckets \in [0..(num_buckets - 1) -> 0..MaxSamples]
  /\ overflows \in 0..MaxSamples
  /\ num_samples \in 0..MaxSamples
  /\ i \in 0..num_buckets
  /\ tot_at_i_or_below \in Nat
  /\ min_count \in 0..num_samples
  /\ scanning \in BOOLEAN
  /\ printed \in Seq([perc : 0..Scale, warning : BOOLEAN, below : Nat])
  /\ Len(printed) <= Len(Percentiles)

(* Samples of the histogram that are below x ns *)
CountBelow(x) ==
  Cardinality({pt \in PointsBelow(num_buckets) : pt[1] * HISTO_GRANULARITY < x})

(* A count of samples is p percent of num_samples, rounded to nearest, or  *)
(* more: it is less than half a sample short.                              *)
Reaches(count, p) == 2 * Scale * count + Scale > 2 * p * num_samples

(* A printed bound X is the least bucket edge with p percent of the        *)
(* samples, rounded to nearest, below it: those below X are enough, those  *)
(* below the edge before X are too few (jtr.c:326-337).                    *)
BoundIsTight ==
  \A k \in 1..Len(printed) :
    LET e == printed[k] IN
    ~e.warning =>
      /\ Reaches(CountBelow(e.below), e.perc)
      /\ e.below > 0 =>
           ~Reaches(CountBelow(e.below - HISTO_GRANULARITY), e.perc)

(* The overflow warning is printed exactly when the samples the histogram  *)
(* holds do not reach the percentile, never because the bound happens to   *)
(* fall into the last bucket (jtr.c:331-345).                              *)
WarningIsExact ==
  \A k \in 1..Len(printed) :
    printed[k].warning <=> ~Reaches(num_samples - overflows, printed[k].perc)

(* Of two percentiles of one histogram the higher one has the higher or    *)
(* equal bound, and a warning stays a warning (jtr.c:457-461).             *)
HigherPercentileHigherBound ==
  \A k, m \in 1..Len(printed) :
    printed[k].perc <= printed[m].perc =>
      /\ printed[k].below <= printed[m].below
      /\ printed[k].warning => printed[m].warning

(* Every call returns and jtr_histo_print_all() gets all lines printed.    *)
AllLinesPrinted == <>(Len(printed) = Len(Percentiles))

(* README.md:203, "99.999% - Out of 2 million samples, 999,990 were below  *)
(* this time; 10 were at or above", and the printed line "p% are below X": *)
(* at least p percent of the samples are below X.  The rounding to nearest *)
(* at jtr.c:326 lets one sample too few suffice.                           *)
PercentOfSamplesAreBelow ==
  \A k \in 1..Len(printed) :
    ~printed[k].warning =>
      CountBelow(printed[k].below) * Scale >= printed[k].perc * num_samples
=============================================================================
