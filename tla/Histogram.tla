----------------------------- MODULE Histogram -----------------------------
(***************************************************************************)
(* The jitter histogram of jtr.c: jtr_histo_init(), jtr_histo_accum() and  *)
(* the tail of jtr_measure_one() that turns a measured time difference     *)
(* into a sample.  The state is the group of jtr_histo_* globals; names    *)
(* drop that prefix.  A failed SYSE() check calls abort(), which is        *)
(* status = "aborted".                                                     *)
(*                                                                         *)
(* Two history variables, which no guard reads, record the run since the   *)
(* last jtr_histo_init(): `samples', the int values jtr_histo_accum() got, *)
(* and `longest', the greatest difference measured, before the narrowing.  *)
(***************************************************************************)
EXTENDS Integers, Sequences, FiniteSets

CONSTANTS
  HISTO_GRANULARITY,  \* nanoseconds per bucket
  INT_MAX,            \* largest value of a C int
  BucketCounts,       \* values of opt_histo_buckets
  Diffs,              \* values of diff_ns, a long long
  MaxSamples          \* opt_num_samples: the most samples between two inits

ASSUME HistoAssumption ==
  /\ HISTO_GRANULARITY \in Nat \ {0}
  /\ INT_MAX \in Nat \ {0}
  /\ BucketCounts \subseteq Nat
  /\ Diffs \subseteq Int
  /\ MaxSamples \in Nat

VARIABLES
  status,      \* "running" or "aborted"
  allocated,   \* jtr_histo_buckets != NULL
  num_buckets, buckets, overflows, min_time, max_time,
  tot_time, num_samples, average,
  neg_diffs,   \* jtr_neg_diffs
  samples, longest  \* history

totals == <<tot_time, num_samples, average>>
histoVars == <<allocated, num_buckets, buckets, overflows, min_time, max_time,
               totals, neg_diffs, samples, longest>>
vars == <<status, histoVars>>
-----------------------------------------------------------------------------
(* Conversions.  Passing diff_ns to `int sample_time' keeps the value      *)
(* modulo 2 * (INT_MAX + 1), as gcc defines the narrowing.                 *)
Narrow_Exact(d) == d
Narrow(d) == ((d + INT_MAX + 1) % (2 * (INT_MAX + 1))) - (INT_MAX + 1)

Clamp(d) == IF d < 0 THEN 0 ELSE d

Bucket(t) == t \div HISTO_GRANULARITY

InHistogram(t) == Bucket(t) < num_buckets

Abort == status' = "aborted" /\ UNCHANGED histoVars
-----------------------------------------------------------------------------
Init ==
  /\ status = "running"
  /\ allocated = FALSE
  /\ num_buckets = 0 /\ buckets = [b \in {} |-> 0] /\ overflows = 0
  /\ min_time = 0 /\ max_time = 0
  /\ tot_time = 0 /\ num_samples = 0 /\ average = 0
  /\ neg_diffs = 0
  /\ samples = << >> /\ longest = 0

ResetBuckets_KeepsOverflows(n) ==
  /\ buckets' = [b \in 0..(n - 1) |-> 0]
  /\ UNCHANGED overflows
ResetBuckets(n) ==
  /\ buckets' = [b \in 0..(n - 1) |-> 0]
  /\ overflows' = 0

ResetExtremes == min_time' = INT_MAX /\ max_time' = 0

ResetTotals_KeepsTotal ==
  num_samples' = 0 /\ average' = 0 /\ UNCHANGED tot_time
ResetTotals == tot_time' = 0 /\ num_samples' = 0 /\ average' = 0

HistoInit(n) ==
  /\ status = "running"
  /\ allocated => n = num_buckets
  /\ allocated' = TRUE
  /\ num_buckets' = n
  /\ ResetBuckets(n)
  /\ ResetExtremes
  /\ ResetTotals
  /\ neg_diffs' = 0
  /\ samples' = << >> /\ longest' = 0
  /\ UNCHANGED status

(* "no resizing allowed": a second init with another size aborts.          *)
HistoInitResize(n) ==
  /\ status = "running"
  /\ allocated /\ n # num_buckets
  /\ Abort
-----------------------------------------------------------------------------
CountInBucket(t) ==
  IF InHistogram(t)
  THEN buckets' = [buckets EXCEPT ![Bucket(t)] = @ + 1] /\ UNCHANGED overflows
  ELSE overflows' = overflows + 1 /\ UNCHANGED buckets

UpdateExtremes_ElseIf(t) ==
  /\ min_time' = IF t < min_time THEN t ELSE min_time
  /\ max_time' = IF t >= min_time /\ t > max_time THEN t ELSE max_time
UpdateExtremes(t) ==
  /\ min_time' = IF t < min_time THEN t ELSE min_time
  /\ max_time' = IF t > max_time THEN t ELSE max_time

UpdateTotals_StaleCount(t) ==
  /\ tot_time' = tot_time + t
  /\ num_samples' = num_samples + 1
  /\ average' = tot_time' \div (IF num_samples = 0 THEN 1 ELSE num_samples)
UpdateTotals(t) ==
  /\ tot_time' = tot_time + t
  /\ num_samples' = num_samples + 1
  /\ average' = tot_time' \div num_samples'

HistoAccum(t) ==
  /\ t >= 0
  /\ CountInBucket(t)
  /\ UpdateExtremes(t)
  /\ UpdateTotals(t)
  /\ samples' = Append(samples, t)
  /\ UNCHANGED <<status, allocated, num_buckets>>

(* The accumulating tail of jtr_measure_one()                              *)
AccumDiff(d) ==
  /\ status = "running"
  /\ HistoAccum(Narrow(Clamp(d)))
  /\ neg_diffs' = neg_diffs + IF d < 0 THEN 1 ELSE 0
  /\ longest' = IF d > longest THEN d ELSE longest

(* SYSE(sample_time < 0): only the narrowing can make a sample negative.   *)
AccumDiffNegative(d) ==
  /\ status = "running"
  /\ Narrow(Clamp(d)) < 0
  /\ Abort

(* No check of this code, but what its callers are to keep to: samples     *)
(* come after jtr_histo_init(), at most opt_num_samples per init.  The     *)
(* measuring loop of TestRun.tla is shown to.                              *)
MeasureAllowed == allocated /\ num_samples < MaxSamples

Next ==
  \/ \E n \in BucketCounts : HistoInit(n) \/ HistoInitResize(n)
  \/ MeasureAllowed /\ \E d \in Diffs : AccumDiff(d) \/ AccumDiffNegative(d)

Spec == Init /\ [][Next]_vars
-----------------------------------------------------------------------------
(* Every global keeps the range of its C type; tot_time, the only sum of   *)
(* samples, stays within num_samples * INT_MAX (jtr.c:45-60, jtr.c:296).   *)
HistoTypeOK ==
  /\ status \in {"running", "aborted"}
  /\ allocated \in BOOLEAN
  /\ num_buckets \in Nat
  /\ buckets \in [0..(num_buckets - 1) -> 0..num_samples]
  /\ overflows \in 0..num_samples
  /\ min_time \in 0..INT_MAX
  /\ max_time \in 0..INT_MAX
  /\ num_samples \in 0..MaxSamples
  /\ tot_time \in 0..(num_samples * INT_MAX)
  /\ average \in 0..INT_MAX
  /\ neg_diffs \in 0..num_samples
  /\ samples \in Seq(0..INT_MAX)
  /\ Len(samples) = num_samples
  /\ longest \in Nat

SamplesIn(b) == {k \in 1..Len(samples) : Bucket(samples[k]) = b}
SamplesBeyond == {k \in 1..Len(samples) : Bucket(samples[k]) >= num_buckets}

(* Each bucket and the overflow counter hold exactly the number of samples *)
(* of the current run that belong to them: none is lost, none is counted   *)
(* twice, and none of an earlier run is left (jtr.c:255-271, 282-287).     *)
BucketsExact ==
  /\ \A b \in 0..(num_buckets - 1) : buckets[b] = Cardinality(SamplesIn(b))
  /\ overflows = Cardinality(SamplesBeyond)

(* min_time and max_time are the least and the greatest sample of the      *)
(* current run, whatever order the samples came in (jtr.c:289-294).        *)
ExtremesExact ==
  num_samples > 0 =>
    /\ \E k \in 1..Len(samples) : samples[k] = min_time
    /\ \E k \in 1..Len(samples) : samples[k] = max_time
    /\ \A k \in 1..Len(samples) : samples[k] \in min_time..max_time

(* The truncated average, kept in an int, lies between the extremes        *)
(* (jtr.c:296-298); jtr_busy_loop_wait_count() relies on it.               *)
AverageBetweenExtremes ==
  num_samples > 0 => average \in min_time..max_time
-----------------------------------------------------------------------------
(* The published results, read off the running counters.                   *)
PublishedResults ==
  [count     |-> num_samples,
   minimum   |-> min_time,
   maximum   |-> max_time,
   average   |-> average,
   counts    |-> buckets,
   overflows |-> overflows]

Log == INSTANCE SampleLog
         WITH log       <- samples,
              NoResults <- << >>,
              results   <- IF allocated THEN PublishedResults ELSE << >>

(* The counters updated one sample at a time always equal the results      *)
(* computed from the whole run, and a reset forgets the run before it      *)
(* (jtr.c:243-299).                                                        *)
ImplementsSampleLog == Log!LogSpec

(* README.md:193, "Maximum - Out of 2 million samples, the most time       *)
(* measured": max_time is the longest difference measured in the run.  The *)
(* narrowing of diff_ns to int at jtr.c:532 breaks it.                     *)
MaximumIsMostTimeMeasured ==
  num_samples > 0 => max_time = longest
=============================================================================
