----------------------------- MODULE SampleLog -----------------------------
(***************************************************************************)
(* What the histogram of jtr.c promises, without its running counters: a   *)
(* run is the sequence of samples recorded since the last reset, and every *)
(* published result is a function of that sequence.  Histogram implements  *)
(* this specification with one incremental update per sample.              *)
(***************************************************************************)
EXTENDS Integers, Sequences, FiniteSetsExt, Functions

CONSTANTS
  HISTO_GRANULARITY, INT_MAX, BucketCounts,
  NoResults   \* the results before the first reset

VARIABLES log, results

logVars == <<log, results>>

(* The sum of the samples of s, in a form that its proof can unfold         *)
Total(s) ==
  LET upTo[k \in 0..Len(s)] == IF k = 0 THEN 0 ELSE upTo[k - 1] + s[k]
  IN  upTo[Len(s)]

(* The results a run with samples s publishes for a histogram of n buckets *)
Results(s, n) ==
  [count     |-> Len(s),
   minimum   |-> Min(Range(s) \cup {INT_MAX}),
   maximum   |-> Max(Range(s) \cup {0}),
   average   |-> IF s = << >> THEN 0 ELSE Total(s) \div Len(s),
   counts    |-> [b \in 0..(n - 1) |->
                    Quantify(DOMAIN s,
                             LAMBDA k : s[k] \div HISTO_GRANULARITY = b)],
   overflows |-> Quantify(DOMAIN s, LAMBDA k : s[k] >= n * HISTO_GRANULARITY)]

Buckets == Cardinality(DOMAIN results.counts)

LogInit == log = << >> /\ results = NoResults

Reset(n) ==
  /\ results # NoResults => n = Buckets
  /\ log' = << >>
  /\ results' = Results(<< >>, n)

Record(t) ==
  /\ results # NoResults
  /\ log' = Append(log, t)
  /\ results' = Results(log', Buckets)

LogNext ==
  \/ \E n \in BucketCounts : Reset(n)
  \/ \E t \in 0..INT_MAX : Record(t)

LogSpec == LogInit /\ [][LogNext]_logVars
=============================================================================
