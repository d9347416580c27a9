---------------------------- MODULE MCHistogram ----------------------------
(* Histogram for TLC: buckets of 2 ns, ints of 4 bits (INT_MAX = 7).       *)
(* Diffs has a negative value, both edges of a bucket, the first value     *)
(* beyond each histogram size, INT_MAX, and values that the narrowing      *)
(* makes negative (8) or small (17).                                       *)
EXTENDS Histogram

MCBucketCounts == {0, 2, 3}
MCDiffs == {-1, 0, 1, 3, 4, 6, 7, 8, 17}
=============================================================================
