---------------------------- MODULE MCPercentile ----------------------------
(* The five percentiles of jtr_histo_print_all() for every histogram of    *)
(* three buckets and up to 11 samples: 11 is past the sizes where 90% of   *)
(* the samples rounds up, rounds down (6..9) and is exact (10).            *)
EXTENDS Percentile

MCPercentiles == <<90000, 99000, 99900, 99990, 99999>>
=============================================================================
