------------------------------ MODULE MCTestRun -----------------------------
(* TestRun for TLC: two loops, two samples after one warm-up call (or one  *)
(* sample and none, with a negative -w, or no call), buckets of 2 ns for   *)
(* 0..7, and differences that are negative, in the last bucket, an         *)
(* overflow, and negative once narrowed to 5 bits.                         *)
(* A cost of 3000 leaves a remainder; 400 gives a number of spins beyond   *)
(* INT_MAX; 0 divides by zero; -2000 is what the empty loop of an          *)
(* optimised build may be calibrated to.                                   *)
EXTENDS TestRun

MCDiffs == {-1, 7, 9, 16}
MCWarmupLoops == {-3, -1, 1}
MCLoopsCosts == {-2000, 0, 400, 3000}
=============================================================================
