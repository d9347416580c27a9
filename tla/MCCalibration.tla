---------------------------- MODULE MCCalibration ---------------------------
(* Calibration for TLC: two calibrations, so that each can be the bad one; *)
(* timings of 3 calls for 1000; and one length of delay: 7 ns, more than a *)
(* reading, or 60 ns where a delayed timing has to cost more than the null *)
(* loop.  A "second" is of 210 ns, hence the calibrating sleep of 21 ns,   *)
(* three delays; or of 120 ns in the runs of the findings, where it need   *)
(* not be longer than the delays.  LLONG_MAX is beyond every product of    *)
(* the model except twice the initial jtr_gettime_cost and the ticks of a  *)
(* call of 300 ns.                                                         *)
EXTENDS Calibration

MCCallTimes == {0, 1, 5, 11, 300}
MCPauses == {-9, 0, 3, 9}
=============================================================================
