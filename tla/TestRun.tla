------------------------------ MODULE TestRun ------------------------------
(***************************************************************************)
(* The measuring loop of the programs: jtr_null runs opt_loops passes of   *)
(* its null loop; jtr_sock, jtr_src, jtr_ss and jtr_smx run opt_loops      *)
(* pairs of a pass that sends and a pass whose null loop is set to last as *)
(* long as the sends did on average.  Each pass is jtr_histo_init(),       *)
(* jtr_measure_calls() and jtr_histo_print_all(); the histogram itself is  *)
(* the module this one extends.  Adding to a buffer of report text that is *)
(* full abort()s.                                                          *)
(***************************************************************************)
EXTENDS Histogram

CONSTANTS
  Programs,            \* among "jtr_null" and "sender"
  LoopsCosts,          \* values of jtr_1000_loops_cost after calibration
  opt_histo_buckets,
  opt_loops,
  WarmupLoops          \* values of opt_warmup_loops, negative ones included

opt_num_samples == MaxSamples

ASSUME RunAssumption ==
  /\ Programs \subseteq {"jtr_null", "sender"}
  /\ LoopsCosts \subseteq Int
  /\ opt_histo_buckets \in BucketCounts
  /\ opt_loops \in Nat
  /\ WarmupLoops \subseteq Int

VARIABLES
  program, jtr_1000_loops_cost, opt_warmup_loops,    \* constant
  pc,                \* "pass", "measure", "report", "print", "done" or "aborted"
  call,              \* i of jtr_measure_calls(): below 0 in the warm-up
  jtr_no_send_spin,
  reports,           \* the datasets in jtr_results_buf and jtr_gnuplot_buf
  timed              \* history: every diff_ns of the current pass

setting == <<program, jtr_1000_loops_cost, opt_warmup_loops>>
runVars == <<setting, pc, call, jtr_no_send_spin, reports, timed>>
allVars == <<vars, runVars>>
-----------------------------------------------------------------------------
(* What the next pass, or the current one, measures                        *)
PassKind == IF program = "sender" /\ Len(reports) % 2 = 0 THEN "send" ELSE "null"
PassCount == IF program = "sender" THEN 2 * opt_loops ELSE opt_loops

(* C division truncates towards zero.                                      *)
Quotient(a, b) == IF b < 0 THEN -(a \div (-b)) ELSE a \div b

(* jtr_busy_loop_wait_count() casts its long long quotient to int.         *)
WaitCount(wait_ns) == Narrow(Quotient(wait_ns * 1000, jtr_1000_loops_cost))

RunInit ==
  /\ Init
  /\ program \in Programs
  /\ jtr_1000_loops_cost \in LoopsCosts
  /\ opt_warmup_loops \in WarmupLoops
  /\ pc = IF opt_loops = 0 THEN "print" ELSE "pass"
  /\ call = 0
  /\ jtr_no_send_spin = 0
  /\ reports = << >>
  /\ timed = << >>

(* The average of the pass just reported is gone after jtr_histo_init().   *)
NeedsWaitCount == program = "sender" /\ PassKind = "null"

SetSpin_AfterInit ==
  jtr_no_send_spin' = IF NeedsWaitCount THEN WaitCount(average')
                                        ELSE 0
SetSpin ==
  jtr_no_send_spin' = IF NeedsWaitCount THEN WaitCount(average)
                                        ELSE 0

BeginPass ==
  /\ pc = "pass"
  /\ NeedsWaitCount => jtr_1000_loops_cost # 0
  /\ HistoInit(opt_histo_buckets)
  /\ SetSpin
  /\ call' = -opt_warmup_loops
  /\ timed' = << >>
  /\ pc' = "measure"
  /\ UNCHANGED <<setting, reports>>

(* jtr_busy_loop_wait_count() divides by a cost of 0: SIGFPE.              *)
DivideByZero ==
  /\ pc = "pass"
  /\ NeedsWaitCount /\ jtr_1000_loops_cost = 0
  /\ pc' = "aborted"
  /\ UNCHANGED <<vars, setting, call, jtr_no_send_spin, reports, timed>>
-----------------------------------------------------------------------------
Accumulates_AfterFirst == call > 0
Accumulates == call >= 0

LoopTest_OneMore == call <= opt_num_samples
LoopTest_NotEqual == call # opt_num_samples
LoopTest == call < opt_num_samples

(* jtr_measure_one() and the pause after it *)
MeasureCall(d) ==
  /\ pc = "measure" /\ LoopTest
  /\ IF Accumulates THEN AccumDiff(d) ELSE UNCHANGED vars
  /\ call' = call + 1
  /\ timed' = Append(timed, d)
  /\ UNCHANGED <<setting, pc, jtr_no_send_spin, reports>>

MeasureCallNegative(d) ==
  /\ pc = "measure" /\ LoopTest /\ Accumulates
  /\ AccumDiffNegative(d)
  /\ pc' = "aborted"
  /\ UNCHANGED <<setting, call, jtr_no_send_spin, reports, timed>>

EndMeasure ==
  /\ pc = "measure" /\ ~LoopTest
  /\ pc' = "report"
  /\ UNCHANGED <<vars, setting, call, jtr_no_send_spin, reports, timed>>
-----------------------------------------------------------------------------
MorePasses_OneMore == Len(reports') <= PassCount
MorePasses == Len(reports') < PassCount

(* The title, the results and the plot of the pass, under one number.      *)
Report ==
  /\ pc = "report"
  /\ reports' = Append(reports, [pass    |-> PassKind,
                                 spin    |-> jtr_no_send_spin,
                                 results |-> PublishedResults])
  /\ pc' = IF MorePasses THEN "pass" ELSE "print"
  /\ UNCHANGED <<vars, setting, call, jtr_no_send_spin, timed>>

PrintReport ==
  /\ pc = "print"
  /\ pc' = "done"
  /\ UNCHANGED <<vars, setting, call, jtr_no_send_spin, reports, timed>>

FailAt(point) ==
  /\ pc = point
  /\ pc' = "aborted"
  /\ UNCHANGED <<vars, setting, call, jtr_no_send_spin, reports, timed>>

(* The send callback checks the result of its send.                        *)
SendAbort == PassKind = "send" /\ LoopTest /\ FailAt("measure")

(* SYSE(... != '\0'), "Don't fill" *)
ReportAbort == FailAt("report")

(* SYSE(gnuplot_fp == NULL) *)
PrintAbort == FailAt("print")

Step ==
  \/ BeginPass \/ DivideByZero
  \/ \E d \in Diffs : MeasureCall(d) \/ MeasureCallNegative(d)
  \/ EndMeasure \/ Report \/ PrintReport

RunNext == Step \/ SendAbort \/ ReportAbort \/ PrintAbort

RunSpec == RunInit /\ [][RunNext]_allVars
-----------------------------------------------------------------------------
(* What a pass measures: with opt_warmup_loops below 0, i starts above 0   *)
(* and the first calls of the opt_num_samples are never made.              *)
WarmupCalls == Clamp(opt_warmup_loops)
SampleCount == Clamp(opt_num_samples - Clamp(-opt_warmup_loops))

(* The loop counters keep their bounds, and each reported result has one   *)
(* number per bucket (jtr_src.c:215-258).                                  *)
RunTypeOK ==
  /\ program \in Programs /\ jtr_1000_loops_cost \in LoopsCosts
  /\ opt_warmup_loops \in WarmupLoops
  /\ pc \in {"pass", "measure", "report", "print", "done", "aborted"}
  /\ call \in Int /\ call <= opt_num_samples + Clamp(-opt_warmup_loops)
  /\ jtr_no_send_spin \in (-(INT_MAX + 1))..INT_MAX
  /\ Len(reports) <= PassCount
  /\ \A k \in 1..Len(reports) :
       DOMAIN reports[k].results.counts = 0..(opt_histo_buckets - 1)
  /\ Len(timed) <= WarmupCalls + SampleCount

(* "first with the UM call, and then with an equivalent null loop": the    *)
(* datasets alternate, and the null loop of a pair spins the greatest      *)
(* number of times that, at the calibrated cost, does not exceed the       *)
(* average of the sends of that same pair, unless that number is too great *)
(* for an int (jtr_src.c:215-245).                                         *)
NullLoopLastsAsLongAsSends ==
  program = "sender" =>
    \A k \in 1..Len(reports) :
      IF k % 2 = 1 THEN reports[k].pass = "send" /\ reports[k].spin = 0
      ELSE /\ reports[k].pass = "null"
           /\ LET sends == reports[k - 1].results.average * 1000
                  spins == reports[k].spin
              IN  /\ jtr_1000_loops_cost > 0
                  /\ sends < (INT_MAX + 1) * jtr_1000_loops_cost
                  => /\ spins * jtr_1000_loops_cost <= sends
                     /\ sends < (spins + 1) * jtr_1000_loops_cost

(* The results of a program that gets to its report of all passes are      *)
(* complete: two datasets per loop of a sender, one of jtr_null, each of   *)
(* opt_num_samples samples, less those that a negative -w takes away       *)
(* (jtr_src.c:215-270, jtr_null.c:151-178, jtr.c:545).                     *)
ReportIsComplete ==
  pc \in {"print", "done"} =>
    /\ Len(reports) = PassCount
    /\ \A k \in 1..Len(reports) : reports[k].results.count = SampleCount

(* A dataset is final once it is reported, and it is computed from exactly *)
(* the measured calls of its own pass, narrowed to int, in their order:    *)
(* from none of the warm-up, of another pass or of an earlier histogram    *)
(* (jtr_src.c:225-234, jtr.c:243-299, 538-556).                            *)
DatasetsAreOfTheirCalls ==
  [][/\ Len(reports') = Len(reports) + 1
     /\ \A k \in 1..Len(reports) : reports'[k] = reports[k]
     /\ reports'[Len(reports')].results =
          Log!Results([k \in 1..SampleCount |->
                         Narrow(Clamp(timed[WarmupCalls + k]))],
                      opt_histo_buckets)]_reports

(* The histogram of a pass that is reported is one that Percentile.tla     *)
(* starts from: its buckets and overflows add up to num_samples, so that   *)
(* the percentiles printed of it are what is shown there (jtr.c:282-287,   *)
(* 320-329).                                                               *)
Perc == INSTANCE Percentile
          WITH num_buckets <- opt_histo_buckets, Percentiles <- << >>,
               Scale <- 1, i <- 0, tot_at_i_or_below <- 0, min_count <- 0,
               scanning <- FALSE, printed <- << >>
HistogramIsPercentileInput == pc = "report" => Perc!Init

(* How many steps a run has left at most                                   *)
StepsLeft ==
  LET passSteps == WarmupCalls + SampleCount + 3
      after(n)  == (PassCount - Len(reports) - n) * passSteps + 1
  IN  CASE pc = "pass"    -> after(0)
        [] pc = "measure" -> after(1) + Clamp(opt_num_samples - call) + 2
        [] pc = "report"  -> after(1) + 1
        [] pc = "print"   -> 1
        [] OTHER          -> 0

(* No run goes on for ever, with a -w of either sign and whatever is       *)
(* measured: each step brings its end nearer, and there is a number of     *)
(* steps, known from the options, that it cannot exceed                    *)
(* (jtr_src.c:215-258, jtr.c:545).                                         *)
RunStepsAreBounded == [][StepsLeft' \in Nat /\ StepsLeft' < StepsLeft]_allVars
=============================================================================
