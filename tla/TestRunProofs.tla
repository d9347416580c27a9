--------------------------- MODULE TestRunProofs ---------------------------
(***************************************************************************)
(* Theorems about TestRun.tla: the measuring loop drives the histogram     *)
(* within the assumptions of Histogram.tla, so what is proved there holds  *)
(* in every run of every program; what the loop reports is complete and in *)
(* order, for any number of loops, samples and warm-up calls; and the run  *)
(* takes no more steps than its options allow.                             *)
(***************************************************************************)
EXTENDS TestRun, HistogramProofs, ArithmeticLemmas

(* Why the callers' contract of Histogram.tla is kept: a sample comes with *)
(* a call of the loop that is not a warm-up, and after jtr_histo_init().   *)
ContractInv ==
  /\ opt_warmup_loops \in Int /\ call \in Int
  /\ pc = "measure" =>
       allocated /\ num_samples \in Nat /\ num_samples <= Clamp(call)

LEMMA InitContract == RunInit => ContractInv
BY RunAssumption DEF RunInit, ContractInv

LEMMA BeginPassContract ==
  ASSUME ContractInv, BeginPass
  PROVE  ContractInv'
<1>1. /\ allocated' /\ num_samples' = 0
      /\ opt_warmup_loops' = opt_warmup_loops /\ call' = -opt_warmup_loops
  BY DEF BeginPass, HistoInit, ResetTotals, setting
<1>2. opt_warmup_loops' \in Int /\ call' \in Int /\ Clamp(call') \in Nat
  BY <1>1 DEF ContractInv, Clamp
<1>3. QED
  BY <1>1, <1>2 DEF ContractInv

LEMMA MeasureCallContract ==
  ASSUME ContractInv, NEW d \in Diffs, MeasureCall(d)
  PROVE  ContractInv'
<1>1. /\ pc = "measure" /\ call \in Int /\ allocated /\ num_samples \in Nat
      /\ num_samples <= Clamp(call) /\ call' = call + 1
      /\ opt_warmup_loops' = opt_warmup_loops
      /\ IF call >= 0 THEN AccumDiff(d) ELSE UNCHANGED vars
  BY DEF ContractInv, MeasureCall, Accumulates, setting
<1>2. CASE call >= 0
  <2>1. num_samples' = num_samples + 1 /\ allocated'
    BY <1>1, <1>2, Zenon DEF AccumDiff, HistoAccum, UpdateTotals
  <2>2. num_samples' <= Clamp(call')
    BY <1>1, <1>2, <2>1 DEF Clamp
  <2>3. QED
    BY <1>1, <2>1, <2>2 DEF ContractInv
<1>3. CASE call < 0
  <2>0. UNCHANGED vars
    BY <1>1, <1>3
  <2>1. num_samples' = num_samples /\ allocated'
    BY <1>1, <2>0, Zenon DEF vars, histoVars, totals
  <2>2. num_samples' <= Clamp(call')
    BY <1>1, <1>3, <2>1 DEF Clamp
  <2>3. QED
    BY <1>1, <2>1, <2>2 DEF ContractInv
<1>4. QED
  BY <1>1, <1>2, <1>3

LEMMA NextContract ==
  ASSUME ContractInv, [RunNext]_allVars
  PROVE  ContractInv'
<1>1. ASSUME NEW d \in Diffs, MeasureCallNegative(d)
      PROVE  ContractInv'
  BY <1>1 DEF ContractInv, MeasureCallNegative, setting
<1>2. CASE DivideByZero \/ EndMeasure \/ Report \/ PrintReport
  BY <1>2 DEF ContractInv, DivideByZero, EndMeasure, Report, PrintReport, setting
<1>3. CASE SendAbort \/ ReportAbort \/ PrintAbort
  BY <1>3 DEF ContractInv, SendAbort, ReportAbort, PrintAbort, FailAt, setting
<1>4. CASE UNCHANGED allVars
  BY <1>4 DEF ContractInv, allVars, runVars, setting, vars, histoVars, totals
<1>5. QED
  BY <1>1, <1>2, <1>3, <1>4, BeginPassContract, MeasureCallContract
     DEF RunNext, Step

(* The loop takes a sample only when fewer than opt_num_samples of its     *)
(* calls were accumulated (jtr.c:545-556).                                 *)
LEMMA CallIsAllowed ==
  ASSUME ContractInv, pc = "measure", LoopTest, Accumulates
  PROVE  MeasureAllowed
BY HistoAssumption
   DEF ContractInv, LoopTest, Accumulates, Clamp, MeasureAllowed, opt_num_samples

LEMMA RunStepIsHistogramStep ==
  ASSUME ContractInv, [RunNext]_allVars
  PROVE  [Next]_vars
<1>1. CASE BeginPass
  BY <1>1, RunAssumption DEF BeginPass, Next
<1>2. ASSUME NEW d \in Diffs, MeasureCall(d)
      PROVE  [Next]_vars
  BY <1>2, CallIsAllowed DEF MeasureCall, Next
<1>3. ASSUME NEW d \in Diffs, MeasureCallNegative(d)
      PROVE  [Next]_vars
  BY <1>3, CallIsAllowed DEF MeasureCallNegative, Next
<1>4. CASE DivideByZero \/ EndMeasure \/ Report \/ PrintReport
  BY <1>4 DEF DivideByZero, EndMeasure, Report, PrintReport
<1>5. CASE SendAbort \/ ReportAbort \/ PrintAbort
  BY <1>5 DEF SendAbort, ReportAbort, PrintAbort, FailAt
<1>6. CASE UNCHANGED allVars
  BY <1>6 DEF allVars
<1>7. QED
  BY <1>1, <1>2, <1>3, <1>4, <1>5, <1>6 DEF RunNext, Step

(* A run keeps the contract that Histogram.tla asks of its callers: its    *)
(* first jtr_histo_init() comes before every sample, each init has the     *)
(* same size, and between two of them the loop takes at most               *)
(* opt_num_samples samples, though nothing in jtr_histo_accum() checks     *)
(* that (jtr_src.c:215-258, jtr.c:545-556).                                *)
THEOREM RunImplementsHistogram == RunSpec => Spec
<1>1. RunInit => Init
  BY DEF RunInit
<1>2. RunSpec => []ContractInv
  BY InitContract, NextContract, PTL DEF RunSpec
<1>3. QED
  BY <1>1, <1>2, RunStepIsHistogramStep, PTL DEF RunSpec, Spec

(* In every run each dataset counts every sample of its pass once, and its *)
(* minimum, maximum and average are those of its own samples.              *)
THEOREM RunResultsCorrect ==
  RunSpec => [](BucketsExact /\ ExtremesExact /\ AverageBetweenExtremes)
BY RunImplementsHistogram, BucketsCorrect, ExtremesCorrect, AverageCorrect, PTL
-----------------------------------------------------------------------------
Ints == (-(INT_MAX + 1))..INT_MAX

Datasets ==
  [pass : {"send", "null"}, spin : Ints,
   results : [count : Nat, minimum : 0..INT_MAX, maximum : 0..INT_MAX,
              average : 0..INT_MAX, counts : [0..(opt_histo_buckets - 1) -> Nat],
              overflows : Nat]]

SettingInv ==
  /\ program \in Programs /\ jtr_1000_loops_cost \in LoopsCosts
  /\ opt_warmup_loops \in WarmupLoops
  /\ pc \in {"pass", "measure", "report", "print", "done", "aborted"}

BucketsInv ==
  /\ allocated => num_buckets = opt_histo_buckets
  /\ pc \in {"measure", "report"} => allocated

(* The calls so far that were accumulated: all after the warm-up.          *)
Taken == Clamp(Len(timed) - WarmupCalls)

CallInv ==
  /\ call \in Int /\ call <= opt_num_samples + Clamp(-opt_warmup_loops)
  /\ timed \in Seq(Diffs)
  /\ Len(timed) <= WarmupCalls + SampleCount
  /\ pc \in {"measure", "report"} =>
       /\ call = Len(timed) - opt_warmup_loops
       /\ call <= opt_num_samples \/ Len(timed) = 0
       /\ Len(samples) = Taken
       /\ \A k \in 1..Taken : samples[k] = Narrow(Clamp(timed[WarmupCalls + k]))
  /\ pc = "report" => call >= opt_num_samples

PassInv ==
  /\ reports \in Seq(Datasets)
  /\ Len(reports) <= PassCount
  /\ pc \in {"pass", "measure", "report"} => Len(reports) < PassCount
  /\ pc \in {"print", "done"} => Len(reports) = PassCount
  /\ \A k \in 1..Len(reports) : reports[k].results.count = SampleCount

(* What is known of the spins before and after they are reported.          *)
SpinsInv ==
  /\ jtr_no_send_spin \in Ints
  /\ program = "sender" =>
       /\ pc = "pass" /\ Len(reports) > 0 =>
            average = reports[Len(reports)].results.average
       /\ pc \in {"measure", "report"} =>
            jtr_no_send_spin =
              IF Len(reports) % 2 = 0 THEN 0
              ELSE WaitCount(reports[Len(reports)].results.average)
       /\ \A k \in 1..Len(reports) :
            IF k % 2 = 1 THEN reports[k].pass = "send" /\ reports[k].spin = 0
            ELSE /\ reports[k].pass = "null"
                 /\ reports[k].spin = WaitCount(reports[k - 1].results.average)

RunInv ==
  SettingInv /\ BucketsInv /\ CallInv /\ PassInv /\ SpinsInv
-----------------------------------------------------------------------------
LEMMA Counts ==
  ASSUME SettingInv
  PROVE  /\ opt_num_samples \in Nat /\ opt_warmup_loops \in Int
         /\ WarmupCalls \in Nat /\ SampleCount \in Nat
         /\ jtr_1000_loops_cost \in Int /\ PassCount \in Nat
BY HistoAssumption, RunAssumption
   DEF SettingInv, opt_num_samples, WarmupCalls, SampleCount, Clamp, PassCount

LEMMA WaitCountIsInt ==
  ASSUME NEW t \in Int, jtr_1000_loops_cost \in Int, jtr_1000_loops_cost # 0
  PROVE  WaitCount(t) \in Ints
<1> DEFINE q == Quotient(t * 1000, jtr_1000_loops_cost)
<1>1. q \in Int
  <2>1. CASE jtr_1000_loops_cost < 0
    <3>1. (t * 1000) \div (-jtr_1000_loops_cost) \in Int
      BY <2>1, QuotientBounds
    <3>2. QED
      BY <2>1, <3>1 DEF Quotient
  <2>2. CASE jtr_1000_loops_cost > 0
    BY <2>2, QuotientBounds DEF Quotient
  <2>3. QED
    BY <2>1, <2>2
<1> HIDE DEF q
<1>2. Narrow(q) \in (-INT_MAX - 1)..INT_MAX
  BY <1>1, NarrowRange
<1>3. QED
  BY <1>2, HistoAssumption DEF WaitCount, q, Ints

(* A quotient that fits an int is kept by the cast, and is the number of   *)
(* spins that last no longer than asked (jtr.c:472).                       *)
LEMMA WaitCountNotLong ==
  ASSUME NEW t \in Nat, jtr_1000_loops_cost \in Int, jtr_1000_loops_cost > 0,
         t * 1000 < (INT_MAX + 1) * jtr_1000_loops_cost
  PROVE  /\ WaitCount(t) * jtr_1000_loops_cost <= t * 1000
         /\ t * 1000 < (WaitCount(t) + 1) * jtr_1000_loops_cost
<1> DEFINE a == t * 1000
           c == jtr_1000_loops_cost
           q == a \div c
<1>1. a \in Nat /\ c \in Nat \ {0} /\ INT_MAX \in Nat
      /\ a < (INT_MAX + 1) * c
  BY HistoAssumption
<1>2. WaitCount(t) = Narrow(q)
  BY DEF WaitCount, Quotient
<1> HIDE DEF a, c
<1>3. q \in Nat /\ c * q <= a /\ a < c * q + c
  BY <1>1, QuotientBounds, QuotientNat
<1> HIDE DEF q
<1>4. q <= INT_MAX
  <2>1. c * q < c * (INT_MAX + 1)
    <3>1. c * (INT_MAX + 1) = (INT_MAX + 1) * c /\ c * q \in Nat
          /\ (INT_MAX + 1) * c \in Nat
      BY <1>1, <1>3
    <3>2. QED
      BY <1>1, <1>3, <3>1
  <2>2. q < INT_MAX + 1
    BY <1>1, <1>3, <2>1
  <2>3. QED
    BY <1>1, <1>3, <2>2
<1>5. Narrow(q) = q
  <2> DEFINE m == 2 * (INT_MAX + 1)
  <2>1. m \in Nat \ {0} /\ q + INT_MAX + 1 \in 0..(m - 1)
    BY <1>1, <1>3, <1>4
  <2>2. (q + INT_MAX + 1) % m = q + INT_MAX + 1
    BY <2>1, ModSmall
  <2>3. QED
    BY <1>1, <1>3, <2>2 DEF Narrow
<1>6. q * c <= a /\ a < (q + 1) * c
  <2>1. q * c = c * q /\ (q + 1) * c = c * q + c
    BY <1>1, <1>3
  <2>2. QED
    BY <1>3, <2>1
<1>7. QED
  BY <1>2, <1>5, <1>6 DEF a, c

LEMMA ReportedDataset ==
  ASSUME HistoTypeOK, RunInv, pc = "report"
  PROVE  [pass |-> PassKind, spin |-> jtr_no_send_spin,
          results |-> PublishedResults] \in Datasets
<1>1. num_buckets = opt_histo_buckets /\ num_samples \in Nat
      /\ jtr_no_send_spin \in Ints /\ PassKind \in {"send", "null"}
  BY HistoAssumption
     DEF RunInv, BucketsInv, SpinsInv, HistoTypeOK, PassKind
<1>2. buckets \in [0..(opt_histo_buckets - 1) -> Nat]
  <2>1. 0..num_samples \subseteq Nat
    BY <1>1
  <2>2. buckets \in [0..(num_buckets - 1) -> 0..num_samples]
    BY DEF HistoTypeOK
  <2>3. QED
    BY <1>1, <2>1, <2>2
<1>3. PublishedResults \in
        [count : Nat, minimum : 0..INT_MAX, maximum : 0..INT_MAX,
         average : 0..INT_MAX, counts : [0..(opt_histo_buckets - 1) -> Nat],
         overflows : Nat]
  BY <1>1, <1>2 DEF HistoTypeOK, PublishedResults
<1>4. QED
  BY <1>1, <1>3 DEF Datasets
-----------------------------------------------------------------------------
LEMMA InitRunInv == RunInit => RunInv
<1> SUFFICES ASSUME RunInit PROVE RunInv
  OBVIOUS
<1>1. SettingInv
  BY DEF RunInit, SettingInv
<1>2. reports = << >> /\ timed = << >> /\ call = 0 /\ ~allocated
      /\ pc = (IF opt_loops = 0 THEN "print" ELSE "pass")
  BY DEF RunInit, Init
<1>3. BucketsInv
  BY <1>2 DEF BucketsInv
<1>4. CallInv
  BY <1>1, <1>2, Counts DEF CallInv, Clamp
<1>5. PassInv
  BY <1>1, <1>2, Counts, RunAssumption DEF PassInv, PassCount
<1>6. SpinsInv
  BY <1>2, HistoAssumption DEF SpinsInv, RunInit, Ints
<1>7. QED
  BY <1>1, <1>3, <1>4, <1>5, <1>6 DEF RunInv

(* A step that ends in abort() leaves everything but the status.           *)
LEMMA AbortRunInv ==
  ASSUME RunInv, pc' = "aborted", UNCHANGED histoVars,
         UNCHANGED <<setting, call, jtr_no_send_spin, reports, timed>>
  PROVE  RunInv'
<1>1. SettingInv' /\ BucketsInv' /\ CallInv'
  BY DEF RunInv, SettingInv, BucketsInv, CallInv, WarmupCalls, SampleCount,
         setting, histoVars
<1>2. PassInv' /\ SpinsInv'
  BY DEF RunInv, PassInv, SpinsInv, PassCount, WaitCount, SampleCount, setting
<1>3. QED
  BY <1>1, <1>2 DEF RunInv

LEMMA BeginPassInv ==
  ASSUME RunInv, HistoTypeOK, BeginPass
  PROVE  RunInv'
<1>1. /\ pc = "pass" /\ pc' = "measure"
      /\ NeedsWaitCount => jtr_1000_loops_cost # 0
      /\ HistoInit(opt_histo_buckets) /\ SetSpin
      /\ call' = -opt_warmup_loops /\ timed' = << >>
      /\ UNCHANGED <<setting, reports>>
  BY DEF BeginPass
<1>2. SettingInv'
  BY <1>1 DEF RunInv, SettingInv, setting
<1>3. BucketsInv'
  BY <1>1 DEF BucketsInv, HistoInit
<1>4. CallInv'
  <2>1. samples' = << >> /\ Len(samples') = 0 /\ Len(timed') = 0
    BY <1>1 DEF HistoInit
  <2>2. opt_warmup_loops' = opt_warmup_loops /\ WarmupCalls' = WarmupCalls
        /\ SampleCount' = SampleCount
    BY <1>1 DEF setting, WarmupCalls, SampleCount
  <2>3. /\ opt_num_samples \in Nat /\ opt_warmup_loops \in Int
        /\ WarmupCalls \in Nat /\ SampleCount \in Nat
    BY Counts DEF RunInv
  <2>4. Taken' = 0
    BY <2>1, <2>2, <2>3 DEF Taken, Clamp
  <2>5. timed' \in Seq(Diffs)
    BY <1>1
  <2>6. call' \in Int /\ call' <= opt_num_samples + Clamp(-opt_warmup_loops)
        /\ call' = Len(timed') - opt_warmup_loops
    BY <1>1, <2>1, <2>3 DEF Clamp
  <2>7. QED
    BY <1>1, <2>1, <2>2, <2>3, <2>4, <2>5, <2>6 DEF CallInv
<1>5. PassInv'
  BY <1>1 DEF RunInv, PassInv, PassCount, SampleCount, setting
<1>6. SpinsInv'
  <2> DEFINE last == reports[Len(reports)].results.average
  <2>1. reports \in Seq(Datasets) /\ Len(reports) \in Nat
    BY DEF RunInv, PassInv
  <2>2. /\ reports' = reports /\ program' = program
        /\ jtr_1000_loops_cost' = jtr_1000_loops_cost
    BY <1>1 DEF setting
  <2>3. CASE NeedsWaitCount
    <3>1. program = "sender" /\ Len(reports) % 2 # 0
      BY <2>3 DEF NeedsWaitCount, PassKind
    <3>2. Len(reports) > 0
      BY <2>1, <3>1
    <3>3. average = last /\ average \in 0..INT_MAX
      BY <1>1, <3>1, <3>2 DEF RunInv, SpinsInv, HistoTypeOK
    <3>4. jtr_no_send_spin' = WaitCount(last)
      BY <1>1, <2>3, <3>3 DEF SetSpin
    <3>5. WaitCount(average) \in Ints
      BY <1>1, <2>3, <3>3, Counts, WaitCountIsInt, HistoAssumption DEF RunInv
    <3>6. QED
      BY <1>1, <2>1, <2>2, <3>1, <3>3, <3>4, <3>5
         DEF RunInv, SpinsInv, WaitCount
  <2>4. CASE ~NeedsWaitCount
    <3>1. jtr_no_send_spin' = 0 /\ 0 \in Ints
      BY <1>1, <2>4, HistoAssumption DEF SetSpin, Ints
    <3>2. program = "sender" => Len(reports) % 2 = 0
      BY <2>4 DEF NeedsWaitCount, PassKind
    <3>3. QED
      BY <1>1, <2>1, <2>2, <3>1, <3>2 DEF RunInv, SpinsInv, WaitCount
  <2>5. QED
    BY <2>3, <2>4
<1>7. QED
  BY <1>2, <1>3, <1>4, <1>5, <1>6 DEF RunInv

(* Steps that do not report.                                               *)
LEMMA ReportsKept ==
  ASSUME RunInv, pc = "measure", pc' \in {"measure", "report"},
         UNCHANGED <<setting, jtr_no_send_spin, reports>>
  PROVE  SettingInv' /\ PassInv' /\ SpinsInv'
<1>1. SettingInv' /\ PassInv'
  BY DEF RunInv, SettingInv, PassInv, PassCount, SampleCount, setting
<1>2. SpinsInv'
  BY DEF RunInv, SpinsInv, WaitCount, setting
<1>3. QED
  BY <1>1, <1>2

LEMMA MeasureCallInv ==
  ASSUME RunInv, HistoTypeOK, NEW d \in Diffs, MeasureCall(d)
  PROVE  RunInv'
<1>1. /\ pc = "measure" /\ pc' = pc /\ call < opt_num_samples
      /\ call' = call + 1 /\ timed' = Append(timed, d)
      /\ UNCHANGED <<setting, jtr_no_send_spin, reports>>
      /\ IF call >= 0 THEN AccumDiff(d) ELSE UNCHANGED vars
  BY DEF MeasureCall, LoopTest, Accumulates
<1>2. SettingInv' /\ PassInv' /\ SpinsInv'
  BY <1>1, ReportsKept
<1>3. BucketsInv'
  BY <1>1
     DEF RunInv, BucketsInv, AccumDiff, HistoAccum, vars, histoVars
<1>4. CallInv'
  <2> DEFINE w == opt_warmup_loops
             W == WarmupCalls
             S == SampleCount
             n == opt_num_samples
             len == Len(timed)
  <2>1. n \in Nat /\ w \in Int /\ W \in Nat /\ S \in Nat
        /\ W = Clamp(w) /\ S = Clamp(n - Clamp(-w))
    BY Counts DEF RunInv, WarmupCalls, SampleCount
  <2>2. w' = w /\ W' = W /\ S' = S
    BY <1>1 DEF setting, WarmupCalls, SampleCount
  <2>3. timed \in Seq(Diffs) /\ len \in Nat /\ call \in Int
        /\ call = len - w /\ Len(samples) = Taken
        /\ \A k \in 1..Taken : samples[k] = Narrow(Clamp(timed[W + k]))
    BY <1>1 DEF RunInv, CallInv
  <2>4. timed' \in Seq(Diffs) /\ Len(timed') = len + 1 /\ timed'[len + 1] = d
        /\ \A k \in 1..len : timed'[k] = timed[k]
    BY <1>1, <2>3
  <2> HIDE DEF w, W, S, n, len
  <2>5. len + 1 <= W + S
    BY <1>1, <2>1, <2>3 DEF Clamp, w, n
  <2>6. Taken = Clamp(len - W) /\ Taken' = Clamp(len + 1 - W)
    <3>1. Taken = Clamp(len - W) /\ Taken' = Clamp(Len(timed') - W')
      BY DEF Taken, len, W
    <3>2. Len(timed') - W' = len + 1 - W
      BY <2>1, <2>2, <2>3, <2>4
    <3>3. Clamp(Len(timed') - W') = Clamp(len + 1 - W)
      BY <3>2
    <3>4. QED
      BY <3>1, <3>3
  <2>7. samples \in Seq(0..INT_MAX)
    BY DEF HistoTypeOK
  <2>8. /\ Len(samples') = Taken'
        /\ \A k \in 1..Taken' : samples'[k] = Narrow(Clamp(timed'[W + k]))
    <3>1. CASE call >= 0
      <4>1. samples' = Append(samples, Narrow(Clamp(d)))
        BY <1>1, <3>1 DEF AccumDiff, HistoAccum
      <4>2. len >= W
        BY <2>1, <2>3, <3>1 DEF Clamp
      <4>3. Taken = len - W /\ Taken' = Taken + 1 /\ Taken \in Nat
        BY <2>1, <2>3, <2>6, <4>2 DEF Clamp
      <4>4. Narrow(Clamp(d)) \in 0..INT_MAX
        BY <1>1, <3>1, SampleInRange
      <4>5. Len(samples') = Taken + 1
            /\ samples'[Taken + 1] = Narrow(Clamp(d))
            /\ \A k \in 1..Taken : samples'[k] = samples[k]
        BY <2>3, <2>7, <4>1, <4>3, <4>4
      <4>6. W + (Taken + 1) = len + 1
        BY <2>1, <2>3, <4>3
      <4>7. ASSUME NEW k \in 1..(Taken + 1)
            PROVE  samples'[k] = Narrow(Clamp(timed'[W + k]))
        <5>1. CASE k = Taken + 1
          BY <2>4, <4>5, <4>6, <5>1
        <5>2. CASE k # Taken + 1
          <6>0. len = W + Taken /\ Taken \in Nat
            BY <2>1, <2>3, <4>3
          <6>1. k \in 1..Taken /\ W + k \in 1..len
            BY <2>1, <4>7, <5>2, <6>0
          <6>2. QED
            BY <2>3, <2>4, <4>5, <6>1
        <5>3. QED
          BY <5>1, <5>2
      <4>8. QED
        BY <4>3, <4>5, <4>7
    <3>2. CASE call < 0
      <4>1. samples' = samples
        BY <1>1, <2>3, <3>2 DEF vars, histoVars
      <4>2. len < W
        BY <2>1, <2>3, <3>2 DEF Clamp
      <4>3. Taken = 0 /\ Taken' = 0
        BY <2>1, <2>3, <2>6, <4>2 DEF Clamp
      <4>4. QED
        BY <2>3, <4>1, <4>3
    <3>3. QED
      BY <2>3, <3>1, <3>2
  <2>9. call' \in Int /\ call' <= n /\ call' = Len(timed') - w
        /\ Clamp(-w) \in Nat
    BY <1>1, <2>1, <2>3, <2>4 DEF Clamp, n
  <2>10. call' <= n + Clamp(-w)
    BY <2>1, <2>9
  <2>11. QED
    BY <1>1, <2>2, <2>4, <2>5, <2>8, <2>9, <2>10 DEF CallInv, w, W, S, n
<1>5. QED
  BY <1>2, <1>3, <1>4 DEF RunInv

LEMMA EndMeasureInv ==
  ASSUME RunInv, EndMeasure
  PROVE  RunInv'
<1>1. /\ pc = "measure" /\ pc' = "report" /\ ~(call < opt_num_samples)
      /\ UNCHANGED <<vars, setting, call, jtr_no_send_spin, reports,
                     timed>>
  BY DEF EndMeasure, LoopTest
<1>2. SettingInv' /\ PassInv' /\ SpinsInv'
  BY <1>1, ReportsKept
<1>3. BucketsInv'
  BY <1>1 DEF RunInv, BucketsInv, vars, histoVars
<1>4. call >= opt_num_samples
  BY <1>1, Counts DEF RunInv, CallInv
<1>5. CallInv'
  BY <1>1, <1>4
     DEF RunInv, CallInv, Taken, WarmupCalls, SampleCount, setting, vars, histoVars
<1>6. QED
  BY <1>2, <1>3, <1>5 DEF RunInv

(* What the dataset of a finished pass adds to the reports.                *)
LEMMA ReportAppends ==
  ASSUME RunInv, HistoTypeOK, Report
  PROVE  /\ reports' \in Seq(Datasets) /\ Len(reports') = Len(reports) + 1
         /\ \A k \in 1..Len(reports) : reports'[k] = reports[k]
         /\ reports'[Len(reports')].pass = PassKind
         /\ reports'[Len(reports')].spin = jtr_no_send_spin
         /\ reports'[Len(reports')].results = PublishedResults
<1> DEFINE r == [pass |-> PassKind, spin |-> jtr_no_send_spin,
                 results |-> PublishedResults]
<1>1. reports \in Seq(Datasets) /\ reports' = Append(reports, r)
  BY DEF RunInv, PassInv, Report
<1>2. r \in Datasets
  BY ReportedDataset DEF Report
<1>3. r.pass = PassKind /\ r.spin = jtr_no_send_spin
      /\ r.results = PublishedResults
  OBVIOUS
<1> HIDE DEF r
<1>4. reports' \in Seq(Datasets) /\ Len(reports') = Len(reports) + 1
      /\ reports'[Len(reports) + 1] = r
      /\ \A k \in 1..Len(reports) : reports'[k] = reports[k]
  BY <1>1, <1>2
<1>5. QED
  BY <1>3, <1>4

(* At the end of the loop every call after the warm-up has been taken.     *)
LEMMA AllTaken ==
  ASSUME RunInv, HistoTypeOK, pc = "report"
  PROVE  Taken = SampleCount /\ num_samples = SampleCount
<1>1. /\ opt_num_samples \in Nat /\ opt_warmup_loops \in Int
      /\ WarmupCalls \in Nat /\ SampleCount \in Nat
      /\ WarmupCalls = Clamp(opt_warmup_loops)
      /\ SampleCount = Clamp(opt_num_samples - Clamp(-opt_warmup_loops))
  BY Counts DEF RunInv, WarmupCalls, SampleCount
<1>2. /\ timed \in Seq(Diffs) /\ call = Len(timed) - opt_warmup_loops
      /\ call <= opt_num_samples \/ Len(timed) = 0
      /\ call >= opt_num_samples /\ Len(samples) = Taken
  BY DEF RunInv, CallInv
<1>3. Len(timed) \in Nat
  BY <1>2
<1>4. Taken = SampleCount
  BY <1>1, <1>2, <1>3 DEF Taken, Clamp
<1>5. QED
  BY <1>2, <1>4 DEF HistoTypeOK

LEMMA ReportSpins ==
  ASSUME RunInv, HistoTypeOK, Report
  PROVE  SpinsInv'
<1> DEFINE n == Len(reports)
<1>1. reports \in Seq(Datasets) /\ n \in Nat
  BY DEF RunInv, PassInv
<1>2. /\ reports' \in Seq(Datasets) /\ Len(reports') = n + 1
      /\ \A k \in 1..n : reports'[k] = reports[k]
      /\ reports'[n + 1].pass = PassKind
      /\ reports'[n + 1].spin = jtr_no_send_spin
      /\ reports'[n + 1].results = PublishedResults
  BY ReportAppends
<1>3. pc = "report" /\ pc' \in {"pass", "print"}
      /\ UNCHANGED <<vars, setting, jtr_no_send_spin>>
  BY DEF Report
<1>4. average' = average /\ program' = program
      /\ jtr_1000_loops_cost' = jtr_1000_loops_cost
  BY <1>3 DEF vars, histoVars, totals, setting
<1>5. reports'[n + 1].results.average = average
  BY <1>2 DEF PublishedResults
<1>6. ASSUME program = "sender"
      PROVE  \A k \in 1..(n + 1) :
               IF k % 2 = 1 THEN reports'[k].pass = "send" /\ reports'[k].spin = 0
               ELSE /\ reports'[k].pass = "null"
                    /\ reports'[k].spin
                         = WaitCount(reports'[k - 1].results.average)
  <2>1. jtr_no_send_spin = IF n % 2 = 0 THEN 0
                           ELSE WaitCount(reports[n].results.average)
    BY <1>3, <1>6 DEF RunInv, SpinsInv
  <2>2. PassKind = IF n % 2 = 0 THEN "send" ELSE "null"
    BY <1>6 DEF PassKind
  <2>3. ASSUME NEW k \in 1..n
        PROVE  IF k % 2 = 1 THEN reports[k].pass = "send" /\ reports[k].spin = 0
               ELSE /\ reports[k].pass = "null"
                    /\ reports[k].spin = WaitCount(reports[k - 1].results.average)
    BY <1>6, <2>3 DEF RunInv, SpinsInv
  <2> HIDE DEF n
  <2>4. TAKE k \in 1..(n + 1)
  <2>5. CASE k = n + 1
    <3>1. CASE n % 2 = 0
      <4>1. k % 2 = 1
        BY <1>1, <2>5, <3>1
      <4>2. QED
        BY <1>2, <2>1, <2>2, <2>5, <3>1, <4>1
    <3>2. CASE n % 2 # 0
      <4>1. k % 2 # 1 /\ n \in 1..n /\ k - 1 = n
        BY <1>1, <2>5, <3>2
      <4>2. reports'[k - 1] = reports[n]
        BY <1>2, <4>1
      <4>3. QED
        BY <1>2, <2>1, <2>2, <2>5, <3>2, <4>1, <4>2
    <3>3. QED
      BY <3>1, <3>2
  <2>6. CASE k # n + 1
    <3>1. k \in 1..n
      BY <1>1, <2>4, <2>6
    <3>2. reports'[k] = reports[k]
      BY <1>2, <3>1
    <3>3. CASE k % 2 = 1
      BY <2>3, <3>1, <3>2, <3>3
    <3>4. CASE k % 2 # 1
      <4>1. k - 1 \in 1..n
        BY <1>1, <3>1, <3>4
      <4>2. reports'[k - 1] = reports[k - 1]
        BY <1>2, <4>1
      <4>3. QED
        BY <2>3, <3>1, <3>2, <3>4, <4>2
    <3>5. QED
      BY <3>3, <3>4
  <2>7. QED
    BY <2>5, <2>6
<1>7. jtr_no_send_spin' \in Ints
  BY <1>3 DEF RunInv, SpinsInv
<1>8. ASSUME NEW x
      PROVE  WaitCount(x)' = WaitCount(x)
  BY <1>4 DEF WaitCount
<1>9. pc' \notin {"measure", "report"}
  BY <1>3
<1>10. average' = reports'[Len(reports')].results.average
  BY <1>2, <1>4, <1>5
<1>11. ASSUME program' = "sender"
       PROVE  \A k \in 1..Len(reports') :
               IF k % 2 = 1 THEN reports'[k].pass = "send" /\ reports'[k].spin = 0
               ELSE /\ reports'[k].pass = "null"
                    /\ reports'[k].spin
                         = WaitCount(reports[k - 1].results.average)'
  BY <1>2, <1>4, <1>6, <1>11 DEF WaitCount
<1>12. QED
  BY <1>7, <1>9, <1>10, <1>11 DEF SpinsInv

LEMMA ReportInv ==
  ASSUME RunInv, HistoTypeOK, Report
  PROVE  RunInv'
<1>1. /\ pc = "report" /\ pc' = (IF Len(reports') < PassCount THEN "pass" ELSE "print")
      /\ UNCHANGED <<vars, setting, call, timed>>
  BY DEF Report, MorePasses
<1>2. SettingInv' /\ BucketsInv' /\ CallInv'
  BY <1>1 DEF RunInv, SettingInv, BucketsInv, CallInv, WarmupCalls,
              SampleCount, setting, vars, histoVars
<1>3. PassInv'
  <2>1. /\ reports \in Seq(Datasets) /\ Len(reports) < PassCount
        /\ \A k \in 1..Len(reports) : reports[k].results.count = SampleCount
    BY <1>1 DEF RunInv, PassInv
  <2>2. Len(reports) \in Nat /\ PassCount \in Nat
    BY <2>1, Counts DEF RunInv
  <2>3. /\ reports' \in Seq(Datasets) /\ Len(reports') = Len(reports) + 1
        /\ \A k \in 1..Len(reports) : reports'[k] = reports[k]
        /\ reports'[Len(reports')].results = PublishedResults
    BY ReportAppends
  <2>4. PublishedResults.count = SampleCount
    BY <1>1, AllTaken DEF PublishedResults
  <2>5. PassCount' = PassCount /\ SampleCount' = SampleCount
    BY <1>1 DEF PassCount, SampleCount, setting
  <2>6. ASSUME NEW k \in 1..Len(reports')
        PROVE  reports'[k].results.count = SampleCount
    BY <2>1, <2>2, <2>3, <2>4
  <2>7. QED
    BY <1>1, <2>2, <2>3, <2>1, <2>5, <2>6 DEF PassInv
<1>4. QED
  BY <1>2, <1>3, ReportSpins DEF RunInv

LEMMA PrintReportInv ==
  ASSUME RunInv, PrintReport
  PROVE  RunInv'
<1>1. /\ pc = "print" /\ pc' = "done"
      /\ UNCHANGED <<vars, setting, call, jtr_no_send_spin, reports,
                     timed>>
  BY DEF PrintReport
<1>2. SettingInv' /\ BucketsInv' /\ CallInv' /\ PassInv'
  BY <1>1 DEF RunInv, SettingInv, BucketsInv, CallInv, PassInv, WarmupCalls,
              SampleCount, PassCount, setting, vars, histoVars
<1>3. SpinsInv'
  BY <1>1 DEF RunInv, SpinsInv, WaitCount, setting
<1>4. QED
  BY <1>2, <1>3 DEF RunInv
-----------------------------------------------------------------------------
LEMMA NextRunInv ==
  ASSUME RunInv, HistoTypeOK, [RunNext]_allVars
  PROVE  RunInv'
<1>1. CASE BeginPass
  BY <1>1, BeginPassInv
<1>2. ASSUME NEW d \in Diffs, MeasureCall(d)
      PROVE  RunInv'
  BY <1>2, MeasureCallInv
<1>3. ASSUME NEW d \in Diffs, MeasureCallNegative(d)
      PROVE  RunInv'
  <2>1. pc' = "aborted" /\ UNCHANGED histoVars
        /\ UNCHANGED <<setting, call, jtr_no_send_spin, reports, timed>>
    BY <1>3 DEF MeasureCallNegative, AccumDiffNegative, Abort
  <2>2. QED
    BY <2>1, AbortRunInv
<1>4. CASE DivideByZero
  BY <1>4, AbortRunInv DEF DivideByZero, vars
<1>5. CASE SendAbort \/ ReportAbort \/ PrintAbort
  BY <1>5, AbortRunInv DEF SendAbort, ReportAbort, PrintAbort, FailAt, vars
<1>6. CASE UNCHANGED allVars
  <2>1. SettingInv' /\ BucketsInv' /\ CallInv' /\ PassInv'
    BY <1>6 DEF RunInv, SettingInv, BucketsInv, CallInv, PassInv, Taken,
                WarmupCalls, SampleCount, PassCount, setting, vars, histoVars,
                runVars, allVars
  <2>2. SpinsInv'
    BY <1>6 DEF RunInv, SpinsInv, WaitCount, setting, vars, histoVars, totals,
                runVars, allVars
  <2>3. QED
    BY <2>1, <2>2 DEF RunInv
<1>7. QED
  BY <1>1, <1>2, <1>3, <1>4, <1>5, <1>6, EndMeasureInv,
     ReportInv, PrintReportInv DEF RunNext, Step

LEMMA RunInvCorrect == RunSpec => [](RunInv /\ HistoTypeOK)
<1>1. RunSpec => []HistoTypeOK
  BY RunImplementsHistogram, HistoTypeCorrect, PTL
<1>2. RunInit => RunInv
  BY InitRunInv
<1>3. RunInv /\ HistoTypeOK /\ [RunNext]_allVars => RunInv'
  BY NextRunInv
<1>4. QED
  BY <1>1, <1>2, <1>3, PTL DEF RunSpec

(* The loop counters and the spins keep their bounds, whatever the numbers *)
(* of loops, samples and warm-up calls (jtr_src.c:215-258).                *)
THEOREM RunTypeCorrect == RunSpec => []RunTypeOK
<1>1. ASSUME RunInv PROVE RunTypeOK
  <2>1. \A k \in 1..Len(reports) :
          DOMAIN reports[k].results.counts = 0..(opt_histo_buckets - 1)
    <3>1. TAKE k \in 1..Len(reports)
    <3>2. reports[k] \in Datasets
      BY <1>1, <3>1 DEF RunInv, PassInv
    <3>3. QED
      BY <3>2 DEF Datasets
  <2>2. QED
    BY <1>1, <2>1
       DEF RunInv, SettingInv, CallInv, PassInv, SpinsInv, Ints, RunTypeOK
<1>2. QED
  BY <1>1, RunInvCorrect, PTL

(* A pass reports exactly its opt_num_samples calls after the warm-up, in  *)
(* order: no warm-up call, no call of another pass, none missing; with a   *)
(* negative -w, those of them that it makes (jtr.c:538-556).               *)
ReportsCallsAfterWarmup ==
  pc = "report" =>
    samples = [k \in 1..SampleCount |->
                 Narrow(Clamp(timed[WarmupCalls + k]))]

LEMMA CallsCorrect == RunSpec => []ReportsCallsAfterWarmup
<1>1. ASSUME RunInv, HistoTypeOK PROVE ReportsCallsAfterWarmup
  <2> SUFFICES ASSUME pc = "report"
               PROVE  samples = [k \in 1..SampleCount |->
                                   Narrow(Clamp(timed[WarmupCalls + k]))]
    BY DEF ReportsCallsAfterWarmup
  <2>1. Taken = SampleCount
    BY <1>1, AllTaken
  <2>2. Len(samples) = SampleCount
        /\ \A k \in 1..SampleCount :
             samples[k] = Narrow(Clamp(timed[WarmupCalls + k]))
    BY <1>1, <2>1 DEF RunInv, CallInv
  <2>3. samples = [k \in 1..Len(samples) |-> samples[k]]
    BY <1>1 DEF HistoTypeOK
  <2>4. QED
    BY <2>2, <2>3
<1>2. QED
  BY <1>1, RunInvCorrect, PTL

(* The report of a run that gets to it has every dataset, with every       *)
(* sample (jtr_src.c:215-270, jtr_null.c:151-178).                         *)
THEOREM ReportCorrect == RunSpec => []ReportIsComplete
<1>1. RunInv => ReportIsComplete
  BY DEF RunInv, PassInv, ReportIsComplete
<1>2. QED
  BY <1>1, RunInvCorrect, PTL

(* The null loop of each pair spins as long as the sends of that pair did  *)
(* on average (jtr_src.c:215-245).                                         *)
THEOREM NullLoopCorrect == RunSpec => []NullLoopLastsAsLongAsSends
<1>1. ASSUME RunInv PROVE NullLoopLastsAsLongAsSends
  <2> SUFFICES ASSUME program = "sender", NEW k \in 1..Len(reports)
               PROVE  IF k % 2 = 1
                      THEN reports[k].pass = "send" /\ reports[k].spin = 0
                      ELSE /\ reports[k].pass = "null"
                           /\ LET sends == reports[k - 1].results.average * 1000
                                  spins == reports[k].spin
                              IN  /\ jtr_1000_loops_cost > 0
                                  /\ sends < (INT_MAX + 1) * jtr_1000_loops_cost
                                  => /\ spins * jtr_1000_loops_cost <= sends
                                     /\ sends < (spins + 1) * jtr_1000_loops_cost
    BY DEF NullLoopLastsAsLongAsSends
  <2>1. IF k % 2 = 1 THEN reports[k].pass = "send" /\ reports[k].spin = 0
        ELSE /\ reports[k].pass = "null"
             /\ reports[k].spin = WaitCount(reports[k - 1].results.average)
    BY <1>1 DEF RunInv, SpinsInv
  <2>2. ASSUME k % 2 # 1
        PROVE  reports[k - 1].results.average \in Nat
    <3>1. Len(reports) \in Nat /\ reports \in Seq(Datasets)
      BY <1>1 DEF RunInv, PassInv
    <3>2. k - 1 \in 1..Len(reports)
      BY <2>2, <3>1
    <3>3. reports[k - 1] \in Datasets
      BY <3>1, <3>2
    <3>4. QED
      BY <3>3, HistoAssumption DEF Datasets
  <2>3. jtr_1000_loops_cost \in Int
    BY <1>1, Counts DEF RunInv
  <2>4. QED
    BY <2>1, <2>2, <2>3, WaitCountNotLong
<1>2. QED
  BY <1>1, RunInvCorrect, PTL
-----------------------------------------------------------------------------
(* A run publishes what the log of all its samples computes, pass by pass  *)
(* (jtr.c:243-299).                                                        *)
THEOREM RunImplementsLog == RunSpec => ImplementsSampleLog
BY RunImplementsHistogram, LogImplemented

LEMMA RunResultsFromLog == RunSpec => []ResultsExact
BY RunImplementsHistogram, ResultsInvariant, PTL

(* Only Report changes the datasets.                                       *)
LEMMA OnlyReportReports ==
  ASSUME [RunNext]_allVars, ~UNCHANGED reports
  PROVE  Report
<1>1. ASSUME NEW d \in Diffs, MeasureCall(d) \/ MeasureCallNegative(d)
      PROVE  FALSE
  BY <1>1 DEF MeasureCall, MeasureCallNegative
<1>2. CASE BeginPass \/ DivideByZero \/ EndMeasure \/ PrintReport
  BY <1>2 DEF BeginPass, DivideByZero, EndMeasure, PrintReport
<1>3. CASE SendAbort \/ ReportAbort \/ PrintAbort
  BY <1>3 DEF SendAbort, ReportAbort, PrintAbort, FailAt
<1>4. CASE UNCHANGED allVars
  BY <1>4 DEF allVars, runVars
<1>5. QED
  BY <1>1, <1>2, <1>3, <1>4 DEF RunNext, Step

LEMMA ReportedFromCalls ==
  ASSUME RunInv, HistoTypeOK, ResultsExact, ReportsCallsAfterWarmup, Report
  PROVE  /\ Len(reports') = Len(reports) + 1
         /\ \A k \in 1..Len(reports) : reports'[k] = reports[k]
         /\ reports'[Len(reports')].results =
              Log!Results([k \in 1..SampleCount |->
                             Narrow(Clamp(timed[WarmupCalls + k]))],
                          opt_histo_buckets)
<1>1. allocated /\ num_buckets = opt_histo_buckets
  BY DEF RunInv, BucketsInv, Report
<1>2. samples = [k \in 1..SampleCount |->
                   Narrow(Clamp(timed[WarmupCalls + k]))]
  BY DEF ReportsCallsAfterWarmup, Report
<1>3. PublishedResults = Log!Results(samples, opt_histo_buckets)
  BY <1>1 DEF ResultsExact
<1>4. QED
  BY <1>2, <1>3, ReportAppends

(* Whatever the delays, the warm-up and the passes before: a dataset of    *)
(* the report is computed from the measured calls of its own pass and from *)
(* nothing else, and stays as it was reported (jtr_src.c:225-258).         *)
THEOREM DatasetsCorrect == RunSpec => DatasetsAreOfTheirCalls
<1>1. RunSpec => [](RunInv /\ HistoTypeOK /\ ResultsExact
                    /\ ReportsCallsAfterWarmup)
  BY RunInvCorrect, RunResultsFromLog, CallsCorrect, PTL
<1>2. RunInv /\ HistoTypeOK /\ ResultsExact /\ ReportsCallsAfterWarmup
      /\ [RunNext]_allVars
      => [/\ Len(reports') = Len(reports) + 1
          /\ \A k \in 1..Len(reports) : reports'[k] = reports[k]
          /\ reports'[Len(reports')].results =
               Log!Results([k \in 1..SampleCount |->
                              Narrow(Clamp(timed[WarmupCalls + k]))],
                           opt_histo_buckets)]_reports
  BY OnlyReportReports, ReportedFromCalls
<1>3. QED
  BY <1>1, <1>2, PTL DEF RunSpec, DatasetsAreOfTheirCalls
-----------------------------------------------------------------------------
(* Every histogram that jtr_histo_print_all() gets is one of those that    *)
(* the theorems of PercentileProofs.tla start from: its samples are all in *)
(* a bucket or among the overflows (jtr.c:282-287, 320-329).               *)
THEOREM PercentileInputCorrect == RunSpec => []HistogramIsPercentileInput
<1>1. RunSpec => []PointsAddUp
  BY RunImplementsHistogram, PointsInvariant, PTL
<1>2. ASSUME RunInv, HistoTypeOK, PointsAddUp, pc = "report"
      PROVE  Perc!Init
  <2>1. num_buckets = opt_histo_buckets /\ num_samples \in 0..MaxSamples
        /\ opt_histo_buckets \in Nat /\ MaxSamples \in Nat
    BY <1>2, HistoAssumption, RunAssumption
       DEF RunInv, BucketsInv, HistoTypeOK
  <2>2. 0..num_samples \subseteq 0..MaxSamples
    BY <2>1
  <2>3. buckets \in [0..(opt_histo_buckets - 1) -> 0..MaxSamples]
    BY <1>2, <2>1, <2>2 DEF HistoTypeOK
  <2>4. overflows \in 0..MaxSamples
    BY <1>2, <2>2 DEF HistoTypeOK
  <2>5. Perc!PointsBelow(opt_histo_buckets) = AllPoints
    BY <2>1 DEF Perc!PointsBelow, Perc!Points, AllPoints, PointsIn
  <2>6. num_samples
        = Perc!Cardinality(Perc!PointsBelow(opt_histo_buckets)) + overflows
    BY <1>2, <2>5 DEF PointsAddUp, Perc!Cardinality, Cardinality
  <2>7. QED
    BY <2>1, <2>3, <2>4, <2>6 DEF Perc!Init
<1>3. RunInv /\ HistoTypeOK /\ PointsAddUp => HistogramIsPercentileInput
  BY <1>2 DEF HistogramIsPercentileInput
<1>4. QED
  BY <1>1, <1>3, RunInvCorrect, PTL
-----------------------------------------------------------------------------
(* The steps of a pass, and what is left of the run after the current one  *)
PassSteps == WarmupCalls + SampleCount + 3
StepsAfterPass == (PassCount - Len(reports) - 1) * PassSteps + 1

LEMMA StepsByStage ==
  ASSUME RunInv
  PROVE  /\ PassSteps \in Nat
         /\ Len(reports) < PassCount => StepsAfterPass \in Nat \ {0}
         /\ pc = "pass" => StepsLeft = StepsAfterPass + PassSteps
         /\ pc = "measure" =>
              StepsLeft = StepsAfterPass + Clamp(opt_num_samples - call) + 2
         /\ pc = "report" => StepsLeft = StepsAfterPass + 1
         /\ pc = "print" => StepsLeft = 1
<1> DEFINE m == PassCount - Len(reports)
           p == PassSteps
<1>1. WarmupCalls \in Nat /\ SampleCount \in Nat /\ PassCount \in Nat
  BY Counts DEF RunInv
<1>2. Len(reports) \in Nat /\ Len(reports) <= PassCount
  BY DEF RunInv, PassInv
<1>3. p \in Nat /\ m \in Nat
  BY <1>1, <1>2 DEF PassSteps
<1>4. StepsAfterPass = (m - 1) * p + 1
  BY DEF StepsAfterPass
<1>5. pc = "pass" => StepsLeft = (m - 0) * p + 1
  BY DEF StepsLeft, PassSteps
<1>6. /\ pc = "measure" =>
           StepsLeft = (m - 1) * p + 1 + Clamp(opt_num_samples - call) + 2
      /\ pc = "report" => StepsLeft = (m - 1) * p + 1 + 1
      /\ pc = "print" => StepsLeft = 1
  BY DEF StepsLeft, PassSteps
<1>7. Len(reports) < PassCount <=> m > 0
  BY <1>1, <1>2
<1> HIDE DEF m, p
<1>8. m > 0 => (m - 1) * p \in Nat
  BY <1>3
<1>9. (m - 0) * p = (m - 1) * p + p /\ (m - 1) * p \in Int
  BY <1>3
<1>10. pc = "pass" => StepsLeft = StepsAfterPass + p
  BY <1>3, <1>4, <1>5, <1>9
<1>11. Len(reports) < PassCount => StepsAfterPass \in Nat \ {0}
  BY <1>4, <1>7, <1>8
<1>12. QED
  BY <1>1, <1>3, <1>4, <1>6, <1>10, <1>11 DEF p

(* The end of a run is at most one step away after its last pass, and the  *)
(* next pass begins with the steps that are left after this one.           *)
LEMMA StepsAfterReport ==
  ASSUME RunInv, HistoTypeOK, Report
  PROVE  StepsLeft' \in Nat /\ StepsLeft' <= StepsAfterPass
<1>1. Len(reports') = Len(reports) + 1 /\ Len(reports) \in Nat
  BY ReportAppends DEF RunInv, PassInv
<1>2. Len(reports) < PassCount
  BY DEF RunInv, PassInv, Report
<1>3. StepsAfterPass \in Nat \ {0} /\ PassSteps \in Nat
  BY <1>2, StepsByStage
<1>4. PassCount' = PassCount /\ PassSteps' = PassSteps
  BY DEF Report, PassCount, PassSteps, WarmupCalls, SampleCount, setting
<1>5. PassCount \in Nat
  BY Counts DEF RunInv
<1>6. CASE pc' = "pass"
  <2>1. StepsLeft' = (PassCount' - Len(reports') - 0) * PassSteps' + 1
    BY <1>6 DEF StepsLeft, PassSteps
  <2>2. PassCount' - Len(reports') - 0 = PassCount - Len(reports) - 1
    BY <1>1, <1>4, <1>5
  <2>3. StepsLeft' = StepsAfterPass
    BY <1>4, <2>1, <2>2 DEF StepsAfterPass
  <2>4. QED
    BY <1>3, <2>3
<1>7. CASE pc' = "print"
  BY <1>3, <1>7 DEF StepsLeft
<1>8. QED
  BY <1>6, <1>7 DEF Report

LEMMA StepsInPass ==
  ASSUME RunInv, UNCHANGED <<setting, reports>>
  PROVE  /\ StepsAfterPass' = StepsAfterPass
         /\ pc' = "measure" =>
              StepsLeft' = StepsAfterPass + Clamp(opt_num_samples - call') + 2
         /\ pc' = "report" => StepsLeft' = StepsAfterPass + 1
         /\ pc' \in {"done", "aborted"} => StepsLeft' = 0
<1>1. /\ (PassCount - Len(reports) - 1)' = PassCount - Len(reports) - 1
      /\ PassSteps' = PassSteps
  BY DEF PassCount, PassSteps, WarmupCalls, SampleCount, setting
<1>2. /\ pc' = "measure" =>
           StepsLeft' = (PassCount - Len(reports) - 1)' * PassSteps' + 1
                        + Clamp(opt_num_samples - call') + 2
      /\ pc' = "report" =>
           StepsLeft' = (PassCount - Len(reports) - 1)' * PassSteps' + 1 + 1
      /\ pc' \in {"done", "aborted"} => StepsLeft' = 0
  BY DEF StepsLeft, PassSteps
<1>3. QED
  BY <1>1, <1>2 DEF StepsAfterPass

(* Every run of every program ends after a number of steps that its        *)
(* options bound: none of its loops can go on for ever, whatever is        *)
(* measured (jtr_src.c:215-258, jtr.c:545).                           *)
THEOREM RunStepsCorrect == RunSpec => RunStepsAreBounded
<1> DEFINE Nearer == StepsLeft' \in Nat /\ StepsLeft' < StepsLeft
<1>1. ASSUME RunInv, HistoTypeOK, RunNext
      PROVE  Nearer
  <2> DEFINE left == StepsAfterPass
  <2>1. pc \in {"pass", "measure", "report"} => left \in Nat \ {0}
    BY <1>1, StepsByStage DEF RunInv, PassInv
  <2>2. PassSteps \in Nat /\ opt_num_samples \in Nat
        /\ opt_warmup_loops \in Int /\ call \in Int
    BY <1>1, StepsByStage, Counts DEF RunInv, CallInv
  <2> HIDE DEF left
  <2>3. /\ pc = "pass" => StepsLeft = left + PassSteps
        /\ pc = "measure" => StepsLeft = left + Clamp(opt_num_samples - call) + 2
        /\ pc = "report" => StepsLeft = left + 1
        /\ pc = "print" => StepsLeft = 1
    BY <1>1, StepsByStage DEF left
  <2>4. UNCHANGED <<setting, reports>> =>
          /\ pc' = "measure" =>
               StepsLeft' = left + Clamp(opt_num_samples - call') + 2
          /\ pc' = "report" => StepsLeft' = left + 1
          /\ pc' \in {"done", "aborted"} => StepsLeft' = 0
    BY <1>1, StepsInPass DEF left
  <2>5. pc \in {"pass", "measure", "report", "print"} =>
          StepsLeft \in Nat \ {0}
    BY <2>1, <2>2, <2>3 DEF Clamp
  <2>6. CASE BeginPass
    <3>1. pc = "pass" /\ pc' = "measure" /\ call' = -opt_warmup_loops
          /\ UNCHANGED <<setting, reports>>
      BY <2>6 DEF BeginPass
    <3>2. PassSteps = WarmupCalls + SampleCount + 3
      BY DEF PassSteps
    <3>3. Clamp(opt_num_samples - call') = WarmupCalls + SampleCount
      BY <2>2, <3>1 DEF Clamp, WarmupCalls, SampleCount
    <3>4. WarmupCalls + SampleCount \in Nat
      BY <2>2 DEF Clamp, WarmupCalls, SampleCount
    <3>5. QED
      BY <2>1, <2>2, <2>3, <2>4, <3>1, <3>2, <3>3, <3>4
  <2>7. ASSUME NEW d \in Diffs, MeasureCall(d)
        PROVE  Nearer
    <3>1. pc = "measure" /\ pc' = "measure" /\ call' = call + 1
          /\ call < opt_num_samples /\ UNCHANGED <<setting, reports>>
      BY <2>7 DEF MeasureCall, LoopTest
    <3>2. QED
      BY <2>1, <2>2, <2>3, <2>4, <3>1 DEF Clamp
  <2>8. CASE EndMeasure
    <3>1. pc = "measure" /\ pc' = "report" /\ UNCHANGED <<setting, reports>>
      BY <2>8 DEF EndMeasure
    <3>2. QED
      BY <2>1, <2>2, <2>3, <2>4, <3>1 DEF Clamp
  <2>9. CASE Report
    <3>1. pc = "report" /\ StepsLeft' \in Nat /\ StepsLeft' <= left
      BY <1>1, <2>9, StepsAfterReport DEF Report, left
    <3>2. QED
      BY <2>1, <2>2, <2>3, <3>1
  <2>10. CASE \/ DivideByZero \/ PrintReport
              \/ SendAbort \/ ReportAbort \/ PrintAbort
              \/ \E d \in Diffs : MeasureCallNegative(d)
    <3>1. pc \in {"pass", "measure", "report", "print"}
          /\ pc' \in {"done", "aborted"} /\ UNCHANGED <<setting, reports>>
      BY <2>10 DEF DivideByZero, PrintReport, SendAbort, ReportAbort,
                   PrintAbort, FailAt, MeasureCallNegative
    <3>2. QED
      BY <2>4, <2>5, <3>1
  <2>11. QED
    BY <1>1, <2>6, <2>7, <2>8, <2>9, <2>10 DEF RunNext, Step
<1>2. RunInv /\ HistoTypeOK /\ [RunNext]_allVars => [Nearer]_allVars
  BY <1>1
<1>3. QED
  BY <1>2, RunInvCorrect, PTL DEF RunSpec, RunStepsAreBounded
=============================================================================
