# Verification of jtr

jtr measures latency jitter: it times a short operation (an empty loop, a
`sendto()`, or a send of Ultra Messaging, "UM") two million times and reports
the distribution of the times. This directory holds TLA+ models of its code,
TLC configurations that check them on small instances, and proofs that the
TLAPS proof system checks for every value of the constants.

Source lines are those of the repository; `PROJECT.json` maps every modelling
definition to its lines.

## 1. Inventory

| Part | Code | State | Operations | What is hard | What makes it correct |
|---|---|---|---|---|---|
| Histogram | `jtr.c` 52-60, 243-299, 526-534 | `jtr_histo_*`, `jtr_neg_diffs`: globals shared by all passes of a process | `jtr_histo_init`, `jtr_histo_accum`, tail of `jtr_measure_one` | narrowing of `long long` to `int`, bucket edges, what a reset forgets | counters equal what the run's samples say |
| Percentile report | `jtr.c` 320-346, 451-464 | locals, report text | `jtr_histo_print_perc` for five percentiles | rounding, end of the array against end of the count | a printed bound is true and tight; a warning is exact |
| Calibration and clocks | `jtr.c` 44-50, 94-238, 476-524 | `jtr_gettime_cost`, `jtr_rdtsc_cost`, `jtr_1000_loops_cost`, `jtr_ticks_per_sec` | `jtr_calibrate`, `jtr_spin_sleep_ns`, the two timebases | preemption between two readings; least values of quotients and of differences; use before calibration | corrections never make a call too short; sleeps last |
| Measuring loop | `jtr.c` 470-473, 538-556; `main` of the five programs | loop numbers, `jtr_no_send_spin`, the datasets reported | passes with warm-up, pairs of send and null loop, report | off-by-ones, an average used after its reset, a zero divisor | every dataset holds its own calls after warm-up; the report is complete |
| UM context and thread | `jtr_src.c`, `jtr_ss.c`, `jtr_smx.c`: `main`, `my_ctx_thread` | `jtr_ctx`, `jtr_src`, `message_buf`, `jtr_ctx_running`, the thread | create, serve, send, stop, join, delete | two threads and a plain `int` flag, a lost unblock, inherited real-time priority, `abort()` anywhere | the context outlives its users; the process ends cleanly, and prints only a run that is over |
| Report and plot buffers | `jtr.c` 301-446, titles in the five `main` | two 64 KB texts, `title`, `gnuplot_title`; `jtr_x_low` and `jtr_x_high`, which nothing reads | `snprintf()` at the end of the text and a check of its last byte but one, copy of the title | limits, silent truncation, an uninitialized byte, writes nobody checks | the results are complete or the process aborts, and it aborts only if there is no room |
| Options | `get_options` of the five programs | `opt_*` | `getopt` loop, checks | conversions that collide with sentinels, checks that never find anything | legal input is used as given, required input is there |
| Socket set-up | `jtr_sock.c` 192-213 | core, priority, a socket | `jtr_pin_cpu`, `jtr_set_fifo_priority`, `socket`, `setsockopt` | a TTL that went through a `char` | the socket sends as the options say |
| Scripts | `tst_*.sh`, `plot_*.sh`, `tstall.sh`, `plotall.sh`, `bld.sh` | files | run one program or one gnuplot | the plots rely on the order of the datasets | - |

`main()` of each program pins itself and sets its priority, (UM programs:
creates context, thread and source,) calibrates, then runs its passes. A pass
calls `jtr_histo_init()`, then `jtr_measure_calls()`, which calls
`jtr_measure_one()` with a callback for each sample; that reads a clock before
and after the callback, corrects the difference with the calibrated costs and
gives it to `jtr_histo_accum()`. `jtr_histo_print_all()` appends the results to
the buffers, which are printed at the end. The only concurrency is between
`main()` and `my_ctx_thread()` of the UM programs, and between any thread and
the scheduler. Nothing is persisted, so there is no recovery to model; a failed
`LBME()` or `SYSE()` check is an `abort()`.

## 2. Modules

```
SampleLog        ContextService                    abstract specifications
   ^ refines        ^ refines
Histogram        UmContext    Calibration   Percentile   ReportBuffers   Options
   ^ EXTENDS
TestRun
```

In time, a process goes through `Options`, `Calibration` and `TestRun`; the UM
programs have `UmContext` around the last two. `TestRun` adds a pass to the report
in one step, `Report`; `Percentile` and `ReportBuffers` are the inside of it, for
the contents and for the lengths.
`Calibration` ends with one measured call and one pause, the two things that
a step `MeasureCall` of `TestRun` does, and has in detail where its difference
comes from.

| Module | Models | Correspondence |
|---|---|---|
| `Histogram` | the histogram globals | a variable per global, without the prefix `jtr_histo_`; `HistoInit` and `HistoInitResize` are the two ways through `jtr_histo_init()`, `AccumDiff` and `AccumDiffNegative` the two through the tail of `jtr_measure_one()`. The variables `samples` and `longest` are history. `MeasureAllowed`, at most `MaxSamples` samples between two inits, is what the histogram asks of its callers and no check of its own: only `Next`, the driver for this module alone, has it as a guard |
| `SampleLog` | what the histogram promises | results as functions of the sequence of samples since the last reset |
| `Percentile` | `jtr_histo_print_perc()` | one step per turn of its `while`; the histogram is any whose counts add up |
| `Calibration` | `jtr_calibrate()`, `jtr_spin_sleep_ns()`, the timebases | a step per timing, per pair of readings and per turn of a spin loop; each may be delayed by a member of `Delays`. The history `quiet` says which timings were not. After the calibrations comes one call of any length and one pause, spinning or in `usleep()` |
| `TestRun` | the passes of a program | extends `Histogram`: a step per call of `jtr_measure_calls()`'s loop, one for the report of a pass. It uses the histogram's actions without `MeasureAllowed`: that its loop keeps to it is a theorem. `program` is `jtr_null` or `sender`: the four senders have the same loop |
| `UmContext` | life of the UM programs | `pc` is the call that `main()` makes next, `thread` the place of `my_ctx_thread()`; a whole measuring pass is one step, as `TestRun` has its detail. `stdout` is what `printf()` was given: in stdio's buffer, written, or cut off by an `abort()` or a failed flush at the exit. `WritePlot` is the file of `-g` |
| `ContextService` | what a program owes UM | a context is deleted only when its source is gone and no thread is inside it |
| `ReportBuffers` | both buffers and the titles | a text is its length; a step per `snprintf()` with the limit that the code computes and the check after it, and per character of a title that is copied. The histories `wanted` and `cause` are the lengths with unlimited room and the check that failed. `plot_file` is `"incomplete"` when `fprintf()` or `fclose()` fail, which the code does not look at |
| `Options` | `get_options()` and what `main()` sets up before it calibrates | a step per option, in any order and number, then the checks, then a step per system call or group of them; `opt` is the `opt_*` by letter, `sock` what the kernel was told. The histories `asked` and `complaint` are the arguments before conversion and the letter complained about |
| `MC*` | instances for TLC | values of the constants |
| `HistogramProofs`, `PercentileProofs`, `UmContextProofs`, `TestRunProofs`, `CalibrationProofs`, `ReportBuffersProofs`, `OptionsProofs` | theorems | section 5 |
| `ArithmeticLemmas` | quotients and remainders, sums of sequences, induction over sets of numbers | lemmas for all but `UmContextProofs` and `ReportBuffersProofs` |

Conventions: an operator named `X_Something` is a plausible mistake in `X`,
used only to see that the properties notice it (`"mutants"` in
`PROJECT.json`). `INT_MAX` and `LLONG_MAX` are constants, and every conversion
or product that can leave its type is taken modulo (`Narrow`, `Wrap`), as the
unoptimised gcc build does. `Quotient` is C's division, which truncates towards zero;
`\div` stands where neither operand can be negative.

## 3. Runs

| Run | Question | Bounds, and why they are enough |
|---|---|---|
| `histogram` | Do the running counters always equal what the run says (`BucketsExact`, `ExtremesExact`, `AverageBetweenExtremes`), in particular do they implement `SampleLog`? | ints of 4 bits, buckets of 2, up to 3 samples per run, histograms of 0, 2 and 3 buckets; differences are negative, on both edges of a bucket, beyond the histogram, beyond `INT_MAX` both to a negative and to a small value. Three samples suffice to have a least, a middle and a greatest one in any order; runs follow each other without bound |
| `histogram_narrow` | README.md:193: is Maximum the most time measured? No (finding 1) | same |
| `percentile` | Is every printed bound tight, every warning exact, are bounds ordered, are all lines printed? | every histogram of 3 buckets and up to 11 samples: 90% of 1 to 11 samples rounds up, down and not at all |
| `percentile_rounding` | README.md:203: are p% of the samples below the bound? No (finding 2) | same |
| `calibration` | With short delays anywhere: is a call ever measured short, a sleep too short or too long, is the loop cost positive, does all end? | 2 calibrations, so that each can be the disturbed one; `CALLS` 3 for 1000, "seconds" of 210 ns, one length of delay longer than a reading and a third of the calibrating sleep (`ShortDelays` of `CalibrationProofs` holds); both timebases, with and without the settle sleep before calibration; calls of 0 ns, shorter and longer than a reading, and of 300 ns, whose ticks overflow; no pause, pauses shorter and longer than twice a reading, and a negative one |
| `calibration_rate` | README.md:187: does one undisturbed calibration find the tick rate? No (finding 4) | same, but "seconds" of 120 ns |
| `calibration_loops` | jtr.c:467: can the loop cost be used to wait? Not always (finding 5) | a delay 6 times the cost of the null loop |
| `test_run` | Is each dataset computed from exactly its calls after warm-up (`DatasetsAreOfTheirCalls`), does its histogram add up to what the percentile report starts from, is each null loop as long as the sends of its pair, is the report complete, is there a number of steps no run exceeds? | 2 loops (two pairs: a later pass could see an earlier one's state); 2 samples, after 1 warm-up call or with a `-w` of -1 and -3, which leave one of them and none; differences negative, in the last bucket, an overflow and one that aborts; loop costs positive with a remainder, small enough to overflow the `int`, 0 and negative |
| `um_context` | Do `main()` and its thread keep the UM library's rules, and do they end, in every interleaving, within eight steps of the flag being cleared? Is what an aborted process has printed the results of a run that was over? | all 3 programs with all 32 combinations of pinning, real-time priority, pause, `-v -1` and `-g`; 2 loops; every check may fail at any time |
| `report_buffers` | Do the results stay whole, a copied title in its array, a plot whole while the results leave room? Does a check fail only when its text is full, and is the plot file left alone until every dataset is in its buffer? | 3 datasets, buffers of 20 and titles of 6: titles short, leaving one byte, filling their array, too long; up to 2 details of 2 or 3, so that with them the results outrun the plot and without them not; quiet, normal and detailed, with and without `-g`; every initial value of the byte that the title's check reads |
| `options` | Does `jtr_sock` measure only with its four required options, and send as they say? | all 5 programs; ports of 3 bits, TTLs of 4, addresses of 2; arguments 0, greatest, one and two beyond it, negative, too large for the signed type only; any order and repetition |
| `um_context_fifo` | jtr_src.c:128: does the thread run on another core? Not with `-f` (finding 3) | one program, pinned, SCHED_FIFO, spinning |

`CHECK_DEADLOCK FALSE` is in every configuration because the programs end: an
aborted, exited or finished process takes no step.

### Findings

1. `jtr.c:532` passes a `long long` to an `int` parameter. A difference of more
   than 2.147 s aborts, or, beyond 4.29 s, is recorded as a short sample.
2. `jtr.c:326` rounds the number of samples to nearest: "90% are below" is
   printed for 5 samples of 6. What does hold is `BoundIsTight`: fewer than half
   a sample is missing, and no lower edge would do.
3. `jtr_src.c:179-193` pins and raises the priority of `main()` before it creates
   the thread, which inherits both. With `-p 0` or more `main()` never blocks,
   so the thread cannot run, not even to pin itself elsewhere, until
   `pthread_join()`. UM's events are not processed during the measurements.
   `Terminates` shows that the process still ends.
4. `jtr.c:196` keeps the least tick rate. The least of a time is the least
   disturbed one; the least of a rate is the most disturbed one.
5. `jtr.c:234` subtracts the RDTSC cost known so far and keeps the least
   difference, so an early, disturbed RDTSC timing can leave a loop cost that is
   0 or negative for good. A cost of 0 is a division by zero at `jtr.c:472`
   (`DivideByZero` in `TestRun`).

What else came up, without a run of its own. All but the last two points are in
the models as the code has them; the properties named say what holds all the same.

- `jtr.c:415`, `424` and `443` subtract the length of the results from the size
  of the plot buffer. When the results are the longer text, a plot is cut
  although it has room, and the check at `jtr.c:419` does not notice; when they
  are the shorter one, the limit is too great and a piece may end behind the
  buffer. `PlotWholeWithRoomInResults` says when no harm is done, `BufTypeOK` by
  how much a plot may leave its buffer. With the defaults, six datasets and no
  details, both texts stay below 64 KB; more loops or buckets, or `-v 1`, can fill them.
- `jtr.c:403` adds the summary to a plot's title without a check. At least
  the title before it is always whole (`EscapedTitleFits`).
- `jtr_src.c:230`, and its like in every `main()`, checks a byte of `title` that
  nothing initializes: with a short title it tests what was on the stack. It
  can only fail for the first dataset, because a title that passes leaves 0
  there or ends behind it (`AbortsOnlyWhenFull`).
- `jtr_sock.c:133`: the TTL 255 becomes -1 in a `char` and is refused as
  missing. All TTLs from 128 to 254 are negative there and are sent correctly.
  A multiple of 65536 is a missing port.
- The code has a message "Bad IP address" for a bad `-G` or `-I`, and never prints
  it: `jtr_sock.c:121` compares an `unsigned long` with -1, which `inet_addr()`'s
  2^32-1 never equals, and `jtr_sock.c:126` breaks before the check of `-I`. A bad
  address is left to `setsockopt()` and `sendto()`. `Options` accepts it as the code
  does, and `SocketSendsAsAsked` says nothing of it.
- `jtr_src.c:260-267` and its like check `fopen()` but neither `printf()`, `fprintf()`
  nor `fclose()`: on a full disk a program exits 0 with truncated results or an
  incomplete plot file. An `abort()` after the `printf()` loses what stdio had not
  written yet, although all measurements are over. Both are in the models; what
  holds is that neither stdout nor the plot file ever has the results of a run
  that was not over (`PrintsOnlyCompleteReports`, `PlotFileHasEveryDataset`).
- `jtr_sock.c:117`: `-v` takes no argument in this program, and means 1; its usage
  text has the three values of the other programs.
- With `-v -1` no plot file is written, whatever `-g` says (`jtr_src.c:259`), and
  without `-g` a full plot buffer still aborts the process (`jtr.c:463`).
- A negative `-w` makes `jtr_measure_calls()` skip calls: the title of the report
  has the number asked for, the percentiles the number made.
- `jtr_x_low` and `jtr_x_high` are updated with every plot (`jtr.c:429-440`) and never
  read; the plots use `xrange`, the number of buckets times 10 (`jtr.c:416-418`).
  They are not modelled.
- The usage texts say `num_samples` 1,000,000 and `warmup_loops` 500 where the
  defaults are 2000000 and 1500. `jtr.c:173` divides the time of 1000 calls by
  1001. README.md names four of the five C programs. `jtr_null.c:148` calibrates
  10 times where `jtr.c:136` says 20.

## 4. Fairness

- `Percentile`, `Calibration`: `WF_vars(Next)`. Straight sequential code in one
  thread that never waits for anyone. In `Calibration` a delay is finite, as the
  scheduler returns to a preempted thread.
- `UmContext`: `WF_vars(Main)` and `WF_vars(Thread)`. Each thread that has a core
  runs. A starved thread is not enabled (`Starved`), so fairness never runs
  it against the scheduler; `Join` is enabled only when the thread has returned.
  `process_events()` returns because of its 1000 ms timeout, which is why no
  property depends on the unblock arriving. Nothing is assumed of the 100 ms of
  `Settle`: the thread may not have pinned itself when they are over.
- `Histogram`, `TestRun`, `ReportBuffers` and `Options` have safety properties only: the
  first is driven by its callers, the others are loops over finite input, the
  steps of a run being bounded by `RunStepsAreBounded`.

## 5. Proofs

`tlapm` checks all of them; the assumptions are the named `ASSUME`s of the
modules (positive granularity and widths, sets of inputs of the right type).
A theorem with a condition of its own has it in its statement.

**The histogram and its log** (`HistogramProofs`). `HistoTypeCorrect`,
`BucketsCorrect`, `ExtremesCorrect`, `AverageCorrect`. The type invariant is inductive
given that a narrowed value stays in `int` (`NarrowRange`) and that a mean lies
between bounds (`QuotientBetween`). `BucketsExact` needs `CountOneMore`: appending
one sample adds it to exactly one of the sets that are counted. `ExtremesExact`
needs to know of an empty run that the extremes are `INT_MAX` and 0
(`EmptyExtremes`); `AverageBetweenExtremes` that the total lies between
`num_samples` times the extremes (`TotalBetweenExtremes`).

`LogImplemented` is the refinement, `Spec => ImplementsSampleLog`. Its invariant
is `ResultsExact`: what the counters publish equals `Log!Results(samples, n)`, each
field by a lemma of its own. That the running total is the sum of the samples
needs `SumAppend`, hence induction over the length of a sequence; `InductionOnSet`
states induction over a set of numbers instead of over an operator, so that
the provers can use it. A step is then either `Reset`, `Record` or a stutter.

**The percentile report** (`PercentileProofs`). `PercTypeCorrect`, `BoundCorrect`,
`WarningCorrect`, `BoundsOrdered`, for every histogram, granularity and list of
percentiles. That a percentile never asks for more samples than there are is
`MinCountAtMostAll`. The inductive invariant `PercInv` says of a scan at bucket `i` that
`tot_at_i_or_below` is the number of samples below `i` (`ScanInv`) and of each
printed line what the scan that printed it ended with (`PrintedInv`); bounds and
warnings follow from those without looking at steps again. `ScansCorrect` bounds
the scans: each step lowers `StepsLeft`.

**The UM programs** (`UmContextProofs`). Every safety property of the run
`um_context` from the inductive invariant `UmInv`, which ties the place of `main()`
to the objects that exist (`ObjectsInv`), the place of the thread to that of
`main()` and to the flag (`ThreadInv`), the count of late services to where the
thread is (`LateInv`), and the passes to `pc` (`PassInv`, `ExitInv`). `PrintInv` says that stdout is empty
exactly before the `printf()` and in quiet programs, whatever aborts them.
`ServiceImplemented` shows `Spec => ImplementsContextService`: the interesting
step is `DeleteContext`, where `UmInv` says that the thread has returned and the
source is gone. `StopCorrect` shows `StopIsBounded`: with the flag cleared, every
step of either thread lowers `StepsToExit`, the sum of what both have left.

**The passes** (`TestRunProofs`). `RunImplementsHistogram`, `RunSpec => Spec`: the
programs use the histogram only as `Histogram` asks. No guard of `TestRun` says so.
`ContractInv` ties the histogram to the loop: while a pass measures, the histogram is
allocated and holds no more samples than calls were made since `call` was 0;
`CallIsAllowed` then shows that a call which accumulates finds fewer than
`opt_num_samples`. Hence `RunResultsCorrect` and `RunImplementsLog`, the histogram's
theorems in every run of every program. The
run's own invariants follow from `RunInv`: during a pass, `num_samples` and
`samples` are those of the calls made since `call` was 0 (`CallInv`, `BucketsInv`);
each dataset has the kind and spin count of its number, the next spin count being
computed from the average that the last dataset reported (`PassInv`, `SpinsInv`).
`NullLoopCorrect` needs that a truncated quotient is the greatest
number of spins that fits, and `RunTypeCorrect` that the cast keeps it in an `int`.

- `DatasetsCorrect` puts these together: with `ResultsExact` of the histogram and
  the samples of the pass (`ReportsCallsAfterWarmup`), the dataset that `Report` appends is a
  function of the calls of its pass and of nothing else.
- `PercentileInputCorrect`: a histogram that is reported satisfies `Percentile!Init`.
  So the theorems of `PercentileProofs`, which start from any such histogram,
  are about the percentiles of every run. Its lemma is `PointsInvariant`: buckets and
  overflows add up to `num_samples` in every state of `Histogram`.
- `RunStepsCorrect` shows `RunStepsAreBounded`: `StepsLeft`, computed from the options, the passes reported
  and the place in the current one, is a natural number that every step lowers.

**Calibration and sleeps** (`CalibrationProofs`). All invariants of the run
`calibration`, for all clocks, costs, numbers of calls and calibrations.
`DelayAssumption` is what they cost: a delay in a calibration is short enough for
the code's products to fit a `long long` (0.8 s at 3.4 GHz, of which `MaxDelay` is
any bound). `CalInv` says what an undisturbed timing fixes for good: `gettime_cost` is
at most a reading (`GettimeInv`), the tick rate at most the clock's (`RateInv`, from
the two readings that `SpanInv` ties to `now`), and the RDTSC cost at most what a
reading is converted to at that rate, which is the point of
`MeasuresNoLessThanTheCall` (`RdtscInv`). `SpinInv` has what `until` was computed
from. Where a product has wrapped, truncating division is bounded by that of
the exact product all the same (`QuotientBelow`). `OverrunCorrect` needs also how far the clock can have passed `until` when it
is read (`OverrunInv`). `AdvanceCorrect` shows `CalibrationAdvances`: a step comes
nearer to the end of the program, or of the spin loop it is in.

**Buffers** (`ReportBuffersProofs`). All invariants of the run `report_buffers`. `BufInv`
says that until a check fails both texts end before the byte it reads (`RoomInv`),
which is why `ResultsAreWhole` holds and `PlotWholeWithRoomInResults` needs room
for one piece only; that no text is longer than asked for (`WantedInv`); that
the checked byte of `title` is 0 once a title has passed (`MarkInv`).
`FileCorrect` is about the order of `main()` only: it says when the file is opened, not
that writing it succeeds.

`ReportFits` says when that is enough: if datasets of the longest lines and the most
used buckets fit (`Fits`), every report is whole and no check of either buffer
fails. `SizeInv` bounds the texts by the datasets so far and the turns left of the
current loop. In the code, with results lines of up to 108 characters, details of
29 and plot lines of 14, six datasets of up to 300 used buckets each fit: their
results have 62,232 characters at most, which leaves the 1,064 of a plot's first
piece and more of the 65,536; their plots are half as long.

**Options** (`OptionsProofs`). All invariants of the run `options`. The interesting
lemma is that a TTL survives its way through a signed `char` and back to the byte
that the kernel reads, for every number of characters; `GivenInv` ties each option
to the argument asked for, and `SocketInv` the socket to the options.

### When the documentation is right

The runs that find a violation show that a statement of the documentation fails;
these theorems give a condition under which it holds, and so rule out every
other reason for it to fail. There is none for finding 3: without a real-time
priority, where the thread is when `main()` measures is up to the scheduler, as
nothing in the code waits for it to be pinned.

| Finding | Theorem | The statement holds |
|---|---|---|
| 1 | `MaximumCorrectWithinInt` | if no difference exceeds an `int` (2.147 s) |
| 2 | `PercentagesCorrectUnlessRoundedDown` | for percentiles whose number of samples is whole or rounds up, as do all five of 2,000,000 samples |
| 4 | `FrequencyCorrectUnlessEndsDisturbed` | if the end readings of no calibration were disturbed; delays elsewhere do no harm |
| 5 | `LoopsCostCorrectForShortDelays` | if delays are short against the calibrating sleep (a third of it) and the timed calls (`ShortDelays`); `CalInv` bounds the tick rate only once a calibration was undisturbed, `LoopsInv` always, by twice the clock's, and with it the RDTSC cost that is subtracted |

### Proved and only model-checked

Every invariant, every action property and both refinements of the passing runs are
proved. Only model-checked are the liveness properties `AllLinesPrinted`,
`CalibrationEnds` and `Terminates`: they need fairness and `ENABLED`, which are
outside the prover's reach. `ScansCorrect`, `AdvanceCorrect` and `StopCorrect` are their
safety halves: a measure in the natural numbers that every step lowers, so that no
loop goes on for ever. What TLC adds is that the program is never stuck before its
end. For `TestRun` only that half is stated, `RunStepsAreBounded`.

## 6. What the models leave out

- The wording of texts. `Percentile` and `TestRun` have their contents,
  `ReportBuffers` their lengths.
- The components run one after the other and are modelled separately:
  `TestRun` takes any loop cost and any difference as input, more than a
  calibration can give, and a report that aborts; `ReportBuffers` takes
  any number of used buckets. `-l`, `-h` and `-n` are constants, not negative.
  `malloc()` succeeds.
- `Options` has no file or description: which string was given matters to
  nothing that it sets up. In `jtr_sock` the argument that `-v` leaves behind ends
  the options for getopt() implementations that do not permute arguments; GNU's
  does, and the model has that.
- The percentile arithmetic is exact. The C doubles agree for the five
  percentiles and every count up to 4,000,000, except that an exact tie of
  99.99% (at an odd multiple of 5000 samples) comes out one less for 364 counts.
- Clocks of one core: `Calibration` has no RDTSC that runs backwards. `Histogram`
  and `TestRun` take every difference, negative ones too, as input.
- A calibration that is held up for more than about a second, where the products
  of `jtr_calibrate()` overflow (`DelayAssumption`). Measured calls have any length.
- `jtr_x_low` and `jtr_x_high`, which nothing reads.
- UM and the kernel, except where their calls block or fail. Shell
  scripts: they run one program or one gnuplot each, with fixed arguments.

## 7. Plan

Done: all modules of section 2, all runs of section 3, and the theorems of section
5, among them every safety property and both refinements. What would come next:

1. Calibration and the null loop: how much longer or shorter than the sends of
   its pair the null loop of a well calibrated run can be, from
   `LoopsCostCorrectForShortDelays` and `NullLoopCorrect`. It needs an upper bound of the
   loop cost after one undisturbed calibration.
2. The converse of the conditions of finding 5: how short delays have to be at
   least.
3. The lengths of `ReportBuffers` from the contents of `TestRun`: `ReportFits` with
   the number of used buckets that a run's samples can have.
