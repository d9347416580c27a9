----------------------------- MODULE Calibration ----------------------------
(***************************************************************************)
(* Time in jtr.c: jtr_calibrate(), called CALIBRATIONS times before the    *)
(* tests, jtr_spin_sleep_ns(), and the two timebases of jtr_measure_one(), *)
(* on a machine whose thread is delayed, preempted for instance, between   *)
(* any two readings of its clocks.                                         *)
(*                                                                         *)
(* External: `now' is the time in nanoseconds.  Both clocks follow it      *)
(* exactly, clock_gettime() in nanoseconds and RDTSC in ticks; a reading   *)
(* takes its fixed cost and gives the time at its end.  Only differences   *)
(* of readings are ever used, so `now' starts again at 0 when nothing that *)
(* was read before is needed any more, and a dead local is 0 too.          *)
(***************************************************************************)
EXTENDS Integers

CONSTANTS
  GETTIME_NS, RDTSC_NS,  \* what a reading of each clock costs
  LOOPS_NS,              \* what the null loop of 1000 cycles costs
  TICKS_PER_NS,          \* the frequency of RDTSC
  Delays,                \* how long the thread is delayed, 0 included
  MaxDelay,
  NANOS_PER_SEC,
  NANOS_PER_USEC,        \* the unit of usleep()
  LLONG_MAX,
  CALLS,                 \* calls timed to find the cost of one: 1000
  CALIBRATIONS,          \* 10 in jtr_null, 20 in the others
  SETTLE_NS,             \* the sleep of the UM programs before they calibrate
  CallTimes,             \* how long a measured call takes
  Pauses                 \* values of opt_pause, negative to usleep()

ASSUME CalAssumption ==
  /\ GETTIME_NS \in Nat \ {0} /\ RDTSC_NS \in Nat \ {0} /\ LOOPS_NS \in Nat
  /\ TICKS_PER_NS \in Nat \ {0}
  /\ MaxDelay \in Nat /\ Delays \subseteq 0..MaxDelay /\ 0 \in Delays
  /\ NANOS_PER_SEC \in Nat \ {0} /\ NANOS_PER_USEC \in Nat \ {0}
  /\ LLONG_MAX \in Nat \ {0}
  /\ CALLS \in Nat \ {0} /\ CALIBRATIONS \in Nat \ {0}
  /\ SETTLE_NS \in Nat
  /\ CallTimes \subseteq Nat /\ Pauses \subseteq Int

(* The longest that a calibrating sleep and the readings around it last.   *)
LongestSleep ==
  RDTSC_NS + 3 * (GETTIME_NS + MaxDelay) + NANOS_PER_SEC \div 10

(* Delays are short enough for the products of jtr_calibrate() to fit a    *)
(* long long and for its tick rate not to be truncated to 0: with RDTSC at *)
(* 3.4 GHz, less than 0.8 s.                                               *)
ASSUME DelayAssumption ==
  /\ MaxDelay < NANOS_PER_SEC
  /\ 2 * (CALLS * GETTIME_NS + MaxDelay) <= LLONG_MAX
  /\ (LongestSleep * TICKS_PER_NS) * NANOS_PER_SEC <= LLONG_MAX
  /\ ((CALLS * RDTSC_NS + MaxDelay) * TICKS_PER_NS) * NANOS_PER_SEC <= LLONG_MAX

VARIABLES
  now,
  gettime_cost, rdtsc_cost, loops_cost, ticks_per_sec,  \* jtr_*
  opt_timebase,             \* 1 is RDTSC, 2 is clock_gettime(): constant
  pc,                       \* what the thread does next
  rounds,                   \* calls of jtr_calibrate() that returned
  start_ticks, start_ns,    \* locals of jtr_calibrate()
  spin,                     \* the call of jtr_spin_sleep_ns()
  measured,                 \* history: a call's time, and its diff_ns
  quiet                     \* history: which timings no delay disturbed

costs == <<gettime_cost, rdtsc_cost, loops_cost, ticks_per_sec>>
locals == <<start_ticks, start_ns>>
history == <<measured, quiet>>
vars == <<now, costs, opt_timebase, pc, rounds, locals, spin, history>>
-----------------------------------------------------------------------------
(* An overflowing long long wraps in the unoptimised build.                *)
Wrap(n) == ((n + LLONG_MAX + 1) % (2 * (LLONG_MAX + 1))) - (LLONG_MAX + 1)

Ticks(t) == t * TICKS_PER_NS

(* C division truncates towards zero; no divisor here is below 0.          *)
Quotient(a, b) == IF a < 0 THEN -((-a) \div b) ELSE a \div b

ToNanos(ticks, per_sec) == Quotient(Wrap(ticks * NANOS_PER_SEC), per_sec)

TicksFor_DivideFirst(ns) == Quotient(ns, NANOS_PER_SEC) * ticks_per_sec
TicksFor(ns) == Quotient(Wrap(ns * ticks_per_sec), NANOS_PER_SEC)

(* "Called it 1001 times." *)
PerCall_Unrolled(ns) == ns \div (CALLS \div 2)
PerCall(ns) == ns \div (CALLS + 1)

Least(a, b) == IF a < b THEN a ELSE b

NoSpin == [asked |-> 0, from |-> 0, timebase |-> 2, until |-> 0,
           turned |-> FALSE, return_to |-> "done"]

Init ==
  /\ now = 0
  /\ gettime_cost = LLONG_MAX /\ rdtsc_cost = LLONG_MAX
  /\ loops_cost = LLONG_MAX /\ ticks_per_sec = LLONG_MAX
  /\ opt_timebase \in {1, 2}
  /\ pc \in {"settle", "gettime"}
  /\ rounds = 0
  /\ start_ticks = 0 /\ start_ns = 0
  /\ spin = NoSpin
  /\ measured = [took |-> 0, diff_ns |-> 0]
  /\ quiet = [gettime |-> FALSE, start |-> FALSE, ticks |-> FALSE,
              ends |-> TRUE, rdtsc |-> FALSE]
-----------------------------------------------------------------------------
(* jtr_spin_sleep_ns(ns, timebase)                                         *)
Adjusted_WrongSign(ns) == ns + Wrap(2 * gettime_cost)
Adjusted(ns) ==
  IF ns > Wrap(2 * gettime_cost) THEN ns - Wrap(2 * gettime_cost) ELSE ns

SpinEnter(ns, timebase, return_to) ==
  /\ \E delay \in Delays :
       now' = now + delay + IF timebase = 1 THEN RDTSC_NS ELSE GETTIME_NS
  /\ spin' = [asked     |-> ns,
              from      |-> now,
              timebase  |-> timebase,
              until     |-> IF timebase = 1 THEN Ticks(now') + TicksFor(ns)
                                            ELSE now' + Adjusted(ns),
              turned    |-> FALSE,
              return_to |-> return_to]
  /\ pc' = "spin"

Clock == IF spin.timebase = 1 THEN Ticks(now) ELSE now

(* do ... while with RDTSC, while with clock_gettime()                     *)
SpinMore == Clock < spin.until \/ (spin.timebase = 1 /\ ~spin.turned)

SpinTurn_NoReading ==
  /\ pc = "spin" /\ SpinMore
  /\ UNCHANGED vars
SpinTurn ==
  /\ pc = "spin" /\ SpinMore
  /\ \E delay \in Delays :
       now' = now + delay + IF spin.timebase = 1 THEN RDTSC_NS ELSE GETTIME_NS
  /\ spin' = [spin EXCEPT !.turned = TRUE]
  /\ UNCHANGED <<costs, opt_timebase, pc, rounds, locals, history>>

SpinReturn ==
  /\ pc = "spin" /\ ~SpinMore
  /\ pc' = spin.return_to
  /\ spin' = NoSpin
  /\ UNCHANGED <<now, costs, opt_timebase, rounds, locals, history>>

(* "Let topic resolution complete": nothing is calibrated yet.             *)
Settle ==
  /\ pc = "settle"
  /\ SpinEnter(SETTLE_NS, 2, "gettime")
  /\ UNCHANGED <<costs, opt_timebase, rounds, locals, history>>
-----------------------------------------------------------------------------
(* jtr_calibrate() *)
TimeGettime ==
  /\ pc = "gettime"
  /\ \E delay \in Delays :
       LET diff_ns == CALLS * GETTIME_NS + delay IN
       /\ now' = 0
       /\ gettime_cost' = Least(PerCall(diff_ns), gettime_cost)
       /\ quiet' = [quiet EXCEPT !.gettime = @ \/ delay = 0]
  /\ pc' = "start"
  /\ UNCHANGED <<rdtsc_cost, loops_cost, ticks_per_sec, opt_timebase, rounds,
                 locals, spin, measured>>

StartReadings ==
  /\ pc = "start"
  /\ start_ticks' = Ticks(now + RDTSC_NS)
  /\ \E delay \in Delays :
       /\ now' = now + RDTSC_NS + delay + GETTIME_NS
       /\ quiet' = [quiet EXCEPT !.start = (delay = 0)]
  /\ start_ns' = now'
  /\ pc' = "sleep"
  /\ UNCHANGED <<costs, opt_timebase, rounds, spin, measured>>

Sleep ==
  /\ pc = "sleep"
  /\ SpinEnter(NANOS_PER_SEC \div 10, 2, "end")
  /\ UNCHANGED <<costs, opt_timebase, rounds, locals, history>>

EndReadings ==
  /\ pc = "end"
  /\ \E delay \in Delays :
       LET diff_ticks == Ticks(now + RDTSC_NS) - start_ticks
           diff_ns    == now + RDTSC_NS + delay + GETTIME_NS - start_ns
       IN
       /\ ticks_per_sec' =
            Least(Quotient(Wrap(diff_ticks * NANOS_PER_SEC), diff_ns),
                  ticks_per_sec)
       /\ quiet' = [quiet EXCEPT !.ticks = @ \/ (quiet.start /\ delay = 0),
                                 !.ends = @ /\ delay = 0]
  /\ now' = 0
  /\ pc' = "rdtsc"
  /\ start_ticks' = 0 /\ start_ns' = 0
  /\ UNCHANGED <<gettime_cost, rdtsc_cost, loops_cost, opt_timebase, rounds,
                 spin, measured>>

TimeRdtsc ==
  /\ pc = "rdtsc"
  /\ \E delay \in Delays :
       /\ rdtsc_cost' =
            Least(PerCall(ToNanos(Ticks(CALLS * RDTSC_NS + delay), ticks_per_sec)),
                  rdtsc_cost)
       /\ quiet' = [quiet EXCEPT !.rdtsc = @ \/ delay = 0]
  /\ pc' = "loop"
  /\ UNCHANGED <<now, gettime_cost, loops_cost, ticks_per_sec, opt_timebase,
                 rounds, locals, spin, measured>>

NextCalibration_OneMore ==
  pc' = IF rounds' <= CALIBRATIONS THEN "gettime" ELSE "measure"
NextCalibration ==
  pc' = IF rounds' < CALIBRATIONS THEN "gettime" ELSE "measure"

TimeLoop ==
  /\ pc = "loop"
  /\ \E delay \in Delays :
       LET ticks == Ticks(LOOPS_NS + RDTSC_NS + delay) IN
       loops_cost' = Least(ToNanos(ticks, ticks_per_sec) - rdtsc_cost, loops_cost)
  /\ rounds' = rounds + 1
  /\ NextCalibration
  /\ UNCHANGED <<now, gettime_cost, rdtsc_cost, ticks_per_sec, opt_timebase,
                 locals, spin, history>>
-----------------------------------------------------------------------------
(* jtr_measure_one(), up to its diff_ns, of a call that takes `took' ns,   *)
(* the delays in it included.                                              *)
DiffNanos(took) ==
  IF opt_timebase = 1
  THEN ToNanos(Ticks(took + RDTSC_NS), ticks_per_sec) - rdtsc_cost
  ELSE took + GETTIME_NS - gettime_cost

Measure ==
  /\ pc = "measure"
  /\ \E took \in CallTimes :
       measured' = [took |-> took, diff_ns |-> DiffNanos(took)]
  /\ pc' = "pause"
  /\ UNCHANGED <<now, costs, opt_timebase, rounds, locals, spin, quiet>>

(* External: usleep() gives the processor away for no less than it is told *)
Usleep(usec) ==
  \E delay \in Delays : now' = now + usec * NANOS_PER_USEC + delay

Pause ==
  /\ pc = "pause"
  /\ \E ns \in Pauses :
       \/ ns = 0 /\ pc' = "done" /\ UNCHANGED <<now, spin>>
       \/ ns > 0 /\ SpinEnter(ns, opt_timebase, "done")
       \/ ns < 0 /\ Usleep((-ns) \div NANOS_PER_USEC) /\ pc' = "done"
                 /\ UNCHANGED spin
  /\ UNCHANGED <<costs, opt_timebase, rounds, locals, history>>

Next ==
  \/ Settle \/ SpinTurn \/ SpinReturn
  \/ TimeGettime \/ StartReadings \/ Sleep \/ EndReadings
  \/ TimeRdtsc \/ TimeLoop \/ Measure \/ Pause

(* A delayed thread runs on in the end; nothing here waits for another.    *)
Spec == Init /\ [][Next]_vars /\ WF_vars(Next)
-----------------------------------------------------------------------------
(* The costs of a reading and the tick rate are never negative, and the    *)
(* calibration is done as often as main() asks for it (jtr.c:44-50).       *)
CalTypeOK ==
  /\ now \in Nat
  /\ gettime_cost \in 0..LLONG_MAX /\ rdtsc_cost \in 0..LLONG_MAX
  /\ ticks_per_sec \in 1..LLONG_MAX
  /\ loops_cost \in Int /\ loops_cost <= LLONG_MAX
  /\ opt_timebase \in {1, 2}
  /\ pc \in {"settle", "gettime", "start", "sleep", "spin", "end", "rdtsc",
             "loop", "measure", "pause", "done"}
  /\ rounds \in 0..CALIBRATIONS
  /\ start_ticks \in Nat /\ start_ns \in Nat
  /\ spin \in [asked : Nat, from : Nat, timebase : {1, 2}, until : Int,
               turned : BOOLEAN, return_to : {"gettime", "end", "done"}]
  /\ measured \in [took : Nat, diff_ns : Int]
  /\ quiet \in [gettime : BOOLEAN, start : BOOLEAN, ticks : BOOLEAN,
                ends : BOOLEAN, rdtsc : BOOLEAN]

(* The product of jtr.c:505 for a call of this length fits a long long.    *)
Convertible(took) == Ticks(took + RDTSC_NS) * NANOS_PER_SEC <= LLONG_MAX

(* If each timing was undisturbed once, be it in different calibrations,   *)
(* then no measured call comes out shorter than it was, and so none        *)
(* negative: whatever the delays of the other calibrations, the correction *)
(* never takes off more than a reading costs at the calibrated rate.  Only *)
(* a call too long to be converted from ticks may                          *)
(* (jtr.c:134-136, 178-182, 213-217, 505-506, 522-523).                    *)
MeasuresNoLessThanTheCall ==
  IF opt_timebase = 1
  THEN quiet.ticks /\ quiet.rdtsc /\ Convertible(measured.took)
       => measured.diff_ns >= measured.took
  ELSE quiet.gettime => measured.diff_ns >= measured.took

(* A sleep is not shorter than asked for: in the clock_gettime() timebase  *)
(* by no more than the one reading that the adjustment may take off too    *)
(* much, also before any calibration; in the RDTSC timebase unless the     *)
(* calibrated tick rate is too low or the sleep, in ticks per second, too  *)
(* long for a long long (jtr.c:94-131).                                    *)
SleepsLongEnough ==
  pc = "spin" /\ ~SpinMore =>
    /\ spin.timebase = 2 /\ (quiet.gettime \/ spin.return_to = "gettime")
       => now - spin.from + GETTIME_NS >= spin.asked
    /\ spin.timebase = 1 /\ quiet.ends
       /\ spin.asked * ticks_per_sec <= LLONG_MAX
       => now - spin.from >= spin.asked

(* A sleep overruns by less than two readings and their delays, the one    *)
(* that starts it and the last one, and by the 2 ns of an overflow in the  *)
(* sleep before any calibration; in the RDTSC timebase once a calibration  *)
(* was undisturbed (jtr.c:94-131).                                         *)
SleepsNotTooLong ==
  pc = "spin" /\ ~SpinMore =>
    /\ spin.timebase = 2 =>
         now - spin.from < spin.asked + 2 * (GETTIME_NS + MaxDelay)
                           + IF spin.return_to = "gettime" THEN 2 ELSE 0
    /\ spin.timebase = 1 /\ quiet.ticks =>
         now - spin.from < spin.asked + 2 * (RDTSC_NS + MaxDelay)

(* Calibration, measurement and every sleep come to their end, whatever    *)
(* the delays (jtr.c:112-130).                                             *)
CalibrationEnds == <>(pc = "done")

(* README.md:186-187, "ticks_per_sec ... Should be the same as the CPU     *)
(* clock frequency", with jtr.c:136, "This function is called 20 times,    *)
(* and the minimum times are kept": one undisturbed calibration is enough  *)
(* to find the frequency.  The least of the rates, unlike the least of the *)
(* times, is the most disturbed one.                                       *)
TicksPerSecIsClockFrequency ==
  quiet.ticks => ticks_per_sec = TICKS_PER_NS * NANOS_PER_SEC

(* jtr.c:467-468, "Use the calibration results to calculate how many times  *)
(* to busy loop to wait a desired number of ns": jtr_1000_loops_cost, by    *)
(* which jtr_busy_loop_wait_count() divides, is positive once every timing *)
(* was undisturbed in some calibration.  The cost of an RDTSC, delayed in  *)
(* an earlier one, has been subtracted by then and the result is kept: it  *)
(* is positive only if no delay is as long as the timed calls together.    *)
LoopsCostIsPositive ==
  rounds = CALIBRATIONS /\ quiet.ticks /\ quiet.rdtsc => loops_cost > 0
=============================================================================
