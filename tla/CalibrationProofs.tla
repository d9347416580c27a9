------------------------- MODULE CalibrationProofs -------------------------
(***************************************************************************)
(* Theorems about Calibration.tla, for every cost of the clocks, every     *)
(* tick rate, and all delays that DelayAssumption allows.                  *)
(***************************************************************************)
EXTENDS Calibration, ArithmeticLemmas

TrueRate == TICKS_PER_NS * NANOS_PER_SEC

(* Until the last calibration returns nothing has been measured.           *)
RoundsInv ==
  pc \in {"settle", "gettime", "start", "sleep", "end", "rdtsc", "loop"}
  \/ (pc = "spin" /\ spin.return_to # "done") =>
    /\ rounds < CALIBRATIONS
    /\ measured.took = 0 /\ measured.diff_ns = 0

(* An undisturbed timing of clock_gettime() bounds its cost, any timing    *)
(* keeps twice the cost within a long long.                                *)
GettimeInv ==
  /\ quiet.gettime => gettime_cost <= GETTIME_NS
  /\ pc = "settle" => gettime_cost = LLONG_MAX
  /\ pc \in {"start", "sleep"} => gettime_cost <= CALLS * GETTIME_NS + MaxDelay

(* Where the clocks stand between the two pairs of readings.               *)
Started ==
  /\ start_ticks = Ticks(RDTSC_NS)
  /\ start_ns >= RDTSC_NS + GETTIME_NS
  /\ start_ns <= RDTSC_NS + GETTIME_NS + MaxDelay
  /\ quiet.start => start_ns = RDTSC_NS + GETTIME_NS

SpanInv ==
  /\ pc = "start" => now = 0
  /\ pc = "sleep" => Started /\ now = start_ns
  /\ pc = "spin" /\ spin.return_to = "end" =>
       /\ Started
       /\ spin.timebase = 2
       /\ now >= start_ns + GETTIME_NS
       /\ now <= spin.until + GETTIME_NS + MaxDelay
       /\ spin.until <= start_ns + GETTIME_NS + MaxDelay + NANOS_PER_SEC \div 10
  /\ pc = "end" =>
       Started /\ now >= start_ns + GETTIME_NS /\ now <= LongestSleep

(* The least rate is at most that of an undisturbed calibration, and at    *)
(* least the true one if no pair of end readings was disturbed.            *)
RateInv ==
  /\ quiet.ticks => ticks_per_sec <= TrueRate
  /\ quiet.ends => ticks_per_sec >= TrueRate

(* The cost of an undisturbed RDTSC, at a rate no lower than today's.      *)
RdtscInv ==
  quiet.rdtsc =>
    rdtsc_cost <= PerCall((CALLS * RDTSC_NS * TrueRate) \div ticks_per_sec)

(* How far a sleep has to go, from where it was entered.                   *)
SpinInv ==
  pc = "spin" =>
    /\ spin.timebase = 2 /\ (quiet.gettime \/ spin.return_to = "gettime")
       => spin.until + GETTIME_NS >= spin.from + spin.asked
    /\ spin.timebase = 1 => spin.return_to = "done"
    /\ spin.timebase = 1 /\ quiet.ends
       /\ spin.asked * ticks_per_sec <= LLONG_MAX
       => spin.until >= Ticks(spin.from) + Ticks(spin.asked)

CalInv ==
  /\ CalTypeOK /\ RoundsInv /\ GettimeInv /\ SpanInv
  /\ RateInv /\ RdtscInv /\ SpinInv /\ MeasuresNoLessThanTheCall
-----------------------------------------------------------------------------
(* A product that fits a long long is kept, and one that does not comes    *)
(* out no greater.                                                         *)
LEMMA WrapInt ==
  ASSUME NEW n \in Int
  PROVE  Wrap(n) \in Int
BY CalAssumption DEF Wrap

LEMMA WrapFits ==
  ASSUME NEW n \in 0..LLONG_MAX
  PROVE  Wrap(n) = n
<1> DEFINE m == 2 * (LLONG_MAX + 1)
<1>1. m \in Nat \ {0} /\ n + LLONG_MAX + 1 \in 0..(m - 1)
  BY CalAssumption
<1>2. (n + LLONG_MAX + 1) % m = n + LLONG_MAX + 1
  BY <1>1, ModSmall
<1>3. QED
  BY <1>2, CalAssumption DEF Wrap

LEMMA WrapBelow ==
  ASSUME NEW n \in Nat
  PROVE  Wrap(n) \in Int /\ Wrap(n) <= n
<1> DEFINE m == 2 * (LLONG_MAX + 1)
           k == n + LLONG_MAX + 1
<1>1. m \in Nat \ {0} /\ k \in Nat
  BY CalAssumption
<1>2. k % m \in Nat /\ k % m <= k
  <2> HIDE DEF m, k
  <2>1. QED
    BY <1>1, ModBelow
<1>3. QED
  BY <1>2, CalAssumption DEF Wrap

(* Twice the jtr_gettime_cost before any calibration overflows to -2       *)
(* (jtr.c:119).                                                            *)
LEMMA WrapInitialCost == Wrap(2 * LLONG_MAX) = -2
<1> DEFINE m == 2 * (LLONG_MAX + 1)
           k == 2 * LLONG_MAX + LLONG_MAX + 1
           r == LLONG_MAX - 1
<1>1. m \in Nat \ {0} /\ k = m * 1 + r /\ r \in 0..(m - 1)
  BY CalAssumption
<1>2. k % m = r
  <2> HIDE DEF m, k, r
  <2>1. QED
    BY <1>1, ModUnique
<1>3. QED
  BY <1>1, <1>2, CalAssumption DEF Wrap

LEMMA QuotientMonotone ==
  ASSUME NEW d \in Nat \ {0}, NEW n \in Int, NEW k \in Int, n <= k
  PROVE  n \div d <= k \div d
<1> DEFINE q == n \div d
<1>1. q \in Int /\ d * q <= n
  BY QuotientBounds
<1> HIDE DEF q
<1>2. d * q \in Int /\ d * q <= k
  BY <1>1
<1>3. QED
  BY <1>1, <1>2, QuotientAtLeast DEF q

(* Division of long longs: as \div where nothing has wrapped, and bounded  *)
(* from above like it where something has.                                 *)
LEMMA QuotientOfNat ==
  ASSUME NEW a \in Nat, NEW b \in Nat \ {0}
  PROVE  Quotient(a, b) = a \div b
BY DEF Quotient

LEMMA QuotientInt ==
  ASSUME NEW a \in Int, NEW b \in Nat \ {0}
  PROVE  Quotient(a, b) \in Int
<1>1. a \div b \in Int /\ (-a) \div b \in Int
  BY QuotientBounds
<1>2. QED
  BY <1>1 DEF Quotient

LEMMA QuotientBelow ==
  ASSUME NEW a \in Int, NEW n \in Nat, NEW b \in Nat \ {0}, a <= n
  PROVE  Quotient(a, b) <= n \div b
<1>1. n \div b \in Nat
  BY QuotientNat
<1>2. CASE a < 0
  <2>1. (-a) \div b \in Nat
    BY <1>2, QuotientNat
  <2>2. QED
    BY <1>1, <1>2, <2>1 DEF Quotient
<1>3. CASE ~(a < 0)
  <2>1. a \in Nat /\ Quotient(a, b) = a \div b
    BY <1>3 DEF Quotient
  <2>2. a \div b <= n \div b
    BY <2>1, QuotientMonotone
  <2>3. QED
    BY <2>1, <2>2
<1>4. QED
  BY <1>2, <1>3

(* A lower rate gives a longer time.                                       *)
LEMMA LowerRate ==
  ASSUME NEW n \in Nat, NEW s \in Nat \ {0}, NEW t \in Nat \ {0}, t <= s
  PROVE  n \div s <= n \div t
<1> DEFINE q == n \div s
<1>1. q \in Nat /\ s * q <= n
  BY QuotientBounds, QuotientNat
<1> HIDE DEF q
<1>2. t * q <= s * q
  BY <1>1
<1>3. t * q <= n /\ t * q \in Int /\ s * q \in Int
  BY <1>1, <1>2
<1>4. q <= n \div t
  BY <1>1, <1>3, QuotientAtLeast
<1>5. QED
  BY <1>4 DEF q
-----------------------------------------------------------------------------
(* jtr_spin_sleep_ns() shortens its sleep by at most two readings, and     *)
(* never lengthens it once clock_gettime() has been timed (jtr.c:118-120). *)
LEMMA AdjustedNat ==
  ASSUME NEW ns \in Nat, gettime_cost \in 0..LLONG_MAX
  PROVE  Adjusted(ns) \in Nat
<1>1. Wrap(2 * gettime_cost) \in Int
  BY WrapInt, CalAssumption
<1>2. QED
  BY <1>1 DEF Adjusted

LEMMA AdjustedNotShort ==
  ASSUME NEW ns \in Nat, gettime_cost \in 0..LLONG_MAX,
         gettime_cost <= GETTIME_NS \/ gettime_cost = LLONG_MAX
  PROVE  Adjusted(ns) + 2 * GETTIME_NS >= ns
<1>1. Wrap(2 * gettime_cost) \in Int
      /\ Wrap(2 * gettime_cost) <= 2 * GETTIME_NS
  <2>1. CASE gettime_cost <= GETTIME_NS
    <3>1. 2 * gettime_cost \in Nat /\ 2 * gettime_cost <= 2 * GETTIME_NS
      BY <2>1, CalAssumption
    <3>2. QED
      BY <3>1, WrapBelow, CalAssumption
  <2>2. CASE gettime_cost = LLONG_MAX
    BY <2>2, WrapInitialCost, CalAssumption
  <2>3. QED
    BY <2>1, <2>2
<1>2. QED
  BY <1>1, CalAssumption DEF Adjusted

LEMMA AdjustedNotLong ==
  ASSUME NEW ns \in Nat, gettime_cost \in 0..LLONG_MAX,
         gettime_cost <= CALLS * GETTIME_NS + MaxDelay
  PROVE  Adjusted(ns) <= ns
<1>1. CALLS * GETTIME_NS \in Nat
  BY CalAssumption
<1>2. 2 * gettime_cost \in 0..LLONG_MAX
  BY <1>1, CalAssumption, DelayAssumption
<1>3. Wrap(2 * gettime_cost) = 2 * gettime_cost
  BY <1>2, WrapFits
<1>4. QED
  BY <1>2, <1>3 DEF Adjusted

(* The tick rate of one calibration: `slept' ns of ticks over `timed' ns   *)
(* of clock_gettime() (jtr.c:194).                                         *)
LEMMA RateOfSleep ==
  ASSUME NEW slept \in 1..LongestSleep, NEW timed \in Nat \ {0},
         timed <= slept + MaxDelay
  PROVE  LET rate == Quotient(Wrap((slept * TICKS_PER_NS) * NANOS_PER_SEC), timed) IN
         /\ rate \in Int /\ rate >= 1
         /\ timed <= slept => rate >= TrueRate
         /\ timed = slept => rate = TrueRate
<1> DEFINE P == (slept * TICKS_PER_NS) * NANOS_PER_SEC
<1>0. NANOS_PER_SEC \div 10 \in Nat
  BY CalAssumption, QuotientNat
<1>1. TrueRate \in Nat \ {0} /\ P \in Nat /\ P = slept * TrueRate
      /\ LongestSleep \in Nat
  <2>1. LongestSleep \in Nat
    BY <1>0, CalAssumption DEF LongestSleep
  <2>2. TICKS_PER_NS \in Nat \ {0} /\ NANOS_PER_SEC \in Nat \ {0}
        /\ slept \in Nat
    BY <2>1, CalAssumption
  <2>3. QED
    BY <2>1, <2>2 DEF TrueRate
<1>2. P <= LLONG_MAX
  <2> DEFINE B == (LongestSleep * TICKS_PER_NS) * NANOS_PER_SEC
  <2>1. B = LongestSleep * TrueRate
    BY <1>1, CalAssumption DEF TrueRate
  <2>2. slept * TrueRate <= LongestSleep * TrueRate
    BY <1>1
  <2>3. B <= LLONG_MAX
    BY DelayAssumption
  <2> HIDE DEF B, P
  <2>4. QED
    BY <1>1, <2>1, <2>2, <2>3, CalAssumption
<1>3. Wrap(P) = P
  BY <1>1, <1>2, WrapFits, CalAssumption
<1>4. TrueRate >= NANOS_PER_SEC
  BY CalAssumption DEF TrueRate
<1> HIDE DEF P
<1> USE DEF TrueRate
<1>5. timed <= P
  <2> HIDE DEF TrueRate
  <2>1. slept * TrueRate >= slept * NANOS_PER_SEC
    BY <1>1, <1>4, CalAssumption
  <2>2. slept * (NANOS_PER_SEC - 1) >= NANOS_PER_SEC - 1
    BY <1>1, CalAssumption
  <2>3. slept * NANOS_PER_SEC = slept * (NANOS_PER_SEC - 1) + slept
    BY <1>1, CalAssumption
  <2>4. NANOS_PER_SEC - 1 >= MaxDelay
    BY CalAssumption, DelayAssumption
  <2>5. QED
    BY <1>1, <2>1, <2>2, <2>3, <2>4, CalAssumption
<1> HIDE DEF TrueRate
<1>6. P \div timed \in Int /\ P \div timed >= 1
  BY <1>1, <1>5, QuotientBounds, QuotientAtLeast
<1>7. ASSUME timed <= slept PROVE P \div timed >= TrueRate
  <2>1. timed * TrueRate <= slept * TrueRate
    BY <1>1, <1>7
  <2>2. QED
    BY <1>1, <2>1, QuotientAtLeast
<1>8. ASSUME timed = slept PROVE P \div timed <= TrueRate
  BY <1>1, <1>8, QuotientAtMost
<1>9. Quotient(Wrap(P), timed) = P \div timed
  BY <1>1, <1>3, QuotientOfNat
<1>10. QED
  BY <1>1, <1>6, <1>7, <1>8, <1>9 DEF P

(* The correction for the measurement never exceeds a reading of RDTSC.    *)
LEMMA CorrectedMeasurement ==
  ASSUME NEW took \in Nat, NEW cost \in Nat, NEW rate \in Nat \ {0},
         rate <= TrueRate,
         cost <= PerCall((CALLS * RDTSC_NS * TrueRate) \div rate)
  PROVE  ((took + RDTSC_NS) * TrueRate) \div rate - cost >= took
<1> DEFINE ticks == CALLS * RDTSC_NS * TrueRate
           q == ticks \div rate
           n == CALLS + 1
<1>1. TrueRate \in Nat /\ ticks \in Nat /\ n \in Nat \ {0} /\ RDTSC_NS \in Nat
  BY CalAssumption DEF TrueRate
<1>2. ticks <= n * (RDTSC_NS * TrueRate)
  BY <1>1, CalAssumption
<1> HIDE DEF ticks, n
<1>3. q \in Nat /\ rate * q <= ticks
  BY <1>1, QuotientBounds, QuotientNat
<1>4. cost <= q \div n /\ n * (q \div n) <= q /\ q \div n \in Nat
  BY <1>1, <1>3, QuotientBounds, QuotientNat DEF PerCall, ticks, n
<1> HIDE DEF q
<1>5. n * cost <= q
  <2> DEFINE k == q \div n
  <2>1. k \in Nat /\ cost <= k /\ n * k <= q
    BY <1>4
  <2> HIDE DEF k
  <2>2. n * cost <= n * k
    BY <1>1, <2>1
  <2>3. QED
    BY <1>1, <1>3, <2>1, <2>2
<1>6. rate * (n * cost) <= rate * q
  BY <1>1, <1>3, <1>5
<1>7. n * (rate * cost) <= n * (RDTSC_NS * TrueRate)
  <2>1. rate * (n * cost) = n * (rate * cost)
    BY <1>1
  <2>2. rate * (n * cost) \in Nat /\ rate * q \in Nat
        /\ n * (RDTSC_NS * TrueRate) \in Nat
    BY <1>1, <1>3
  <2>3. QED
    BY <1>1, <1>2, <1>3, <1>6, <2>1, <2>2
<1>8. rate * cost <= RDTSC_NS * TrueRate
  <2> DEFINE a == rate * cost
             b == RDTSC_NS * TrueRate
  <2>1. a \in Nat /\ b \in Nat /\ n * a <= n * b
    BY <1>1, <1>7
  <2> HIDE DEF a, b
  <2>2. a <= b
    BY <1>1, <2>1
  <2>3. QED
    BY <2>2 DEF a, b
<1>9. rate * took <= took * TrueRate
  BY <1>1
<1>10. rate * (took + cost) <= (took + RDTSC_NS) * TrueRate
       /\ (took + RDTSC_NS) * TrueRate \in Nat
  <2>1. rate * (took + cost) = rate * took + rate * cost
    OBVIOUS
  <2>2. (took + RDTSC_NS) * TrueRate = took * TrueRate + RDTSC_NS * TrueRate
    BY <1>1
  <2>3. rate * took \in Nat /\ rate * cost \in Nat /\ took * TrueRate \in Nat
        /\ RDTSC_NS * TrueRate \in Nat
    BY <1>1
  <2>4. QED
    BY <1>8, <1>9, <2>1, <2>2, <2>3
<1>11. took + cost <= ((took + RDTSC_NS) * TrueRate) \div rate
  BY <1>10, QuotientAtLeast
<1>12. QED
  BY <1>10, <1>11, QuotientBounds
-----------------------------------------------------------------------------
Spins == [asked : Nat, from : Nat, timebase : {1, 2}, until : Int,
          turned : BOOLEAN, return_to : {"gettime", "end", "done"}]
Quiets == [gettime : BOOLEAN, start : BOOLEAN, ticks : BOOLEAN,
           ends : BOOLEAN, rdtsc : BOOLEAN]

LEMMA InitCalInv == Init => CalInv
<1> SUFFICES ASSUME Init PROVE CalInv
  OBVIOUS
<1>1. spin \in Spins
  BY DEF Init, NoSpin, Spins
<1>2. quiet \in Quiets
  BY Zenon DEF Init, Quiets
<1>3. quiet.gettime = FALSE /\ quiet.ticks = FALSE /\ quiet.rdtsc = FALSE
  BY Zenon DEF Init
<1>4. measured \in [took : Nat, diff_ns : Int]
      /\ measured.took = 0 /\ measured.diff_ns = 0
  BY DEF Init
<1>5. TrueRate <= LLONG_MAX
  <2>0. NANOS_PER_SEC \div 10 \in Nat
    BY CalAssumption, QuotientNat
  <2>1. TrueRate \in Nat /\ LongestSleep \in Nat /\ LongestSleep >= 1
    BY <2>0, CalAssumption DEF TrueRate, LongestSleep
  <2>2. (LongestSleep * TICKS_PER_NS) * NANOS_PER_SEC = LongestSleep * TrueRate
    BY <2>1, CalAssumption DEF TrueRate
  <2>3. LongestSleep * TrueRate >= TrueRate
    BY <2>1
  <2>4. QED
    BY <2>1, <2>2, <2>3, DelayAssumption, CalAssumption
<1>6. CalTypeOK
  <2>1. spin \in Spins /\ quiet \in Quiets
    BY <1>1, <1>2
  <2>2. QED
    BY <2>1, <1>4, CalAssumption DEF Init, CalTypeOK, Spins, Quiets
<1>7. RoundsInv /\ SpanInv /\ SpinInv
  BY <1>4, CalAssumption DEF Init, RoundsInv, SpanInv, SpinInv
<1>8. GettimeInv /\ RateInv /\ RdtscInv
  BY <1>3, <1>5, CalAssumption DEF Init, GettimeInv, RateInv, RdtscInv
<1>9. MeasuresNoLessThanTheCall
  BY <1>4 DEF MeasuresNoLessThanTheCall
<1>10. QED
  BY <1>6, <1>7, <1>8, <1>9 DEF CalInv

(* The ticks of a sleep last as long as asked for, unless the rate is too  *)
(* low (jtr.c:114).                                                        *)
LEMMA TicksForNotShort ==
  ASSUME NEW ns \in Nat, ticks_per_sec \in Nat, ticks_per_sec >= TrueRate,
         ns * ticks_per_sec <= LLONG_MAX
  PROVE  TicksFor(ns) >= Ticks(ns)
<1>1. TrueRate \in Nat /\ Ticks(ns) \in Nat
      /\ ns * TrueRate = NANOS_PER_SEC * Ticks(ns)
  BY CalAssumption DEF TrueRate, Ticks
<1>2. ns * TrueRate <= ns * ticks_per_sec /\ ns * ticks_per_sec \in Nat
  BY <1>1
<1>3. TicksFor(ns) = (ns * ticks_per_sec) \div NANOS_PER_SEC
  <2>1. Wrap(ns * ticks_per_sec) = ns * ticks_per_sec
    BY <1>2, WrapFits, CalAssumption
  <2>2. QED
    BY <1>2, <2>1, QuotientOfNat, CalAssumption DEF TicksFor
<1>4. Ticks(ns) <= (ns * ticks_per_sec) \div NANOS_PER_SEC
  BY <1>1, <1>2, QuotientAtLeast, CalAssumption
<1>5. QED
  BY <1>3, <1>4

LEMMA TicksNat ==
  ASSUME NEW t \in Nat
  PROVE  Ticks(t) \in Nat
BY CalAssumption DEF Ticks

LEMMA TicksMonotone ==
  ASSUME NEW t \in Nat, NEW u \in Nat, t <= u
  PROVE  Ticks(t) <= Ticks(u)
BY CalAssumption DEF Ticks

LEMMA SpinEntered ==
  ASSUME CalTypeOK, NEW ns \in Nat, NEW timebase \in {1, 2},
         NEW return_to \in {"gettime", "end", "done"},
         SpinEnter(ns, timebase, return_to)
  PROVE  /\ now' \in Nat /\ now' >= now
         /\ pc' = "spin" /\ spin' \in Spins
         /\ spin'.asked = ns /\ spin'.from = now
         /\ spin'.timebase = timebase /\ spin'.return_to = return_to
         /\ timebase = 2 => /\ now' >= now + GETTIME_NS
                            /\ now' <= now + GETTIME_NS + MaxDelay
                            /\ spin'.until = now' + Adjusted(ns)
         /\ timebase = 1 => /\ now' <= now + RDTSC_NS + MaxDelay
                            /\ spin'.until = Ticks(now') + TicksFor(ns)
         /\ spin'.turned = FALSE
<1>1. PICK delay \in Delays :
        now' = now + delay + IF timebase = 1 THEN RDTSC_NS ELSE GETTIME_NS
  BY DEF SpinEnter
<1>2. /\ now' \in Nat /\ now' >= now
      /\ timebase = 2 => /\ now' >= now + GETTIME_NS
                         /\ now' <= now + GETTIME_NS + MaxDelay
      /\ timebase = 1 => now' <= now + RDTSC_NS + MaxDelay
  BY <1>1, CalAssumption DEF CalTypeOK
<1>3. Adjusted(ns) \in Nat
  BY AdjustedNat DEF CalTypeOK
<1>4. TicksFor(ns) \in Int
  <2>1. ns * ticks_per_sec \in Int
    BY DEF CalTypeOK
  <2>2. Wrap(ns * ticks_per_sec) \in Int
    BY <2>1, WrapInt
  <2>3. QED
    BY <2>2, QuotientInt, CalAssumption DEF TicksFor
<1> DEFINE u == IF timebase = 1 THEN Ticks(now') + TicksFor(ns)
                ELSE now' + Adjusted(ns)
<1>5. u \in Int
  <2>1. Ticks(now') \in Int
    BY <1>2, TicksNat
  <2>2. CASE timebase = 1
    <3>1. u = Ticks(now') + TicksFor(ns)
      BY <2>2
    <3> HIDE DEF u
    <3>2. QED
      BY <1>4, <2>1, <3>1
  <2>3. CASE timebase = 2
    <3>1. u = now' + Adjusted(ns)
      BY <2>3
    <3> HIDE DEF u
    <3>2. QED
      BY <1>2, <1>3, <3>1
  <2>4. QED
    BY <2>2, <2>3
<1>6. spin' = [asked |-> ns, from |-> now, timebase |-> timebase, until |-> u,
               turned |-> FALSE, return_to |-> return_to]
      /\ pc' = "spin"
  BY DEF SpinEnter
<1>7. spin'.until = u
  BY <1>6
<1>8. timebase = 2 => u = now' + Adjusted(ns)
  OBVIOUS
<1>9. timebase = 1 => u = Ticks(now') + TicksFor(ns)
  OBVIOUS
<1> HIDE DEF u
<1>10. spin' \in Spins
  <2>1. now \in Nat
    BY DEF CalTypeOK
  <2>2. QED
    BY <1>5, <1>6, <2>1 DEF Spins
<1>11. spin'.asked = ns /\ spin'.from = now /\ spin'.timebase = timebase
       /\ spin'.return_to = return_to /\ spin'.turned = FALSE
  BY <1>6
<1>12. pc' = "spin"
  BY <1>6
<1>13. timebase = 1 => spin'.until = Ticks(now') + TicksFor(ns)
  BY <1>7, <1>9
<1>14. timebase = 2 => spin'.until = now' + Adjusted(ns)
  BY <1>7, <1>8
<1>15. QED
  BY <1>2, <1>10, <1>11, <1>12, <1>13, <1>14
-----------------------------------------------------------------------------
(* A step that leaves the costs, the history and the rounds alone.         *)
LEMMA CostsKept ==
  ASSUME CalInv, UNCHANGED <<costs, opt_timebase, history>>
  PROVE  /\ RateInv' /\ RdtscInv' /\ MeasuresNoLessThanTheCall'
         /\ (quiet.gettime => gettime_cost <= GETTIME_NS)'
<1>1. RateInv' /\ RdtscInv'
  BY DEF CalInv, RateInv, RdtscInv, costs, history
<1>2. MeasuresNoLessThanTheCall'
  BY DEF CalInv, MeasuresNoLessThanTheCall, Convertible, costs, history
<1>3. QED
  BY <1>1, <1>2 DEF CalInv, GettimeInv, costs, history

LEMMA SettleInv ==
  ASSUME CalInv, Settle
  PROVE  CalInv'
<1>1. CalTypeOK /\ gettime_cost = LLONG_MAX /\ SETTLE_NS \in Nat
      /\ pc = "settle"
  BY CalAssumption DEF CalInv, GettimeInv, Settle
<1>2. SpinEnter(SETTLE_NS, 2, "gettime")
      /\ UNCHANGED <<costs, opt_timebase, history>> /\ UNCHANGED rounds
      /\ UNCHANGED locals
  BY DEF Settle
<1>3. /\ now' \in Nat /\ now' >= now + GETTIME_NS
      /\ pc' = "spin" /\ spin' \in Spins
      /\ spin'.asked = SETTLE_NS /\ spin'.from = now
      /\ spin'.timebase = 2 /\ spin'.return_to = "gettime"
      /\ spin'.until = now' + Adjusted(SETTLE_NS)
  BY <1>1, <1>2, SpinEntered
<1>4. CalTypeOK'
  <2>1. spin' \in Spins
    BY <1>3
  <2>2. QED
    BY <1>1, <1>2, <1>3, <2>1
       DEF CalTypeOK, Spins, costs, history, locals
<1>5. RoundsInv' /\ GettimeInv' /\ SpanInv'
  BY <1>1, <1>2, <1>3, CostsKept
     DEF CalInv, RoundsInv, GettimeInv, SpanInv, costs, history
<1>6. SpinInv'
  <2>1. Adjusted(SETTLE_NS) + 2 * GETTIME_NS >= SETTLE_NS
        /\ Adjusted(SETTLE_NS) \in Nat
    BY <1>1, AdjustedNotShort, AdjustedNat DEF CalTypeOK
  <2>2. spin'.until + GETTIME_NS >= spin'.from + spin'.asked
    BY <1>1, <1>3, <2>1, CalAssumption DEF CalTypeOK
  <2>3. QED
    BY <1>3, <2>2 DEF SpinInv
<1>7. QED
  BY <1>2, <1>4, <1>5, <1>6, CostsKept DEF CalInv

LEMMA SleepInv ==
  ASSUME CalInv, Sleep
  PROVE  CalInv'
<1> DEFINE tenth == NANOS_PER_SEC \div 10
<1>0. tenth \in Nat
  BY CalAssumption, QuotientNat
<1>1. CalTypeOK /\ gettime_cost <= CALLS * GETTIME_NS + MaxDelay
      /\ pc = "sleep" /\ Started /\ now = start_ns
  BY DEF CalInv, GettimeInv, SpanInv, Sleep
<1>2. SpinEnter(tenth, 2, "end")
      /\ UNCHANGED <<costs, opt_timebase, history>> /\ UNCHANGED rounds
      /\ UNCHANGED locals
  BY DEF Sleep
<1> HIDE DEF tenth
<1>3. /\ now' \in Nat /\ now' >= now + GETTIME_NS
      /\ now' <= now + GETTIME_NS + MaxDelay
      /\ pc' = "spin" /\ spin' \in Spins
      /\ spin'.asked = tenth /\ spin'.from = now
      /\ spin'.timebase = 2 /\ spin'.return_to = "end"
      /\ spin'.until = now' + Adjusted(tenth)
  BY <1>0, <1>1, <1>2, SpinEntered
<1>4. CalTypeOK'
  <2>1. spin' \in Spins
    BY <1>3
  <2>2. QED
    BY <1>1, <1>2, <1>3, <2>1
       DEF CalTypeOK, Spins, costs, history, locals
<1>5. Adjusted(tenth) \in Nat /\ Adjusted(tenth) <= tenth
  BY <1>0, <1>1, AdjustedNat, AdjustedNotLong DEF CalTypeOK
<1>6. RoundsInv' /\ GettimeInv'
  BY <1>1, <1>2, <1>3, CostsKept
     DEF CalInv, RoundsInv, GettimeInv, costs, history
<1>7. SpanInv'
  <2>1. Started'
    BY <1>1, <1>2 DEF Started, locals, history
  <2>2. /\ now' >= start_ns' + GETTIME_NS
        /\ now' <= spin'.until + GETTIME_NS + MaxDelay
        /\ spin'.until <= start_ns' + GETTIME_NS + MaxDelay + tenth
    BY <1>0, <1>1, <1>2, <1>3, <1>5, CalAssumption DEF CalTypeOK, locals
  <2>3. QED
    BY <1>3, <2>1, <2>2 DEF SpanInv, tenth
<1>8. SpinInv'
  <2>1. ASSUME quiet'.gettime
        PROVE  spin'.until + GETTIME_NS >= spin'.from + spin'.asked
    <3>1. gettime_cost <= GETTIME_NS
      BY <1>2, <2>1 DEF CalInv, GettimeInv, history
    <3>2. Adjusted(tenth) + 2 * GETTIME_NS >= tenth
      BY <1>0, <1>1, <3>1, AdjustedNotShort DEF CalTypeOK
    <3>3. QED
      BY <1>0, <1>1, <1>3, <1>5, <3>2, CalAssumption DEF CalTypeOK
  <2>2. QED
    BY <1>3, <2>1 DEF SpinInv
<1>9. QED
  BY <1>2, <1>4, <1>6, <1>7, <1>8, CostsKept DEF CalInv

LEMMA PauseInv ==
  ASSUME CalInv, Pause
  PROVE  CalInv'
<1>1. PICK ns \in Pauses :
        \/ ns = 0 /\ pc' = "done" /\ UNCHANGED <<now, spin>>
        \/ ns > 0 /\ SpinEnter(ns, opt_timebase, "done")
        \/ ns < 0 /\ Usleep((-ns) \div NANOS_PER_USEC) /\ pc' = "done"
                  /\ UNCHANGED spin
  BY DEF Pause
<1>2. CalTypeOK /\ ns \in Int /\ pc = "pause"
      /\ UNCHANGED <<costs, opt_timebase, history>> /\ UNCHANGED rounds
      /\ UNCHANGED locals
  BY CalAssumption DEF CalInv, Pause
<1>3. CASE pc' = "done" /\ UNCHANGED spin /\ now' \in Nat
  <2>1. CalTypeOK'
    BY <1>2, <1>3 DEF CalTypeOK, costs, history, locals
  <2>2. RoundsInv' /\ GettimeInv' /\ SpanInv' /\ SpinInv'
    BY <1>2, <1>3, CostsKept
       DEF RoundsInv, GettimeInv, SpanInv, SpinInv
  <2>3. QED
    BY <1>2, <2>1, <2>2, CostsKept DEF CalInv
<1>4. CASE ns = 0 /\ pc' = "done" /\ UNCHANGED <<now, spin>>
  BY <1>2, <1>3, <1>4 DEF CalTypeOK
<1>5. CASE ns < 0 /\ Usleep((-ns) \div NANOS_PER_USEC) /\ pc' = "done"
           /\ UNCHANGED spin
  <2> DEFINE usec == (-ns) \div NANOS_PER_USEC
  <2>1. usec \in Nat
    BY <1>2, <1>5, QuotientNat, CalAssumption
  <2>2. PICK delay \in Delays : now' = now + usec * NANOS_PER_USEC + delay
    BY <1>5 DEF Usleep
  <2> HIDE DEF usec
  <2>3. usec * NANOS_PER_USEC \in Nat /\ delay \in Nat /\ now \in Nat
    BY <1>2, <2>1, CalAssumption DEF CalTypeOK
  <2>4. now' \in Nat
    BY <2>2, <2>3
  <2>5. QED
    BY <1>3, <1>5, <2>4
<1>6. CASE ns > 0 /\ SpinEnter(ns, opt_timebase, "done")
  <2>0. opt_timebase \in {1, 2} /\ ns \in Nat
    BY <1>2, <1>6 DEF CalTypeOK
  <2>1. /\ now' \in Nat /\ now' >= now
        /\ pc' = "spin" /\ spin' \in Spins
        /\ spin'.asked = ns /\ spin'.from = now
        /\ spin'.timebase = opt_timebase /\ spin'.return_to = "done"
        /\ opt_timebase = 2 => /\ now' >= now + GETTIME_NS
                               /\ spin'.until = now' + Adjusted(ns)
        /\ opt_timebase = 1 => spin'.until = Ticks(now') + TicksFor(ns)
    BY <1>2, <1>6, <2>0, SpinEntered
  <2>2. CalTypeOK'
    <3>1. spin' \in Spins
      BY <2>1
    <3>2. QED
      BY <1>2, <2>1, <3>1 DEF CalTypeOK, Spins, costs, history, locals
  <2>3. RoundsInv' /\ GettimeInv' /\ SpanInv'
    BY <1>2, <2>1, CostsKept DEF RoundsInv, GettimeInv, SpanInv
  <2>4. ASSUME opt_timebase = 2, quiet'.gettime
        PROVE  spin'.until + GETTIME_NS >= spin'.from + spin'.asked
    <3>1. gettime_cost <= GETTIME_NS
      BY <1>2, <2>4 DEF CalInv, GettimeInv, history
    <3>2. Adjusted(ns) + 2 * GETTIME_NS >= ns /\ Adjusted(ns) \in Nat
      BY <1>2, <2>0, <3>1, AdjustedNotShort, AdjustedNat DEF CalTypeOK
    <3>3. QED
      BY <1>2, <2>0, <2>1, <2>4, <3>2, CalAssumption DEF CalTypeOK
  <2>5. ASSUME opt_timebase = 1, quiet'.ends,
               spin'.asked * ticks_per_sec' <= LLONG_MAX
        PROVE  spin'.until >= Ticks(spin'.from) + Ticks(spin'.asked)
    <3>1. ticks_per_sec >= TrueRate /\ ticks_per_sec \in Nat
          /\ ns * ticks_per_sec <= LLONG_MAX
      BY <1>2, <2>1, <2>5, CalAssumption
         DEF CalInv, RateInv, history, costs, CalTypeOK
    <3>2. TicksFor(ns) >= Ticks(ns)
      BY <2>0, <3>1, TicksForNotShort
    <3>3. Ticks(now') >= Ticks(now)
      BY <1>2, <2>1, TicksMonotone DEF CalTypeOK
    <3>4. Ticks(now') \in Nat /\ Ticks(now) \in Nat /\ Ticks(ns) \in Nat
          /\ TicksFor(ns) \in Int
      <4>1. Wrap(ns * ticks_per_sec) \in Int
        BY <2>0, <3>1, WrapInt
      <4>2. TicksFor(ns) \in Int
        BY <4>1, QuotientInt, CalAssumption DEF TicksFor
      <4>3. QED
        BY <1>2, <2>0, <2>1, <4>2, TicksNat DEF CalTypeOK
    <3>5. QED
      BY <2>1, <2>5, <3>2, <3>3, <3>4
  <2>6. SpinInv'
    BY <1>2, <2>1, <2>4, <2>5 DEF SpinInv
  <2>7. QED
    BY <1>2, <2>2, <2>3, <2>6, CostsKept DEF CalInv
<1>7. QED
  BY <1>1, <1>4, <1>5, <1>6

LEMMA SpinTurnInv ==
  ASSUME CalInv, SpinTurn
  PROVE  CalInv'
<1>1. CalTypeOK /\ pc = "spin" /\ pc' = "spin" /\ SpinMore
      /\ spin' = [spin EXCEPT !.turned = TRUE] /\ spin \in Spins
      /\ UNCHANGED <<costs, opt_timebase, history>> /\ UNCHANGED rounds
      /\ UNCHANGED locals
  <2>1. UNCHANGED <<costs, opt_timebase, history>> /\ UNCHANGED rounds
        /\ UNCHANGED locals /\ UNCHANGED pc
    BY DEF SpinTurn
  <2>2. CalTypeOK /\ spin \in Spins
    BY DEF CalInv, CalTypeOK, Spins
  <2>3. QED
    BY <2>1, <2>2 DEF SpinTurn
<1>2. PICK delay \in Delays :
        now' = now + delay + IF spin.timebase = 1 THEN RDTSC_NS ELSE GETTIME_NS
  BY DEF SpinTurn
<1>3. /\ now' \in Nat /\ now' >= now
      /\ spin.timebase = 2 => now' <= now + GETTIME_NS + MaxDelay
  BY <1>1, <1>2, CalAssumption DEF CalTypeOK
<1>4. /\ spin' \in Spins
      /\ spin'.asked = spin.asked /\ spin'.from = spin.from
      /\ spin'.timebase = spin.timebase /\ spin'.until = spin.until
      /\ spin'.return_to = spin.return_to
  BY <1>1 DEF Spins
<1>5. CalTypeOK'
  BY <1>1, <1>3, <1>4 DEF CalTypeOK, Spins, costs, history, locals
<1>6. RoundsInv' /\ GettimeInv'
  BY <1>1, <1>4, CostsKept
     DEF CalInv, RoundsInv, GettimeInv, history
<1>7. SpanInv'
  <2>1. ASSUME spin.return_to = "end"
        PROVE  /\ Started' /\ spin'.timebase = 2
               /\ now' >= start_ns' + GETTIME_NS
               /\ now' <= spin'.until + GETTIME_NS + MaxDelay
               /\ spin'.until <= start_ns' + GETTIME_NS + MaxDelay
                                 + NANOS_PER_SEC \div 10
    <3>1. /\ Started /\ spin.timebase = 2 /\ now >= start_ns + GETTIME_NS
          /\ spin.until <= start_ns + GETTIME_NS + MaxDelay
                           + NANOS_PER_SEC \div 10
      BY <1>1, <2>1 DEF CalInv, SpanInv
    <3>2. now < spin.until
      BY <1>1, <3>1 DEF SpinMore, Clock
    <3>3. Started' /\ start_ns' = start_ns
      BY <1>1, <3>1 DEF Started, locals, history
    <3>4. now \in Nat /\ start_ns \in Nat /\ spin.until \in Int
      BY <1>1 DEF CalTypeOK, Spins
    <3>5. now' >= start_ns' + GETTIME_NS
          /\ now' <= spin'.until + GETTIME_NS + MaxDelay
      BY <1>3, <1>4, <3>1, <3>2, <3>3, <3>4, CalAssumption
    <3>6. QED
      BY <1>4, <3>1, <3>3, <3>5
  <2>2. QED
    BY <1>1, <1>4, <2>1 DEF SpanInv
<1>8. SpinInv'
  BY <1>1, <1>4 DEF CalInv, SpinInv, history, costs
<1>9. QED
  BY <1>1, <1>5, <1>6, <1>7, <1>8, CostsKept DEF CalInv

LEMMA SpinReturnInv ==
  ASSUME CalInv, SpinReturn
  PROVE  CalInv'
<1>1. CalTypeOK /\ pc = "spin" /\ pc' = spin.return_to /\ ~SpinMore
      /\ spin' = NoSpin /\ spin \in Spins /\ now' = now
      /\ UNCHANGED <<costs, opt_timebase, history>> /\ UNCHANGED rounds
      /\ UNCHANGED locals
  <2>1. UNCHANGED <<costs, opt_timebase, history>> /\ UNCHANGED rounds
        /\ UNCHANGED locals /\ UNCHANGED now
    BY DEF SpinReturn
  <2>2. CalTypeOK /\ spin \in Spins
    BY DEF CalInv, CalTypeOK, Spins
  <2>3. QED
    BY <2>1, <2>2 DEF SpinReturn
<1>2. spin' \in Spins /\ spin.return_to \in {"gettime", "end", "done"}
  BY <1>1 DEF NoSpin, Spins
<1>3. CalTypeOK'
  BY <1>1, <1>2 DEF CalTypeOK, Spins, costs, history, locals
<1>4. RoundsInv' /\ GettimeInv' /\ SpinInv'
  BY <1>1, <1>2, CostsKept
     DEF CalInv, RoundsInv, GettimeInv, SpinInv, history
<1>5. SpanInv'
  <2>1. ASSUME spin.return_to = "end"
        PROVE  Started' /\ now' >= start_ns' + GETTIME_NS
               /\ now' <= LongestSleep
    <3>1. /\ Started /\ now >= start_ns + GETTIME_NS
          /\ now <= spin.until + GETTIME_NS + MaxDelay
          /\ spin.until <= start_ns + GETTIME_NS + MaxDelay
                           + NANOS_PER_SEC \div 10
      BY <1>1, <2>1 DEF CalInv, SpanInv
    <3>2. start_ns <= RDTSC_NS + GETTIME_NS + MaxDelay
      BY <3>1 DEF Started
    <3>3. now \in Nat /\ start_ns \in Nat /\ spin.until \in Int
          /\ NANOS_PER_SEC \div 10 \in Nat
      BY <1>1, QuotientNat, CalAssumption DEF CalTypeOK, Spins
    <3>4. now <= LongestSleep
      BY <3>1, <3>2, <3>3, CalAssumption DEF LongestSleep
    <3>5. Started' /\ start_ns' = start_ns
      BY <1>1, <3>1 DEF Started, locals, history
    <3>6. QED
      BY <1>1, <3>1, <3>4, <3>5
  <2>2. QED
    BY <1>1, <1>2, <2>1 DEF SpanInv
<1>6. QED
  BY <1>1, <1>3, <1>4, <1>5, CostsKept DEF CalInv
-----------------------------------------------------------------------------
(* jtr_calibrate(), one step per timing.                                   *)
LEMMA TimeGettimeInv ==
  ASSUME CalInv, TimeGettime
  PROVE  CalInv'
<1>1. CalTypeOK /\ pc = "gettime" /\ pc' = "start" /\ now' = 0
      /\ UNCHANGED <<rdtsc_cost, loops_cost, ticks_per_sec, opt_timebase,
                     rounds, locals, spin, measured>>
  BY DEF CalInv, TimeGettime
<1>2. PICK delay \in Delays :
        /\ gettime_cost' = Least(PerCall(CALLS * GETTIME_NS + delay), gettime_cost)
        /\ quiet' = [quiet EXCEPT !.gettime = @ \/ delay = 0]
  BY DEF TimeGettime
<1>3. quiet \in Quiets
  BY <1>1, Zenon DEF CalTypeOK, Quiets
<1>4. /\ quiet' \in Quiets
      /\ quiet'.gettime <=> quiet.gettime \/ delay = 0
      /\ quiet'.start = quiet.start /\ quiet'.ticks = quiet.ticks
      /\ quiet'.ends = quiet.ends /\ quiet'.rdtsc = quiet.rdtsc
  BY <1>2, <1>3 DEF Quiets
<1> DEFINE diff == CALLS * GETTIME_NS + delay
<1>5. diff \in Nat /\ diff <= CALLS * GETTIME_NS + MaxDelay
      /\ CALLS + 1 \in Nat \ {0}
  BY CalAssumption
<1>6. delay = 0 => diff <= (CALLS + 1) * GETTIME_NS
  BY CalAssumption
<1>7. gettime_cost' = Least(PerCall(diff), gettime_cost)
  BY <1>2
<1> HIDE DEF diff
<1>8. PerCall(diff) \in Nat /\ PerCall(diff) <= diff
  BY <1>5, QuotientNat DEF PerCall
<1>9. delay = 0 => PerCall(diff) <= GETTIME_NS
  BY <1>5, <1>6, QuotientAtMost, CalAssumption DEF PerCall
<1>10. /\ gettime_cost' \in 0..LLONG_MAX
       /\ gettime_cost' <= diff /\ gettime_cost' <= gettime_cost
       /\ delay = 0 => gettime_cost' <= GETTIME_NS
  BY <1>1, <1>5, <1>7, <1>8, <1>9, CalAssumption DEF CalTypeOK, Least
<1>11. CalTypeOK'
  <2>1. quiet' \in Quiets
    BY <1>4
  <2>2. QED
    BY <1>1, <1>10, <2>1 DEF CalTypeOK, Quiets, locals
<1>12. GettimeInv'
  <2>1. quiet'.gettime => gettime_cost' <= GETTIME_NS
    <3>1. CASE delay = 0
      BY <1>10, <3>1
    <3>2. CASE quiet.gettime
      BY <1>1, <1>10, <3>2, CalAssumption DEF CalInv, GettimeInv, CalTypeOK
    <3>3. QED
      BY <1>4, <3>1, <3>2
  <2>2. gettime_cost' <= CALLS * GETTIME_NS + MaxDelay
    BY <1>5, <1>10, CalAssumption
  <2>3. QED
    BY <1>1, <2>1, <2>2 DEF GettimeInv
<1>13. RoundsInv' /\ SpanInv' /\ SpinInv'
  BY <1>1 DEF CalInv, RoundsInv, SpanInv, SpinInv
<1>14. RateInv' /\ RdtscInv'
  BY <1>1, <1>4 DEF CalInv, RateInv, RdtscInv
<1>15. MeasuresNoLessThanTheCall'
  <2>1. measured'.took = 0 /\ measured'.diff_ns = 0
    BY <1>1 DEF CalInv, RoundsInv
  <2>2. QED
    BY <2>1 DEF MeasuresNoLessThanTheCall
<1>16. QED
  BY <1>11, <1>12, <1>13, <1>14, <1>15 DEF CalInv

LEMMA StartReadingsInv ==
  ASSUME CalInv, StartReadings
  PROVE  CalInv'
<1>1. CalTypeOK /\ pc = "start" /\ pc' = "sleep" /\ now = 0
      /\ start_ticks' = Ticks(now + RDTSC_NS) /\ start_ns' = now'
      /\ UNCHANGED <<costs, opt_timebase, rounds, spin, measured>>
  BY DEF CalInv, SpanInv, StartReadings
<1>2. PICK delay \in Delays :
        /\ now' = now + RDTSC_NS + delay + GETTIME_NS
        /\ quiet' = [quiet EXCEPT !.start = (delay = 0)]
  BY DEF StartReadings
<1>3. quiet \in Quiets
  BY <1>1, Zenon DEF CalTypeOK, Quiets
<1>4. /\ quiet' \in Quiets
      /\ quiet'.start <=> delay = 0
      /\ quiet'.gettime = quiet.gettime /\ quiet'.ticks = quiet.ticks
      /\ quiet'.ends = quiet.ends /\ quiet'.rdtsc = quiet.rdtsc
  BY <1>2, <1>3 DEF Quiets
<1>5. /\ now' \in Nat /\ now' >= RDTSC_NS + GETTIME_NS
      /\ now' <= RDTSC_NS + GETTIME_NS + MaxDelay
      /\ delay = 0 => now' = RDTSC_NS + GETTIME_NS
  BY <1>1, <1>2, CalAssumption
<1>6. 0 + RDTSC_NS = RDTSC_NS /\ RDTSC_NS \in Nat
  BY CalAssumption
<1>7. start_ticks' = Ticks(RDTSC_NS) /\ start_ticks' \in Nat
  BY <1>1, <1>6, TicksNat
<1>8. CalTypeOK'
  <2>1. quiet' \in Quiets
    BY <1>4
  <2>2. QED
    BY <1>1, <1>5, <1>7, <2>1 DEF CalTypeOK, Quiets, costs
<1>9. SpanInv'
  <2>1. Started'
    BY <1>1, <1>4, <1>5, <1>7 DEF Started
  <2>2. QED
    BY <1>1, <2>1 DEF SpanInv
<1>10. RoundsInv' /\ GettimeInv' /\ SpinInv'
  BY <1>1, <1>4 DEF CalInv, RoundsInv, GettimeInv, SpinInv, costs
<1>11. RateInv' /\ RdtscInv'
  BY <1>1, <1>4 DEF CalInv, RateInv, RdtscInv, costs
<1>12. MeasuresNoLessThanTheCall'
  BY <1>1, <1>4 DEF CalInv, MeasuresNoLessThanTheCall, Convertible, costs
<1>13. QED
  BY <1>8, <1>9, <1>10, <1>11, <1>12 DEF CalInv

LEMMA EndReadingsInv ==
  ASSUME CalInv, EndReadings
  PROVE  CalInv'
<1>1. CalTypeOK /\ pc = "end" /\ pc' = "rdtsc" /\ now' = 0
      /\ start_ticks' = 0 /\ start_ns' = 0
      /\ UNCHANGED <<gettime_cost, rdtsc_cost, loops_cost, opt_timebase,
                     rounds, spin, measured>>
  BY DEF CalInv, EndReadings
<1>2. Started /\ now >= start_ns + GETTIME_NS /\ now <= LongestSleep
  BY <1>1 DEF CalInv, SpanInv
<1>3. PICK delay \in Delays :
        /\ ticks_per_sec' =
             Least(Quotient(
                     Wrap((Ticks(now + RDTSC_NS) - start_ticks) * NANOS_PER_SEC),
                     now + RDTSC_NS + delay + GETTIME_NS - start_ns),
                   ticks_per_sec)
        /\ quiet' = [quiet EXCEPT !.ticks = @ \/ (quiet.start /\ delay = 0),
                                  !.ends = @ /\ delay = 0]
  BY DEF EndReadings
<1>4. quiet \in Quiets
  BY <1>1, Zenon DEF CalTypeOK, Quiets
<1>5. /\ quiet' \in Quiets
      /\ quiet'.ticks <=> quiet.ticks \/ (quiet.start /\ delay = 0)
      /\ quiet'.ends <=> quiet.ends /\ delay = 0
      /\ quiet'.gettime = quiet.gettime /\ quiet'.start = quiet.start
      /\ quiet'.rdtsc = quiet.rdtsc
  BY <1>3, <1>4 DEF Quiets
<1> DEFINE timed == now + RDTSC_NS + delay + GETTIME_NS - start_ns
           rate == Quotient(Wrap((now * TICKS_PER_NS) * NANOS_PER_SEC), timed)
<1>6. now \in 1..LongestSleep /\ start_ns \in Nat /\ delay \in 0..MaxDelay
  BY <1>1, <1>2, CalAssumption DEF CalTypeOK
<1>7. /\ timed \in Nat \ {0} /\ timed <= now + MaxDelay
      /\ delay = 0 => timed <= now
      /\ delay = 0 /\ quiet.start => timed = now
  BY <1>2, <1>6, CalAssumption DEF Started
<1>8. Ticks(now + RDTSC_NS) - start_ticks = now * TICKS_PER_NS
  BY <1>2, <1>6, CalAssumption DEF Started, Ticks
<1>9. ticks_per_sec' = Least(rate, ticks_per_sec)
  BY <1>3, <1>8
<1>10. /\ rate \in Int /\ rate >= 1
       /\ timed <= now => rate >= TrueRate
       /\ timed = now => rate = TrueRate
  <2> HIDE DEF timed
  <2>1. QED
    BY <1>6, <1>7, RateOfSleep
<1> HIDE DEF timed, rate
<1>11. TrueRate \in Nat
  BY CalAssumption DEF TrueRate
<1>12. ticks_per_sec' \in 1..LLONG_MAX /\ ticks_per_sec' <= ticks_per_sec
       /\ ticks_per_sec' <= rate
  BY <1>1, <1>9, <1>10, CalAssumption DEF CalTypeOK, Least
<1>13. CalTypeOK'
  <2>1. quiet' \in Quiets
    BY <1>5
  <2>2. QED
    BY <1>1, <1>12, <2>1 DEF CalTypeOK, Quiets
<1>14. RateInv'
  <2>1. ASSUME quiet'.ticks PROVE ticks_per_sec' <= TrueRate
    <3>1. CASE quiet.ticks
      BY <1>1, <1>11, <1>12, <3>1 DEF CalInv, RateInv, CalTypeOK
    <3>2. CASE quiet.start /\ delay = 0
      BY <1>7, <1>10, <1>12, <3>2
    <3>3. QED
      BY <1>5, <2>1, <3>1, <3>2
  <2>2. ASSUME quiet'.ends PROVE ticks_per_sec' >= TrueRate
    <3>1. quiet.ends /\ delay = 0
      BY <1>5, <2>2
    <3>2. ticks_per_sec >= TrueRate /\ rate >= TrueRate
      BY <1>7, <1>10, <3>1 DEF CalInv, RateInv
    <3>3. QED
      BY <1>9, <3>2 DEF Least
  <2>3. QED
    BY <2>1, <2>2 DEF RateInv
<1>15. RdtscInv'
  <2> DEFINE ticks == CALLS * RDTSC_NS * TrueRate
  <2>1. ticks \in Nat /\ CALLS + 1 \in Nat \ {0}
    BY <1>11, CalAssumption
  <2>2. rdtsc_cost' = rdtsc_cost /\ (quiet'.rdtsc = quiet.rdtsc)
    BY <1>1, <1>5
  <2>3. RdtscInv
    BY DEF CalInv
  <2> DEFINE old == ticks \div ticks_per_sec
             new == ticks \div ticks_per_sec'
  <2>4. ticks_per_sec \in Nat \ {0} /\ ticks_per_sec' \in Nat \ {0}
    BY <1>1, <1>12 DEF CalTypeOK
  <2> HIDE DEF ticks
  <2>5. old \in Nat /\ new \in Nat /\ old <= new
    BY <1>12, <2>1, <2>4, LowerRate, QuotientNat
  <2>6. ASSUME quiet.rdtsc PROVE rdtsc_cost <= PerCall(old)
    BY <2>3, <2>6 DEF RdtscInv, ticks
  <2> HIDE DEF old, new
  <2>7. PerCall(old) <= PerCall(new) /\ PerCall(old) \in Nat
        /\ PerCall(new) \in Nat
    <3> DEFINE k == old \div (CALLS + 1)
    <3>1. k \in Nat /\ (CALLS + 1) * k <= old
      BY <2>1, <2>5, QuotientBounds, QuotientNat
    <3>2. (CALLS + 1) * k <= new
      <4> HIDE DEF k
      <4>1. QED
        BY <2>1, <2>5, <3>1
    <3>3. k <= new \div (CALLS + 1)
      BY <2>1, <2>5, <3>1, <3>2, QuotientAtLeast
    <3>4. new \div (CALLS + 1) \in Nat
      BY <2>1, <2>5, QuotientNat
    <3>5. QED
      BY <3>1, <3>3, <3>4 DEF PerCall
  <2>8. ASSUME quiet'.rdtsc PROVE rdtsc_cost' <= PerCall(new)
    <3>1. rdtsc_cost \in Nat
      BY <1>1 DEF CalTypeOK
    <3>2. QED
      BY <2>2, <2>6, <2>7, <2>8, <3>1
  <2>9. QED
    BY <2>8 DEF RdtscInv, new, ticks
<1>16. GettimeInv'
  BY <1>1, <1>5 DEF CalInv, GettimeInv
<1>17. RoundsInv' /\ SpanInv' /\ SpinInv'
  BY <1>1 DEF CalInv, RoundsInv, SpanInv, SpinInv
<1>18. MeasuresNoLessThanTheCall'
  <2>1. measured'.took = 0 /\ measured'.diff_ns = 0
    BY <1>1 DEF CalInv, RoundsInv
  <2>2. QED
    BY <2>1 DEF MeasuresNoLessThanTheCall
<1>19. QED
  BY <1>13, <1>14, <1>15, <1>16, <1>17, <1>18 DEF CalInv

LEMMA TimeRdtscInv ==
  ASSUME CalInv, TimeRdtsc
  PROVE  CalInv'
<1>1. CalTypeOK /\ pc = "rdtsc" /\ pc' = "loop"
      /\ UNCHANGED <<now, gettime_cost, loops_cost, ticks_per_sec, opt_timebase,
                     rounds, locals, spin, measured>>
  BY DEF CalInv, TimeRdtsc
<1>2. PICK delay \in Delays :
        /\ rdtsc_cost' =
             Least(PerCall(ToNanos(Ticks(CALLS * RDTSC_NS + delay), ticks_per_sec)),
                   rdtsc_cost)
        /\ quiet' = [quiet EXCEPT !.rdtsc = @ \/ delay = 0]
  BY DEF TimeRdtsc
<1>3. quiet \in Quiets
  BY <1>1, Zenon DEF CalTypeOK, Quiets
<1>4. /\ quiet' \in Quiets
      /\ quiet'.rdtsc <=> quiet.rdtsc \/ delay = 0
      /\ quiet'.gettime = quiet.gettime /\ quiet'.start = quiet.start
      /\ quiet'.ticks = quiet.ticks /\ quiet'.ends = quiet.ends
  BY <1>2, <1>3 DEF Quiets
<1> DEFINE t == CALLS * RDTSC_NS + delay
           b == CALLS * RDTSC_NS + MaxDelay
           P == Ticks(t) * NANOS_PER_SEC
           ns == P \div ticks_per_sec
<1>5. t \in Nat /\ b \in Nat /\ t <= b /\ delay \in Nat
  BY CalAssumption
<1>6. (b * TICKS_PER_NS) * NANOS_PER_SEC <= LLONG_MAX
  BY DelayAssumption
<1>7. delay = 0 => t = CALLS * RDTSC_NS
  BY CalAssumption
<1>8. rdtsc_cost' = Least(PerCall(ToNanos(Ticks(t), ticks_per_sec)), rdtsc_cost)
  BY <1>2
<1> HIDE DEF t, b
<1>9. TrueRate \in Nat /\ P \in Nat /\ P = t * TrueRate
      /\ (b * TICKS_PER_NS) * NANOS_PER_SEC = b * TrueRate
  BY <1>5, CalAssumption DEF Ticks, TrueRate
<1>10. P <= LLONG_MAX
  <2>1. t * TrueRate <= b * TrueRate /\ t * TrueRate \in Nat
        /\ b * TrueRate \in Nat
    BY <1>5, <1>9
  <2> HIDE DEF P
  <2>2. QED
    BY <1>6, <1>9, <2>1, CalAssumption
<1> HIDE DEF P
<1>11. Wrap(P) = P
  BY <1>9, <1>10, WrapFits, CalAssumption
<1>12. ns \in Nat /\ ticks_per_sec \in Nat \ {0}
  BY <1>1, <1>9, QuotientNat DEF CalTypeOK
<1>13. ToNanos(Ticks(t), ticks_per_sec) = ns
  <2>1. Quotient(Wrap(P), ticks_per_sec) = ns
    BY <1>9, <1>11, <1>12, QuotientOfNat
  <2>2. QED
    BY <2>1 DEF ToNanos, P
<1>14. PerCall(ns) \in Nat
  <2> HIDE DEF ns
  <2>1. QED
    BY <1>12, QuotientNat, CalAssumption DEF PerCall
<1>15. rdtsc_cost' = Least(PerCall(ns), rdtsc_cost)
  BY <1>8, <1>13
<1>16. delay = 0 =>
         ns = (CALLS * RDTSC_NS * TrueRate) \div ticks_per_sec
  BY <1>7, <1>9
<1> HIDE DEF ns
<1>17. rdtsc_cost' \in 0..LLONG_MAX /\ rdtsc_cost' <= rdtsc_cost
       /\ rdtsc_cost' <= PerCall(ns)
  BY <1>1, <1>14, <1>15, CalAssumption DEF CalTypeOK, Least
<1>18. CalTypeOK'
  <2>1. quiet' \in Quiets
    BY <1>4
  <2>2. QED
    BY <1>1, <1>17, <2>1 DEF CalTypeOK, Quiets, locals
<1>19. RdtscInv'
  <2> DEFINE bound == PerCall((CALLS * RDTSC_NS * TrueRate) \div ticks_per_sec)
  <2>1. bound \in Nat
    <3> DEFINE n == CALLS * RDTSC_NS * TrueRate
               k == n \div ticks_per_sec
    <3>1. n \in Nat
      BY <1>9, CalAssumption
    <3>2. k \in Nat
      <4> HIDE DEF n
      <4>1. QED
        BY <1>12, <3>1, QuotientNat
    <3>3. k \div (CALLS + 1) \in Nat
      <4> HIDE DEF k
      <4>1. QED
        BY <3>2, QuotientNat, CalAssumption
    <3>4. QED
      BY <3>3 DEF PerCall
  <2>2. quiet.rdtsc => rdtsc_cost <= bound
    BY DEF CalInv, RdtscInv
  <2>3. delay = 0 => PerCall(ns) = bound
    BY <1>16
  <2> HIDE DEF bound
  <2>4. quiet'.rdtsc => rdtsc_cost' <= bound
    BY <1>1, <1>4, <1>14, <1>17, <2>1, <2>2, <2>3 DEF CalTypeOK
  <2>5. QED
    BY <1>1, <2>4 DEF RdtscInv, bound
<1>20. GettimeInv' /\ RateInv'
  BY <1>1, <1>4 DEF CalInv, GettimeInv, RateInv
<1>21. RoundsInv' /\ SpanInv' /\ SpinInv'
  BY <1>1 DEF CalInv, RoundsInv, SpanInv, SpinInv
<1>22. MeasuresNoLessThanTheCall'
  <2>1. measured'.took = 0 /\ measured'.diff_ns = 0
    BY <1>1 DEF CalInv, RoundsInv
  <2>2. QED
    BY <2>1 DEF MeasuresNoLessThanTheCall
<1>23. QED
  BY <1>18, <1>19, <1>20, <1>21, <1>22 DEF CalInv

LEMMA TimeLoopInv ==
  ASSUME CalInv, TimeLoop
  PROVE  CalInv'
<1>1. CalTypeOK /\ pc = "loop" /\ rounds' = rounds + 1
      /\ rounds < CALIBRATIONS
      /\ UNCHANGED <<now, gettime_cost, rdtsc_cost, ticks_per_sec,
                     opt_timebase, locals, spin, history>>
  BY DEF CalInv, RoundsInv, TimeLoop
<1>2. pc' = IF rounds' < CALIBRATIONS THEN "gettime" ELSE "measure"
  BY DEF TimeLoop, NextCalibration
<1>3. loops_cost' \in Int /\ loops_cost' <= LLONG_MAX
  <2>1. PICK delay \in Delays :
          loops_cost' =
            Least(ToNanos(Ticks(LOOPS_NS + RDTSC_NS + delay), ticks_per_sec)
                    - rdtsc_cost, loops_cost)
    BY DEF TimeLoop
  <2> DEFINE ticks == Ticks(LOOPS_NS + RDTSC_NS + delay)
             ns == ToNanos(ticks, ticks_per_sec)
  <2>2. ticks \in Nat
    BY TicksNat, CalAssumption
  <2> HIDE DEF ticks
  <2>3. Wrap(ticks * NANOS_PER_SEC) \in Int
    BY <2>2, WrapInt, CalAssumption
  <2>4. ns \in Int
    BY <1>1, <2>3, QuotientInt DEF ToNanos, CalTypeOK
  <2> HIDE DEF ns
  <2>5. loops_cost' = Least(ns - rdtsc_cost, loops_cost)
    BY <2>1 DEF ns, ticks
  <2>6. QED
    BY <1>1, <2>4, <2>5, CalAssumption DEF CalTypeOK, Least
<1>4. CalTypeOK'
  BY <1>1, <1>2, <1>3, CalAssumption DEF CalTypeOK, locals, history
<1>5. RoundsInv' /\ GettimeInv' /\ SpanInv' /\ SpinInv'
  BY <1>1, <1>2 DEF CalInv, RoundsInv, GettimeInv, SpanInv, SpinInv, history
<1>6. RateInv' /\ RdtscInv'
  BY <1>1 DEF CalInv, RateInv, RdtscInv, history
<1>7. MeasuresNoLessThanTheCall'
  BY <1>1 DEF CalInv, MeasuresNoLessThanTheCall, Convertible, history
<1>8. QED
  BY <1>4, <1>5, <1>6, <1>7 DEF CalInv

LEMMA MeasureInv ==
  ASSUME CalInv, Measure
  PROVE  CalInv'
<1>1. CalTypeOK /\ pc = "measure" /\ pc' = "pause"
      /\ UNCHANGED <<now, costs, opt_timebase, rounds, locals, spin>>
      /\ quiet' = quiet
  BY DEF CalInv, Measure
<1>2. PICK took \in CallTimes :
        measured' = [took |-> took, diff_ns |-> DiffNanos(took)]
  BY DEF Measure
<1>3. took \in Nat /\ ticks_per_sec \in Nat \ {0} /\ rdtsc_cost \in Nat
      /\ gettime_cost \in Nat /\ took + RDTSC_NS \in Nat
  BY <1>1, CalAssumption DEF CalTypeOK
<1> DEFINE P == Ticks(took + RDTSC_NS) * NANOS_PER_SEC
<1>4. P \in Nat /\ P = (took + RDTSC_NS) * TrueRate
  BY <1>3, CalAssumption DEF Ticks, TrueRate
<1>5. DiffNanos(took) \in Int
  <2>1. Wrap(P) \in Int
    BY <1>4, WrapInt
  <2>2. Quotient(Wrap(P), ticks_per_sec) \in Int
    BY <1>3, <2>1, QuotientInt
  <2>3. ToNanos(Ticks(took + RDTSC_NS), ticks_per_sec) \in Int
    BY <2>2 DEF ToNanos
  <2>4. CASE opt_timebase = 1
    BY <1>3, <2>3, <2>4 DEF DiffNanos
  <2>5. CASE opt_timebase # 1
    BY <1>3, <2>5, CalAssumption DEF DiffNanos
  <2>6. QED
    BY <2>4, <2>5
<1>6. measured' \in [took : Nat, diff_ns : Int]
      /\ measured'.took = took /\ measured'.diff_ns = DiffNanos(took)
  BY <1>2, <1>3, <1>5
<1>7. CalTypeOK'
  BY <1>1, <1>6 DEF CalTypeOK, costs, locals
<1>8. RoundsInv' /\ GettimeInv' /\ SpanInv' /\ SpinInv'
  BY <1>1 DEF CalInv, RoundsInv, GettimeInv, SpanInv, SpinInv, costs
<1>9. RateInv' /\ RdtscInv'
  BY <1>1 DEF CalInv, RateInv, RdtscInv, costs
<1>10. MeasuresNoLessThanTheCall'
  <2>1. ASSUME opt_timebase = 1, quiet.ticks, quiet.rdtsc, P <= LLONG_MAX
        PROVE  DiffNanos(took) >= took
    <3>1. ticks_per_sec <= TrueRate
          /\ rdtsc_cost <= PerCall((CALLS * RDTSC_NS * TrueRate) \div ticks_per_sec)
      BY <2>1 DEF CalInv, RateInv, RdtscInv
    <3>2. ((took + RDTSC_NS) * TrueRate) \div ticks_per_sec - rdtsc_cost >= took
      BY <1>3, <3>1, CorrectedMeasurement
    <3>3. Wrap(P) = P
      BY <1>4, <2>1, WrapFits, CalAssumption
    <3>4. ToNanos(Ticks(took + RDTSC_NS), ticks_per_sec)
            = ((took + RDTSC_NS) * TrueRate) \div ticks_per_sec
      <4>1. Quotient(Wrap(P), ticks_per_sec) = P \div ticks_per_sec
        BY <1>3, <1>4, <3>3, QuotientOfNat
      <4>2. QED
        BY <1>4, <4>1 DEF ToNanos
    <3>5. QED
      BY <2>1, <3>2, <3>4 DEF DiffNanos
  <2>2. ASSUME opt_timebase # 1, quiet.gettime
        PROVE  DiffNanos(took) >= took
    BY <1>3, <2>2, CalAssumption DEF CalInv, GettimeInv, DiffNanos
  <2>3. opt_timebase' = opt_timebase
    BY <1>1
  <2>4. Convertible(measured'.took) => P <= LLONG_MAX
    BY <1>6 DEF Convertible
  <2>5. QED
    BY <1>1, <1>6, <2>1, <2>2, <2>3, <2>4
       DEF MeasuresNoLessThanTheCall, Convertible
<1>11. QED
  BY <1>7, <1>8, <1>9, <1>10 DEF CalInv
-----------------------------------------------------------------------------
LEMMA NextCalInv ==
  ASSUME CalInv, [Next]_vars
  PROVE  CalInv'
<1>1. CASE UNCHANGED vars
  BY <1>1
     DEF CalInv, CalTypeOK, RoundsInv, GettimeInv, SpanInv, Started, RateInv,
         RdtscInv, SpinInv, MeasuresNoLessThanTheCall, Convertible,
         vars, costs, locals, history
<1>2. QED
  BY <1>1, SettleInv, SpinTurnInv, SpinReturnInv, TimeGettimeInv,
     StartReadingsInv, SleepInv, EndReadingsInv, TimeRdtscInv, TimeLoopInv,
     MeasureInv, PauseInv DEF Next

LEMMA CalInvCorrect == Spec => []CalInv
<1>1. Init => CalInv
  BY InitCalInv
<1>2. CalInv /\ [Next]_vars => CalInv'
  BY NextCalInv
<1>3. QED
  BY <1>1, <1>2, PTL DEF Spec

(* The calibrated costs are never negative, the tick rate is positive, and *)
(* no more calibrations are made than main() asks for: no delay within     *)
(* DelayAssumption makes jtr_calibrate() divide by zero or overflow        *)
(* (jtr.c:134-236).                                                        *)
THEOREM CalTypeCorrect == Spec => []CalTypeOK
<1>1. CalInv => CalTypeOK
  BY DEF CalInv
<1>2. QED
  BY <1>1, CalInvCorrect, PTL

(* No measured call comes out shorter than it was, once each timing was    *)
(* undisturbed in some calibration (jtr.c:505-506, 522-523).               *)
THEOREM MeasurementCorrect == Spec => []MeasuresNoLessThanTheCall
<1>1. CalInv => MeasuresNoLessThanTheCall
  BY DEF CalInv
<1>2. QED
  BY <1>1, CalInvCorrect, PTL

(* No sleep ends early, but for one reading of clock_gettime()             *)
(* (jtr.c:94-131).                                                         *)
THEOREM SleepCorrect == Spec => []SleepsLongEnough
<1>1. ASSUME CalInv PROVE SleepsLongEnough
  <2> SUFFICES ASSUME pc = "spin", ~SpinMore PROVE
        /\ spin.timebase = 2 /\ (quiet.gettime \/ spin.return_to = "gettime")
           => now - spin.from + GETTIME_NS >= spin.asked
        /\ spin.timebase = 1 /\ quiet.ends
           /\ spin.asked * ticks_per_sec <= LLONG_MAX
           => now - spin.from >= spin.asked
    BY DEF SleepsLongEnough
  <2>1. CalTypeOK /\ SpinInv
    BY <1>1 DEF CalInv
  <2>2. now \in Nat /\ spin.from \in Nat /\ spin.asked \in Nat
        /\ spin.until \in Int
    BY <2>1 DEF CalTypeOK
  <2>3. ASSUME spin.timebase = 2, quiet.gettime \/ spin.return_to = "gettime"
        PROVE  now - spin.from + GETTIME_NS >= spin.asked
    <3>1. now >= spin.until
      BY <2>2, <2>3 DEF SpinMore, Clock
    <3>2. spin.until + GETTIME_NS >= spin.from + spin.asked
      BY <2>1, <2>3 DEF SpinInv
    <3>3. QED
      BY <2>2, <3>1, <3>2, CalAssumption
  <2>4. ASSUME spin.timebase = 1, quiet.ends,
               spin.asked * ticks_per_sec <= LLONG_MAX
        PROVE  now - spin.from >= spin.asked
    <3>1. Ticks(now) >= spin.until
      BY <2>2, <2>4, TicksNat DEF SpinMore, Clock
    <3>2. spin.until >= Ticks(spin.from) + Ticks(spin.asked)
      BY <2>1, <2>4 DEF SpinInv
    <3>3. Ticks(spin.from) + Ticks(spin.asked) = Ticks(spin.from + spin.asked)
          /\ Ticks(now) \in Nat /\ Ticks(spin.from + spin.asked) \in Nat
      BY <2>2, CalAssumption DEF Ticks
    <3>4. Ticks(now) >= Ticks(spin.from + spin.asked)
      BY <2>2, <3>1, <3>2, <3>3
    <3> DEFINE n == now
               e == spin.from + spin.asked
    <3>5. n \in Nat /\ e \in Nat /\ n * TICKS_PER_NS >= e * TICKS_PER_NS
      BY <2>2, <3>4 DEF Ticks
    <3>6. n >= e
      <4> HIDE DEF n, e
      <4>1. QED
        BY <3>5, CalAssumption
    <3>7. QED
      BY <2>2, <3>6
  <2>5. QED
    BY <2>3, <2>4
<1>2. QED
  BY <1>1, CalInvCorrect, PTL
-----------------------------------------------------------------------------
(* Once clock_gettime() has been timed, its cost is a small one.           *)
TimedInv ==
  pc \notin {"settle", "gettime"} /\ ~(pc = "spin" /\ spin.return_to = "gettime")
    => gettime_cost <= GETTIME_NS + MaxDelay

(* How far a sleep is allowed to go, and how far it has gone: up to its    *)
(* first reading, or up to one reading past its end.                       *)
LongestIn2 ==
  /\ spin.until <= spin.from + GETTIME_NS + MaxDelay + spin.asked
                   + IF spin.return_to = "gettime" THEN 2 ELSE 0
  /\ \/ now <= spin.from + GETTIME_NS + MaxDelay
     \/ now < spin.until + GETTIME_NS + MaxDelay

LongestIn1 ==
  /\ spin.asked > 0
  /\ quiet.ticks =>
       spin.until <= Ticks(spin.from + RDTSC_NS + MaxDelay + spin.asked)
  /\ ~spin.turned => now <= spin.from + RDTSC_NS + MaxDelay
  /\ \/ now <= spin.from + 2 * (RDTSC_NS + MaxDelay)
     \/ Ticks(now) < spin.until + Ticks(RDTSC_NS + MaxDelay)

OverrunInv ==
  pc = "spin" =>
    /\ spin.timebase = 2 => LongestIn2
    /\ spin.timebase = 1 => LongestIn1

SlowInv == CalInv /\ TimedInv /\ OverrunInv

LEMMA TicksForNotLong ==
  ASSUME NEW ns \in Nat, ticks_per_sec \in Nat, ticks_per_sec <= TrueRate
  PROVE  TicksFor(ns) \in Int /\ TicksFor(ns) <= Ticks(ns)
<1> DEFINE n == ns * ticks_per_sec
<1>1. TrueRate \in Nat /\ Ticks(ns) \in Nat
      /\ ns * TrueRate = NANOS_PER_SEC * Ticks(ns)
  BY CalAssumption DEF TrueRate, Ticks
<1>2. n <= ns * TrueRate /\ n \in Nat
  BY <1>1
<1> HIDE DEF n
<1>3. Wrap(n) \in Int /\ Wrap(n) <= NANOS_PER_SEC * Ticks(ns)
  BY <1>1, <1>2, WrapBelow
<1>4. Quotient(Wrap(n), NANOS_PER_SEC) \in Int
      /\ Quotient(Wrap(n), NANOS_PER_SEC) <= Ticks(ns)
  <2> DEFINE top == NANOS_PER_SEC * Ticks(ns)
  <2>1. top \in Nat /\ Wrap(n) <= top
    BY <1>1, <1>3, CalAssumption
  <2>2. top \div NANOS_PER_SEC \in Int /\ top \div NANOS_PER_SEC <= Ticks(ns)
    BY <1>1, <2>1, QuotientAtMost, QuotientBounds, CalAssumption
  <2> HIDE DEF top
  <2>3. Quotient(Wrap(n), NANOS_PER_SEC) \in Int
        /\ Quotient(Wrap(n), NANOS_PER_SEC) <= top \div NANOS_PER_SEC
    BY <1>3, <2>1, QuotientBelow, QuotientInt, CalAssumption
  <2>4. QED
    BY <1>1, <2>2, <2>3
<1>5. QED
  BY <1>4 DEF TicksFor, n

LEMMA TicksAdd ==
  ASSUME NEW t \in Nat, NEW u \in Nat
  PROVE  Ticks(t + u) = Ticks(t) + Ticks(u)
BY CalAssumption DEF Ticks

LEMMA AdjustedCalibrated ==
  ASSUME NEW ns \in Nat, CalTypeOK, gettime_cost <= GETTIME_NS + MaxDelay
  PROVE  Adjusted(ns) <= ns /\ Adjusted(ns) + 2 * (GETTIME_NS + MaxDelay) >= ns
<1>1. CALLS * GETTIME_NS \in Nat /\ CALLS * GETTIME_NS >= GETTIME_NS
  BY CalAssumption
<1>2. gettime_cost \in 0..LLONG_MAX
      /\ gettime_cost <= CALLS * GETTIME_NS + MaxDelay
  BY <1>1, CalAssumption DEF CalTypeOK
<1>3. 2 * gettime_cost \in 0..LLONG_MAX
  BY <1>1, <1>2, CalAssumption, DelayAssumption
<1>4. Wrap(2 * gettime_cost) = 2 * gettime_cost
  BY <1>3, WrapFits
<1>5. QED
  BY <1>2, <1>4, CalAssumption DEF Adjusted

(* A calibrated timing of clock_gettime() is below one delayed reading.    *)
LEMMA PerCallOfTiming ==
  ASSUME NEW delay \in Delays
  PROVE  /\ PerCall(CALLS * GETTIME_NS + delay) \in Nat
         /\ PerCall(CALLS * GETTIME_NS + delay) <= GETTIME_NS + MaxDelay
<1> DEFINE t == CALLS * GETTIME_NS + delay
           g == GETTIME_NS + MaxDelay
           n == CALLS + 1
<1>1. t \in Nat /\ n \in Nat \ {0} /\ g \in Nat /\ t <= n * g
  <2>1. CALLS * MaxDelay >= 0 /\ CALLS * MaxDelay \in Int
        /\ CALLS * GETTIME_NS \in Nat
    BY CalAssumption
  <2>2. n * g = CALLS * GETTIME_NS + CALLS * MaxDelay + GETTIME_NS + MaxDelay
    BY CalAssumption
  <2>3. QED
    BY <2>1, <2>2, CalAssumption
<1> HIDE DEF t, g, n
<1>2. t \div n \in Nat /\ t \div n <= g
  BY <1>1, QuotientNat, QuotientAtMost
<1>3. QED
  BY <1>2 DEF PerCall, t, g, n
-----------------------------------------------------------------------------
LEMMA OverrunOnEntry ==
  ASSUME CalTypeOK, NEW ns \in Nat, NEW timebase \in {1, 2},
         NEW return_to \in {"gettime", "end", "done"},
         SpinEnter(ns, timebase, return_to), UNCHANGED quiet,
         timebase = 2 =>
           Adjusted(ns) <= ns + IF return_to = "gettime" THEN 2 ELSE 0,
         timebase = 1 => ns > 0,
         quiet.ticks => ticks_per_sec <= TrueRate
  PROVE  OverrunInv'
<1>1. /\ now' \in Nat /\ now' >= now /\ now \in Nat
      /\ spin'.asked = ns /\ spin'.from = now
      /\ spin'.timebase = timebase /\ spin'.return_to = return_to
      /\ timebase = 2 => /\ now' <= now + GETTIME_NS + MaxDelay
                         /\ spin'.until = now' + Adjusted(ns)
      /\ timebase = 1 => /\ now' <= now + RDTSC_NS + MaxDelay
                         /\ spin'.until = Ticks(now') + TicksFor(ns)
      /\ spin'.turned = FALSE
  <2>1. now \in Nat
    BY DEF CalTypeOK
  <2>2. QED
    BY <2>1, SpinEntered
<1> DEFINE slack == IF return_to = "gettime" THEN 2 ELSE 0
<1>2. ASSUME timebase = 2 PROVE LongestIn2'
  <2>1. slack \in Nat /\ Adjusted(ns) <= ns + slack /\ Adjusted(ns) \in Nat
    BY <1>2, AdjustedNat DEF CalTypeOK
  <2>2. slack' = slack /\ slack = IF spin'.return_to = "gettime" THEN 2 ELSE 0
    BY <1>1
  <2> HIDE DEF slack
  <2>3. /\ spin'.until <= spin'.from + GETTIME_NS + MaxDelay + spin'.asked + slack
        /\ now' <= spin'.from + GETTIME_NS + MaxDelay
    BY <1>1, <1>2, <2>1, CalAssumption
  <2>4. QED
    BY <2>2, <2>3 DEF LongestIn2
<1>3. ASSUME timebase = 1 PROVE LongestIn1'
  <2> DEFINE e == now + RDTSC_NS + MaxDelay
  <2>1. e \in Nat /\ now' <= e /\ ns > 0 /\ e <= now + 2 * (RDTSC_NS + MaxDelay)
    BY <1>1, <1>3, CalAssumption
  <2>2. ASSUME quiet.ticks PROVE spin'.until <= Ticks(e + ns)
    <3>1. TicksFor(ns) \in Int /\ TicksFor(ns) <= Ticks(ns)
      BY <2>2, TicksForNotLong DEF CalTypeOK
    <3> HIDE DEF e
    <3>2. Ticks(now') <= Ticks(e) /\ Ticks(e + ns) = Ticks(e) + Ticks(ns)
          /\ Ticks(now') \in Nat /\ Ticks(e) \in Nat /\ Ticks(ns) \in Nat
      BY <1>1, <2>1, TicksMonotone, TicksAdd, TicksNat
    <3>3. QED
      BY <1>1, <1>3, <3>1, <3>2
  <2>3. quiet'.ticks =>
          spin'.until <= Ticks(spin'.from + RDTSC_NS + MaxDelay + spin'.asked)
    BY <1>1, <2>2
  <2>4. spin'.asked > 0 /\ now' <= spin'.from + RDTSC_NS + MaxDelay
        /\ now' <= spin'.from + 2 * (RDTSC_NS + MaxDelay)
    BY <1>1, <1>3, <2>1, CalAssumption
  <2>5. QED
    BY <2>3, <2>4 DEF LongestIn1
<1>4. QED
  BY <1>1, <1>2, <1>3 DEF OverrunInv

LEMMA OverrunOnTurn ==
  ASSUME SlowInv, SpinTurn
  PROVE  OverrunInv'
<1>1. CalTypeOK /\ pc = "spin" /\ SpinMore /\ spin \in Spins
      /\ UNCHANGED quiet
  BY DEF SpinTurn, SlowInv, CalInv, CalTypeOK, Spins, history
<1>2. PICK delay \in Delays :
        now' = now + delay + IF spin.timebase = 1 THEN RDTSC_NS ELSE GETTIME_NS
  BY DEF SpinTurn
<1>3. /\ spin'.asked = spin.asked /\ spin'.from = spin.from
      /\ spin'.timebase = spin.timebase /\ spin'.until = spin.until
      /\ spin'.return_to = spin.return_to /\ spin'.turned = TRUE
  BY <1>1 DEF SpinTurn, Spins
<1>4. now \in Nat /\ spin.from \in Nat /\ spin.asked \in Nat
      /\ spin.until \in Int /\ delay \in Nat /\ delay <= MaxDelay
      /\ MaxDelay \in Nat /\ RDTSC_NS \in Nat /\ GETTIME_NS \in Nat
  BY <1>1, CalAssumption DEF Spins, CalTypeOK
<1>5. ASSUME spin.timebase = 2 PROVE LongestIn2'
  <2>1. LongestIn2
    BY <1>1, <1>5 DEF SlowInv, OverrunInv
  <2>2. now < spin.until
    BY <1>1, <1>5 DEF SpinMore, Clock
  <2>3. now' < spin'.until + GETTIME_NS + MaxDelay
    BY <1>2, <1>3, <1>4, <1>5, <2>2
  <2>4. QED
    BY <1>3, <2>1, <2>3 DEF LongestIn2
<1>6. ASSUME spin.timebase = 1 PROVE LongestIn1'
  <2>1. LongestIn1
    BY <1>1, <1>6 DEF SlowInv, OverrunInv
  <2>2. now' = now + RDTSC_NS + delay
    BY <1>2, <1>4, <1>6
  <2>3. CASE Ticks(now) < spin.until
    <3>1. Ticks(now') = Ticks(now) + Ticks(RDTSC_NS + delay)
          /\ Ticks(RDTSC_NS + delay) <= Ticks(RDTSC_NS + MaxDelay)
          /\ Ticks(now) \in Nat /\ Ticks(RDTSC_NS + delay) \in Nat
          /\ Ticks(RDTSC_NS + MaxDelay) \in Nat
      <4>1. now' = now + (RDTSC_NS + delay) /\ RDTSC_NS + delay \in Nat
            /\ RDTSC_NS + MaxDelay \in Nat
            /\ RDTSC_NS + delay <= RDTSC_NS + MaxDelay
        BY <1>4, <2>2
      <4>2. QED
        BY <1>4, <4>1, TicksAdd, TicksMonotone, TicksNat
    <3>2. Ticks(now') < spin'.until + Ticks(RDTSC_NS + MaxDelay)
      BY <1>3, <1>4, <2>3, <3>1
    <3>3. QED
      BY <1>1, <1>3, <2>1, <3>2 DEF LongestIn1
  <2>4. CASE ~spin.turned
    <3>1. now' <= spin'.from + 2 * (RDTSC_NS + MaxDelay)
      BY <1>3, <1>4, <2>1, <2>2, <2>4 DEF LongestIn1
    <3>2. QED
      BY <1>1, <1>3, <2>1, <3>1 DEF LongestIn1
  <2>5. QED
    BY <1>1, <1>6, <2>3, <2>4 DEF SpinMore, Clock
<1>7. QED
  BY <1>3, <1>5, <1>6 DEF OverrunInv

LEMMA InitSlowInv == Init => SlowInv
BY InitCalInv DEF Init, SlowInv, TimedInv, OverrunInv

LEMMA NextSlowInv ==
  ASSUME SlowInv, [Next]_vars
  PROVE  SlowInv'
<1>1. CalInv /\ CalInv' /\ CalTypeOK
  BY NextCalInv DEF SlowInv, CalInv
<1>2. quiet.ticks => ticks_per_sec <= TrueRate
  BY <1>1 DEF CalInv, RateInv
<1>3. CASE Settle
  <2>1. gettime_cost = LLONG_MAX /\ SETTLE_NS \in Nat
        /\ SpinEnter(SETTLE_NS, 2, "gettime") /\ UNCHANGED quiet
    BY <1>1, <1>3, CalAssumption DEF CalInv, GettimeInv, Settle, history
  <2>2. Adjusted(SETTLE_NS) <= SETTLE_NS + 2
    BY <2>1, WrapInitialCost DEF Adjusted
  <2>3. OverrunInv'
    BY <1>1, <1>2, <2>1, <2>2, OverrunOnEntry
  <2>4. pc' = "spin" /\ spin'.return_to = "gettime"
    BY <1>1, <2>1, SpinEntered
  <2>5. QED
    BY <1>1, <2>3, <2>4 DEF SlowInv, TimedInv
<1>4. CASE Sleep
  <2> DEFINE tenth == NANOS_PER_SEC \div 10
  <2>1. gettime_cost <= GETTIME_NS + MaxDelay /\ tenth \in Nat
        /\ SpinEnter(tenth, 2, "end") /\ UNCHANGED quiet
        /\ UNCHANGED gettime_cost
    BY <1>4, QuotientNat, CalAssumption
       DEF SlowInv, TimedInv, Sleep, history, costs
  <2> HIDE DEF tenth
  <2>2. Adjusted(tenth) <= tenth
    BY <1>1, <2>1, AdjustedCalibrated
  <2>3. OverrunInv'
    <3>1. Adjusted(tenth) <= tenth + IF "end" = "gettime" THEN 2 ELSE 0
      BY <2>1, <2>2, AdjustedNat, <1>1 DEF CalTypeOK
    <3>2. QED
      BY <1>1, <1>2, <2>1, <3>1, OverrunOnEntry
  <2>4. QED
    BY <1>1, <2>1, <2>3 DEF SlowInv, TimedInv
<1>5. CASE Pause
  <2>1. PICK ns \in Pauses :
          \/ pc' = "done"
          \/ ns > 0 /\ SpinEnter(ns, opt_timebase, "done")
    BY <1>5 DEF Pause
  <2>2. gettime_cost <= GETTIME_NS + MaxDelay /\ UNCHANGED gettime_cost
        /\ UNCHANGED quiet /\ ns \in Int /\ opt_timebase \in {1, 2}
    BY <1>1, <1>5, CalAssumption
       DEF SlowInv, TimedInv, Pause, costs, history, CalTypeOK
  <2>3. CASE pc' = "done"
    BY <1>1, <2>2, <2>3 DEF SlowInv, TimedInv, OverrunInv
  <2>4. CASE ns > 0 /\ SpinEnter(ns, opt_timebase, "done")
    <3>1. ns \in Nat /\ Adjusted(ns) <= ns /\ Adjusted(ns) \in Nat
      BY <1>1, <2>2, <2>4, AdjustedCalibrated, AdjustedNat DEF CalTypeOK
    <3>2. Adjusted(ns) <= ns + IF "done" = "gettime" THEN 2 ELSE 0
      BY <3>1
    <3>3. OverrunInv'
      BY <1>1, <1>2, <2>2, <2>4, <3>1, <3>2, OverrunOnEntry
    <3>4. QED
      BY <1>1, <2>2, <3>3 DEF SlowInv, TimedInv
  <2>5. QED
    BY <2>1, <2>3, <2>4
<1>6. CASE SpinTurn
  <2>1. OverrunInv' /\ UNCHANGED gettime_cost
        /\ pc = "spin" /\ pc' = "spin" /\ spin'.return_to = spin.return_to
    BY <1>1, <1>6, OverrunOnTurn DEF SpinTurn, costs, CalTypeOK
  <2>2. QED
    BY <1>1, <2>1 DEF SlowInv, TimedInv
<1>7. CASE SpinReturn
  <2>1. pc = "spin" /\ pc' = spin.return_to
        /\ spin.return_to \in {"gettime", "end", "done"}
        /\ UNCHANGED gettime_cost
    BY <1>1, <1>7 DEF SpinReturn, costs, CalTypeOK
  <2>2. QED
    BY <1>1, <2>1 DEF SlowInv, TimedInv, OverrunInv
<1>8. CASE TimeGettime
  <2>1. PICK delay \in Delays :
          gettime_cost' = Least(PerCall(CALLS * GETTIME_NS + delay), gettime_cost)
    BY <1>8 DEF TimeGettime
  <2>2. gettime_cost' <= GETTIME_NS + MaxDelay
    BY <1>1, <2>1, PerCallOfTiming, CalAssumption DEF Least, CalTypeOK
  <2>3. pc' = "start"
    BY <1>8 DEF TimeGettime
  <2>4. QED
    BY <1>1, <2>2, <2>3 DEF SlowInv, TimedInv, OverrunInv
<1>9. CASE StartReadings \/ EndReadings \/ TimeRdtsc \/ TimeLoop \/ Measure
  <2>1. /\ pc \in {"start", "end", "rdtsc", "loop", "measure"}
        /\ pc' # "spin" /\ UNCHANGED gettime_cost
    BY <1>9 DEF StartReadings, EndReadings, TimeRdtsc, TimeLoop, Measure,
                NextCalibration, costs
  <2>2. QED
    BY <1>1, <2>1 DEF SlowInv, TimedInv, OverrunInv
<1>10. CASE UNCHANGED vars
  BY <1>1, <1>10
     DEF SlowInv, TimedInv, OverrunInv, LongestIn1, LongestIn2, vars, costs,
         history
<1>11. QED
  BY <1>3, <1>4, <1>5, <1>6, <1>7, <1>8, <1>9, <1>10 DEF Next

LEMMA SlowInvCorrect == Spec => []SlowInv
BY InitSlowInv, NextSlowInv, PTL DEF Spec

(* No sleep overruns by more than two readings of its clock and what       *)
(* delays them (jtr.c:94-131).                                             *)
THEOREM OverrunCorrect == Spec => []SleepsNotTooLong
<1>1. ASSUME SlowInv PROVE SleepsNotTooLong
  <2> SUFFICES ASSUME pc = "spin", ~SpinMore PROVE
        /\ spin.timebase = 2 =>
             now - spin.from < spin.asked + 2 * (GETTIME_NS + MaxDelay)
                               + IF spin.return_to = "gettime" THEN 2 ELSE 0
        /\ spin.timebase = 1 /\ quiet.ticks =>
             now - spin.from < spin.asked + 2 * (RDTSC_NS + MaxDelay)
    BY DEF SleepsNotTooLong
  <2>1. spin \in Spins /\ now \in Nat
    BY <1>1 DEF SlowInv, CalInv, CalTypeOK, Spins
  <2>2. /\ spin.from \in Nat /\ spin.asked \in Nat /\ spin.until \in Int
        /\ MaxDelay \in Nat /\ RDTSC_NS \in Nat \ {0}
        /\ GETTIME_NS \in Nat \ {0}
    BY <2>1, CalAssumption DEF Spins
  <2>3. ASSUME spin.timebase = 2
        PROVE  now - spin.from < spin.asked + 2 * (GETTIME_NS + MaxDelay)
                                 + IF spin.return_to = "gettime" THEN 2 ELSE 0
    <3> DEFINE slack == IF spin.return_to = "gettime" THEN 2 ELSE 0
    <3>1. slack \in Nat
      OBVIOUS
    <3>2. /\ spin.until <= spin.from + GETTIME_NS + MaxDelay + spin.asked + slack
          /\ \/ now <= spin.from + GETTIME_NS + MaxDelay
             \/ now < spin.until + GETTIME_NS + MaxDelay
      BY <1>1, <2>3 DEF SlowInv, OverrunInv, LongestIn2
    <3> HIDE DEF slack
    <3>3. now - spin.from < spin.asked + 2 * (GETTIME_NS + MaxDelay) + slack
      BY <2>1, <2>2, <3>1, <3>2
    <3>4. QED
      BY <3>3 DEF slack
  <2>4. ASSUME spin.timebase = 1, quiet.ticks
        PROVE  now - spin.from < spin.asked + 2 * (RDTSC_NS + MaxDelay)
    <3> DEFINE r == RDTSC_NS + MaxDelay
               e == spin.from + RDTSC_NS + MaxDelay + spin.asked
    <3>1. LongestIn1
      BY <1>1, <2>4 DEF SlowInv, OverrunInv
    <3>2. CASE now <= spin.from + 2 * (RDTSC_NS + MaxDelay)
      BY <2>1, <2>2, <3>1, <3>2 DEF LongestIn1
    <3>3. CASE Ticks(now) < spin.until + Ticks(r)
      <4>1. r \in Nat /\ e \in Nat /\ spin.until <= Ticks(e)
        BY <2>2, <2>4, <3>1 DEF LongestIn1
      <4>2. e + r = spin.from + spin.asked + 2 * (RDTSC_NS + MaxDelay)
        BY <2>2
      <4> HIDE DEF r, e
      <4>3. Ticks(now) < Ticks(e + r)
        <5>1. Ticks(e + r) = Ticks(e) + Ticks(r)
          BY <4>1, TicksAdd
        <5>2. Ticks(e) \in Nat /\ Ticks(r) \in Nat /\ Ticks(now) \in Nat
          BY <2>1, <4>1, TicksNat
        <5>3. QED
          BY <2>2, <3>3, <4>1, <5>1, <5>2
      <4>4. now < e + r
        <5>1. SUFFICES ASSUME e + r <= now PROVE FALSE
          BY <2>1, <4>1
        <5>2. Ticks(e + r) <= Ticks(now) /\ Ticks(e + r) \in Nat
              /\ Ticks(now) \in Nat
          BY <2>1, <4>1, <5>1, TicksMonotone, TicksNat
        <5>3. QED
          BY <4>3, <5>2
      <4>5. QED
        BY <2>1, <2>2, <4>2, <4>4
    <3>4. QED
      BY <3>1, <3>2, <3>3 DEF LongestIn1
  <2>5. QED
    BY <2>3, <2>4
<1>2. QED
  BY <1>1, SlowInvCorrect, PTL
-----------------------------------------------------------------------------
(* The places that the thread has still to come to, and how far the clock  *)
(* that it spins on is from the end of the sleep                           *)
PlacesLeft ==
  LET place == [settle |-> 9, gettime |-> 7, start |-> 6, sleep |-> 5,
                end |-> 3, rdtsc |-> 2, loop |-> 1,
                measure |-> 3, pause |-> 2, done |-> 0]
      place_in_spin == [gettime |-> 8, end |-> 4, done |-> 1]
  IN  7 * (CALIBRATIONS - rounds)
        + IF pc = "spin" THEN place_in_spin[spin.return_to] ELSE place[pc]

SpinLeft ==
  (IF Clock < spin.until THEN spin.until - Clock ELSE 0)
    + IF spin.timebase = 1 /\ ~spin.turned THEN 1 ELSE 0

(* Each step brings the end nearer, in the program or, while the thread    *)
(* spins, on the clock: no sleep starts over, none is without an end, also *)
(* one that an overflow has made negative (jtr.c:112-130, 134-236).        *)
CalibrationAdvances ==
  [][\/ PlacesLeft' \in Nat /\ PlacesLeft' < PlacesLeft
     \/ PlacesLeft' = PlacesLeft /\ SpinLeft' \in Nat
        /\ SpinLeft' < SpinLeft]_vars

(* What PlacesLeft is at each place.                                       *)
PlacesAt(left) ==
  /\ pc = "settle" => PlacesLeft = left + 9
  /\ pc = "spin" =>
       /\ spin.return_to = "gettime" => PlacesLeft = left + 8
       /\ spin.return_to = "end" => PlacesLeft = left + 4
       /\ spin.return_to = "done" => PlacesLeft = left + 1
  /\ pc = "gettime" => PlacesLeft = left + 7
  /\ pc = "start" => PlacesLeft = left + 6
  /\ pc = "sleep" => PlacesLeft = left + 5
  /\ pc = "end" => PlacesLeft = left + 3
  /\ pc = "rdtsc" => PlacesLeft = left + 2
  /\ pc = "loop" => PlacesLeft = left + 1
  /\ pc = "measure" => PlacesLeft = left + 3
  /\ pc = "pause" => PlacesLeft = left + 2
  /\ pc = "done" => PlacesLeft = left

LEMMA PlacesTable ==
  ASSUME CalTypeOK
  PROVE  PlacesAt(7 * (CALIBRATIONS - rounds))
<1> DEFINE left == 7 * (CALIBRATIONS - rounds)
<1>1. left \in Int
  BY CalAssumption DEF CalTypeOK
<1>2. PlacesLeft =
        left + IF pc = "spin"
               THEN [gettime |-> 8, end |-> 4, done |-> 1][spin.return_to]
               ELSE [settle |-> 9, gettime |-> 7, start |-> 6, sleep |-> 5,
                     end |-> 3, rdtsc |-> 2, loop |-> 1,
                     measure |-> 3, pause |-> 2, done |-> 0][pc]
  BY DEF PlacesLeft
<1> HIDE DEF left
<1>3. PlacesAt(left)
  BY <1>1, <1>2 DEF PlacesAt
<1>4. QED
  BY <1>3 DEF left

LEMMA PlacesTablePrimed ==
  ASSUME CalTypeOK'
  PROVE  PlacesAt(7 * (CALIBRATIONS - rounds))'
<1> DEFINE left == 7 * (CALIBRATIONS - rounds')
<1>1. left \in Int
  BY CalAssumption DEF CalTypeOK
<1>2. PlacesLeft' =
        left + IF pc' = "spin"
               THEN [gettime |-> 8, end |-> 4, done |-> 1][spin'.return_to]
               ELSE [settle |-> 9, gettime |-> 7, start |-> 6, sleep |-> 5,
                     end |-> 3, rdtsc |-> 2, loop |-> 1,
                     measure |-> 3, pause |-> 2, done |-> 0][pc']
  BY DEF PlacesLeft
<1>3. left = (7 * (CALIBRATIONS - rounds))'
  OBVIOUS
<1> HIDE DEF left
<1>4. PlacesAt(7 * (CALIBRATIONS - rounds))'
  BY <1>1, <1>2, <1>3 DEF PlacesAt
<1>5. QED
  BY <1>4

(* A turn of the spin loop reads a later time or, in the RDTSC timebase,   *)
(* is the first one.                                                       *)
LEMMA TurnAdvances ==
  ASSUME CalTypeOK, SpinTurn
  PROVE  SpinLeft' \in Nat /\ SpinLeft' < SpinLeft
<1>1. pc = "spin" /\ SpinMore /\ spin \in Spins
  BY DEF SpinTurn, CalTypeOK, Spins
<1>2. PICK delay \in Delays :
        now' = now + delay + IF spin.timebase = 1 THEN RDTSC_NS ELSE GETTIME_NS
  BY DEF SpinTurn
<1>3. /\ spin'.timebase = spin.timebase /\ spin'.until = spin.until
      /\ spin'.turned = TRUE
  BY <1>1 DEF SpinTurn, Spins
<1>4. now \in Nat /\ spin.until \in Int /\ delay \in Nat
      /\ now' \in Nat /\ now' > now /\ spin.timebase \in {1, 2}
      /\ spin.turned \in BOOLEAN
  BY <1>1, <1>2, CalAssumption DEF Spins, CalTypeOK
<1>5. Clock \in Nat /\ Clock' \in Nat /\ Clock' > Clock
  <2>0. ASSUME NEW t \in Nat, NEW u \in Nat, t < u
        PROVE  Ticks(t) \in Nat /\ Ticks(u) \in Nat /\ Ticks(t) < Ticks(u)
    BY <2>0, CalAssumption DEF Ticks
  <2>1. Ticks(now) \in Nat /\ Ticks(now') \in Nat /\ Ticks(now') > Ticks(now)
    BY <1>4, <2>0
  <2>2. QED
    BY <1>3, <1>4, <2>1 DEF Clock
<1>6. SpinMore => Clock < spin.until \/ (spin.timebase = 1 /\ ~spin.turned)
  BY DEF SpinMore
<1>7. /\ SpinLeft = (IF Clock < spin.until THEN spin.until - Clock ELSE 0)
                    + IF spin.timebase = 1 /\ ~spin.turned THEN 1 ELSE 0
      /\ SpinLeft' = (IF Clock' < spin.until THEN spin.until - Clock' ELSE 0)
  BY <1>3, <1>4, <1>5 DEF SpinLeft
<1>8. CASE Clock < spin.until
  BY <1>4, <1>5, <1>7, <1>8
<1>9. CASE ~(Clock < spin.until)
  BY <1>1, <1>4, <1>5, <1>6, <1>7, <1>9
<1>10. QED
  BY <1>8, <1>9

(* Calibrating, measuring and sleeping always come nearer to their end,    *)
(* for every cost of the clocks and any number of calibrations             *)
(* (jtr.c:112-130, 134-236).                                               *)
THEOREM AdvanceCorrect == Spec => CalibrationAdvances
<1> DEFINE Nearer == \/ PlacesLeft' \in Nat /\ PlacesLeft' < PlacesLeft
                     \/ PlacesLeft' = PlacesLeft /\ SpinLeft' \in Nat
                        /\ SpinLeft' < SpinLeft
           left == 7 * (CALIBRATIONS - rounds)
<1>1. ASSUME CalInv, Next
      PROVE  Nearer
  <2>1. CalTypeOK /\ CalTypeOK'
    BY <1>1, NextCalInv DEF CalInv
  <2>2. PlacesAt(left)
    BY <2>1, PlacesTable
  <2>3. PlacesAt(left)'
    BY <2>1, PlacesTablePrimed
  <2>4. left \in Nat /\ left' \in Nat
    <3>1. rounds \in 0..CALIBRATIONS /\ rounds' \in 0..CALIBRATIONS
      <4>1. rounds \in 0..CALIBRATIONS
        BY <2>1 DEF CalTypeOK
      <4>2. rounds' \in 0..CALIBRATIONS
        BY <2>1 DEF CalTypeOK
      <4>3. QED
        BY <4>1, <4>2
    <3>2. ASSUME NEW r \in 0..CALIBRATIONS
          PROVE  7 * (CALIBRATIONS - r) \in Nat
      BY CalAssumption
    <3>3. 7 * (CALIBRATIONS - rounds) \in Nat
      BY <3>1, <3>2
    <3>4. 7 * (CALIBRATIONS - rounds') \in Nat
      BY <3>1, <3>2
    <3>5. left \in Nat
      BY <3>3
    <3>6. left' \in Nat
      BY <3>4
    <3>7. QED
      BY <3>5, <3>6
  <2>5. rounds' = rounds => left' = left
    OBVIOUS
  <2>6. rounds' = rounds + 1 => left' = left - 7
    BY <2>1, CalAssumption DEF CalTypeOK
  <2> HIDE DEF left
  <2>7. CASE SpinTurn
    <3>1. SpinLeft' \in Nat /\ SpinLeft' < SpinLeft
      BY <2>1, <2>7, TurnAdvances
    <3>2. pc = "spin" /\ pc' = "spin" /\ rounds' = rounds
          /\ spin'.return_to = spin.return_to
          /\ spin.return_to \in {"gettime", "end", "done"}
      BY <2>1, <2>7 DEF SpinTurn, CalTypeOK
    <3>3. PlacesLeft' = PlacesLeft
      BY <2>2, <2>3, <2>5, <3>2 DEF PlacesAt
    <3>4. QED
      BY <3>1, <3>3
  <2>8. CASE SpinReturn
    <3>1. pc = "spin" /\ pc' = spin.return_to /\ rounds' = rounds
          /\ spin.return_to \in {"gettime", "end", "done"}
      BY <2>1, <2>8 DEF SpinReturn, CalTypeOK
    <3>2. QED
      BY <2>2, <2>3, <2>4, <2>5, <3>1 DEF PlacesAt
  <2>9. CASE Settle
    <3>1. pc = "settle" /\ SpinEnter(SETTLE_NS, 2, "gettime")
          /\ rounds' = rounds /\ SETTLE_NS \in Nat
      BY <2>9, CalAssumption DEF Settle
    <3>2. pc' = "spin" /\ spin'.return_to = "gettime"
      BY <2>1, <3>1, SpinEntered
    <3>3. QED
      BY <2>2, <2>3, <2>4, <2>5, <3>1, <3>2 DEF PlacesAt
  <2>10. CASE Sleep
    <3> DEFINE tenth == NANOS_PER_SEC \div 10
    <3>1. pc = "sleep" /\ SpinEnter(tenth, 2, "end")
          /\ rounds' = rounds /\ tenth \in Nat
      BY <2>10, CalAssumption, QuotientNat DEF Sleep
    <3> HIDE DEF tenth
    <3>2. pc' = "spin" /\ spin'.return_to = "end"
      BY <2>1, <3>1, SpinEntered
    <3>3. QED
      BY <2>2, <2>3, <2>4, <2>5, <3>1, <3>2 DEF PlacesAt
  <2>11. CASE Pause
    <3>1. PICK ns \in Pauses :
            \/ pc' = "done"
            \/ ns > 0 /\ SpinEnter(ns, opt_timebase, "done")
      BY <2>11 DEF Pause
    <3>2. ns \in Int /\ pc = "pause" /\ rounds' = rounds
          /\ opt_timebase \in {1, 2}
      BY <2>1, <2>11, CalAssumption DEF Pause, CalTypeOK
    <3>3. CASE ns > 0 /\ SpinEnter(ns, opt_timebase, "done")
      <4>1. ns \in Nat
        BY <3>2, <3>3
      <4>2. pc' = "spin" /\ spin'.return_to = "done"
        BY <2>1, <3>2, <3>3, <4>1, SpinEntered
      <4>3. QED
        BY <2>2, <2>3, <2>4, <2>5, <3>2, <4>2 DEF PlacesAt
    <3>4. QED
      BY <2>2, <2>3, <2>4, <2>5, <3>1, <3>2, <3>3 DEF PlacesAt
  <2>12. CASE TimeGettime \/ StartReadings \/ EndReadings \/ TimeRdtsc
              \/ Measure
    <3>1. /\ \/ pc = "gettime" /\ pc' = "start"
             \/ pc = "start" /\ pc' = "sleep"
             \/ pc = "end" /\ pc' = "rdtsc"
             \/ pc = "rdtsc" /\ pc' = "loop"
             \/ pc = "measure" /\ pc' = "pause"
          /\ rounds' = rounds
      BY <2>12 DEF TimeGettime, StartReadings, EndReadings, TimeRdtsc, Measure
    <3>2. QED
      BY <2>2, <2>3, <2>4, <2>5, <3>1 DEF PlacesAt
  <2>13. CASE TimeLoop
    <3>1. pc = "loop" /\ rounds' = rounds + 1
          /\ pc' = IF rounds' < CALIBRATIONS THEN "gettime" ELSE "measure"
      BY <2>13 DEF TimeLoop, NextCalibration
    <3>2. QED
      BY <2>2, <2>3, <2>4, <2>6, <3>1 DEF PlacesAt
  <2>14. QED
    BY <1>1, <2>7, <2>8, <2>9, <2>10, <2>11, <2>12, <2>13 DEF Next
<1>2. CalInv /\ [Next]_vars => [Nearer]_vars
  BY <1>1
<1>3. QED
  BY CalInvCorrect, <1>2, PTL DEF Spec, CalibrationAdvances
-----------------------------------------------------------------------------
(* README.md:186-187 and jtr.c:136 are right about ticks_per_sec if not    *)
(* one of the calibrations has its end readings disturbed: delays anywhere *)
(* else, all of the other calibrations' included, do no harm.              *)
THEOREM FrequencyCorrectUnlessEndsDisturbed ==
  Spec => [](quiet.ends => TicksPerSecIsClockFrequency)
<1>1. ASSUME CalInv, quiet.ends, quiet.ticks
      PROVE  ticks_per_sec = TICKS_PER_NS * NANOS_PER_SEC
  <2>1. ticks_per_sec <= TrueRate /\ ticks_per_sec >= TrueRate
    BY <1>1 DEF CalInv, RateInv
  <2>2. ticks_per_sec \in Int /\ TrueRate \in Int
    BY <1>1, CalAssumption DEF CalInv, CalTypeOK, TrueRate
  <2>3. QED
    BY <2>1, <2>2 DEF TrueRate
<1>2. CalInv => (quiet.ends => TicksPerSecIsClockFrequency)
  BY <1>1 DEF TicksPerSecIsClockFrequency
<1>3. QED
  BY <1>2, CalInvCorrect, PTL
-----------------------------------------------------------------------------
(* Delays that are short against the calibrating sleep, and against the    *)
(* 1001 calls that are timed together: with a null loop of 1 microsecond,  *)
(* less than 1 ms.                                                         *)
ShortDelays ==
  /\ 3 * MaxDelay <= NANOS_PER_SEC \div 10
  /\ 2 * (CALLS + 1) + MaxDelay <= (CALLS + 1) * LOOPS_NS + RDTSC_NS
  /\ ((LOOPS_NS + RDTSC_NS + MaxDelay) * TICKS_PER_NS) * NANOS_PER_SEC
       <= LLONG_MAX

(* The earliest that a calibrating sleep ends                              *)
SleptSince == start_ns + NANOS_PER_SEC \div 10 - GETTIME_NS - 2 * MaxDelay

(* A calibrated rate is less than twice the true one, and the cost of an   *)
(* RDTSC no more than all the delay of its own timing adds to it.          *)
LoopsInv ==
  /\ pc = "spin" /\ spin.return_to = "end" => spin.until >= SleptSince
  /\ pc = "end" => now >= SleptSince
  /\ pc \in {"rdtsc", "loop"} \/ rounds > 0 => ticks_per_sec <= 2 * TrueRate
  /\ pc = "loop" =>
       rdtsc_cost <=
         PerCall(((CALLS * RDTSC_NS + MaxDelay) * TrueRate) \div ticks_per_sec)
  /\ loops_cost > 0

LEMMA TrueRateNat == TrueRate \in Nat \ {0}
BY CalAssumption DEF TrueRate

(* A null loop always takes longer than what one of the delayed RDTSC      *)
(* readings can have taken.                                                *)
LEMMA LoopsTakeLonger ==
  ASSUME ShortDelays, NEW rate \in Nat \ {0}, rate <= 2 * TrueRate,
         NEW cost \in Nat, NEW delay \in Nat,
         cost <= PerCall(((CALLS * RDTSC_NS + MaxDelay) * TrueRate) \div rate)
  PROVE  ((LOOPS_NS + RDTSC_NS + delay) * TrueRate) \div rate - cost > 0
<1> DEFINE n == CALLS + 1
           w == CALLS * RDTSC_NS + MaxDelay
           l == LOOPS_NS + RDTSC_NS
           X == w * TrueRate
           q == X \div rate
<1>1. TrueRate \in Nat \ {0} /\ n \in Nat \ {0} /\ w \in Nat /\ l \in Nat
  BY TrueRateNat, CalAssumption
<1>2. w + 2 * n <= n * l
  <2>1. n * l = (CALLS + 1) * LOOPS_NS + CALLS * RDTSC_NS + RDTSC_NS
        /\ (CALLS + 1) * LOOPS_NS \in Nat /\ CALLS * RDTSC_NS \in Nat
    BY CalAssumption
  <2>2. QED
    BY <2>1, CalAssumption DEF ShortDelays
<1>3. l + delay = LOOPS_NS + RDTSC_NS + delay
  BY CalAssumption
<1>4. cost <= q \div n
  BY DEF PerCall
<1> HIDE DEF n, w, l
<1>5. X \in Nat
  BY <1>1
<1> DEFINE b == l * TrueRate
           a == rate * cost
<1>6. b \in Nat /\ a \in Nat
  BY <1>1
<1>7. X + n * (2 * TrueRate) <= n * b
  <2>1. (w + 2 * n) * TrueRate <= (n * l) * TrueRate
    BY <1>1, <1>2
  <2>2. (w + 2 * n) * TrueRate = X + n * (2 * TrueRate)
        /\ (n * l) * TrueRate = n * b
    BY <1>1
  <2>3. QED
    BY <2>1, <2>2
<1>8. q \in Nat /\ rate * q <= X
  BY <1>5, QuotientBounds, QuotientNat
<1> HIDE DEF q, X
<1>9. n * cost <= q
  <2> DEFINE k == q \div n
  <2>1. k \in Nat /\ n * k <= q /\ cost <= k
    BY <1>1, <1>4, <1>8, QuotientBounds, QuotientNat
  <2> HIDE DEF k
  <2>2. n * cost <= n * k /\ n * cost \in Nat /\ n * k \in Nat
    BY <1>1, <2>1
  <2>3. QED
    BY <1>8, <2>1, <2>2
<1>10. n * a <= X
  <2>1. rate * (n * cost) <= rate * q
    BY <1>1, <1>8, <1>9
  <2>2. rate * (n * cost) = n * a /\ n * a \in Nat /\ rate * q \in Nat
    BY <1>1, <1>8
  <2>3. QED
    BY <1>5, <1>8, <2>1, <2>2
<1>11. a + 2 * TrueRate <= b
  <2> DEFINE c == a + 2 * TrueRate
  <2>1. c \in Nat /\ n * c = n * a + n * (2 * TrueRate)
    BY <1>1, <1>6
  <2>2. n * a \in Nat /\ n * (2 * TrueRate) \in Nat /\ n * b \in Nat
    BY <1>1, <1>6
  <2> HIDE DEF c, a, b
  <2>3. n * c <= n * b
    BY <1>5, <1>7, <1>10, <2>1, <2>2
  <2>4. c <= b
    BY <1>1, <1>6, <2>1, <2>3
  <2>5. QED
    BY <2>4 DEF c
<1>12. rate * (cost + 1) = a + rate
  OBVIOUS
<1>13. (l + delay) * TrueRate = b + delay * TrueRate
       /\ delay * TrueRate \in Nat
  BY <1>1
<1> HIDE DEF a, b
<1>14. rate * (cost + 1) <= (l + delay) * TrueRate
       /\ (l + delay) * TrueRate \in Int
  BY <1>1, <1>6, <1>11, <1>12, <1>13
<1> DEFINE top == (l + delay) * TrueRate
<1>15. cost + 1 <= top \div rate /\ top \div rate \in Int
  BY <1>14, QuotientAtLeast, QuotientBounds
<1>16. top \div rate - cost > 0
  <2> HIDE DEF top
  <2>1. QED
    BY <1>15
<1>17. QED
  BY <1>3, <1>16

LEMMA RateBelowTwice ==
  ASSUME ShortDelays, SlowInv, LoopsInv, EndReadings
  PROVE  ticks_per_sec' <= 2 * TrueRate
<1>1. CalTypeOK /\ Started /\ now >= SleptSince /\ pc = "end"
      /\ CalTypeOK'
  <2>1. CalInv' 
    BY NextCalInv DEF SlowInv, Next
  <2>2. QED
    BY <2>1 DEF SlowInv, CalInv, SpanInv, LoopsInv, EndReadings
<1>2. PICK delay \in Delays :
        ticks_per_sec' =
          Least(Quotient(
                  Wrap((Ticks(now + RDTSC_NS) - start_ticks) * NANOS_PER_SEC),
                  now + RDTSC_NS + delay + GETTIME_NS - start_ns),
                ticks_per_sec)
  BY <1>1 DEF EndReadings
<1> DEFINE timed == now + RDTSC_NS + delay + GETTIME_NS - start_ns
           P == (now * TICKS_PER_NS) * NANOS_PER_SEC
           rate == Quotient(Wrap(P), timed)
<1>3. Ticks(now + RDTSC_NS) - start_ticks = now * TICKS_PER_NS
  BY <1>1, CalAssumption DEF Started, Ticks, CalTypeOK
<1>4. ticks_per_sec' = Least(rate, ticks_per_sec)
  BY <1>2, <1>3
<1>5. timed \in Nat \ {0} /\ now <= 2 * timed /\ now \in Nat
  <2> DEFINE tenth == NANOS_PER_SEC \div 10
  <2>1. /\ tenth \in Nat /\ 3 * MaxDelay <= tenth
        /\ now >= start_ns + tenth - GETTIME_NS - 2 * MaxDelay
    BY <1>1, CalAssumption, QuotientNat DEF SleptSince, ShortDelays
  <2>2. /\ start_ns \in Nat /\ now \in Nat /\ delay \in Nat
        /\ start_ns <= RDTSC_NS + GETTIME_NS + MaxDelay
    BY <1>1, CalAssumption DEF CalTypeOK, Started
  <2>3. RDTSC_NS \in Nat \ {0} /\ GETTIME_NS \in Nat /\ MaxDelay \in Nat
    BY CalAssumption
  <2> HIDE DEF tenth
  <2>4. QED
    BY <2>1, <2>2, <2>3
<1> HIDE DEF timed
<1>6. P \in Nat /\ P = now * TrueRate
  BY <1>5, CalAssumption DEF TrueRate
<1>7. P <= timed * (2 * TrueRate)
  BY <1>5, <1>6, TrueRateNat
<1> HIDE DEF P
<1>8. Wrap(P) \in Int /\ Wrap(P) <= P
  BY <1>6, WrapBelow
<1>9. 2 * TrueRate \in Int /\ timed * (2 * TrueRate) \in Int
  BY <1>5, TrueRateNat
<1>10. rate \in Int /\ rate <= 2 * TrueRate
  <2>1. rate \in Int /\ rate <= P \div timed
    BY <1>5, <1>6, <1>8, QuotientInt, QuotientBelow
  <2>2. P \div timed \in Int /\ P \div timed <= 2 * TrueRate
    BY <1>5, <1>6, <1>7, <1>9, QuotientAtMost, QuotientBounds
  <2>3. QED
    BY <1>9, <2>1, <2>2
<1> HIDE DEF rate
<1>11. QED
  BY <1>1, <1>4, <1>9, <1>10 DEF Least, CalTypeOK

LEMMA InitLoopsInv == Init => LoopsInv
BY CalAssumption DEF Init, LoopsInv

LEMMA NextLoopsInv ==
  ASSUME ShortDelays, SlowInv, LoopsInv, [Next]_vars
  PROVE  LoopsInv'
<1>1. CalInv /\ CalInv' /\ CalTypeOK /\ CalTypeOK'
  BY NextCalInv DEF SlowInv, CalInv
<1>2. CASE Settle
  <2>1. SpinEnter(SETTLE_NS, 2, "gettime") /\ SETTLE_NS \in Nat
        /\ pc = "settle" /\ UNCHANGED <<costs, rounds>>
    BY <1>2, CalAssumption DEF Settle
  <2>2. pc' = "spin" /\ spin'.return_to = "gettime"
    BY <1>1, <2>1, SpinEntered
  <2>3. QED
    BY <2>1, <2>2 DEF LoopsInv, costs
<1>3. CASE Sleep
  <2> DEFINE tenth == NANOS_PER_SEC \div 10
  <2>1. gettime_cost <= GETTIME_NS + MaxDelay /\ tenth \in Nat
        /\ SpinEnter(tenth, 2, "end") /\ UNCHANGED <<costs, rounds, locals>>
        /\ now = start_ns /\ pc = "sleep"
    BY <1>1, <1>3, QuotientNat, CalAssumption
       DEF CalInv, SpanInv, SlowInv, TimedInv, Sleep
  <2> HIDE DEF tenth
  <2>2. Adjusted(tenth) + 2 * (GETTIME_NS + MaxDelay) >= tenth
        /\ Adjusted(tenth) \in Nat
    BY <1>1, <2>1, AdjustedCalibrated, AdjustedNat DEF CalTypeOK
  <2>3. /\ pc' = "spin" /\ now' >= now + GETTIME_NS /\ now' \in Nat
        /\ spin'.until = now' + Adjusted(tenth)
    BY <1>1, <2>1, SpinEntered
  <2>4. spin'.until >= start_ns' + tenth - GETTIME_NS - 2 * MaxDelay
    <3>1. start_ns' = start_ns /\ start_ns \in Nat
      BY <1>1, <2>1 DEF locals, CalTypeOK
    <3>2. QED
      BY <2>1, <2>2, <2>3, <3>1, CalAssumption
  <2>5. QED
    BY <2>1, <2>3, <2>4 DEF LoopsInv, SleptSince, costs, tenth
<1>4. CASE Pause
  <2>1. PICK ns \in Pauses :
          \/ pc' = "done"
          \/ ns > 0 /\ SpinEnter(ns, opt_timebase, "done")
    BY <1>4 DEF Pause
  <2>2. UNCHANGED <<costs, rounds>> /\ ns \in Int /\ opt_timebase \in {1, 2}
        /\ pc = "pause"
    BY <1>1, <1>4, CalAssumption DEF Pause, CalTypeOK
  <2>3. CASE ns > 0 /\ SpinEnter(ns, opt_timebase, "done")
    <3>1. ns \in Nat
      BY <2>2, <2>3
    <3>2. pc' = "spin" /\ spin'.return_to = "done"
      BY <1>1, <2>2, <2>3, <3>1, SpinEntered
    <3>3. QED
      BY <2>2, <3>2 DEF LoopsInv, costs
  <2>4. QED
    BY <2>1, <2>2, <2>3 DEF LoopsInv, costs
<1>5. CASE SpinTurn
  <2>1. /\ pc' = "spin" /\ pc = "spin" /\ UNCHANGED <<costs, rounds, locals>>
        /\ spin'.return_to = spin.return_to /\ spin'.until = spin.until
    BY <1>1, <1>5 DEF SpinTurn, CalTypeOK
  <2>2. QED
    BY <2>1 DEF LoopsInv, SleptSince, costs, locals
<1>6. CASE SpinReturn
  <2>1. /\ pc = "spin" /\ pc' = spin.return_to /\ ~SpinMore
        /\ spin.return_to \in {"gettime", "end", "done"}
        /\ UNCHANGED <<now, costs, rounds, locals>>
        /\ spin.until \in Int /\ now \in Nat
    BY <1>1, <1>6 DEF SpinReturn, CalTypeOK
  <2>2. ASSUME spin.return_to = "end" PROVE now' >= SleptSince'
    <3>1. spin.timebase = 2 /\ spin.until >= SleptSince
      BY <1>1, <2>1, <2>2 DEF CalInv, SpanInv, LoopsInv
    <3>2. now >= spin.until
      BY <2>1, <3>1 DEF SpinMore, Clock
    <3>3. SleptSince \in Int /\ SleptSince' = SleptSince
      <4>1. NANOS_PER_SEC \div 10 \in Nat /\ start_ns \in Nat
        BY <1>1, CalAssumption, QuotientNat DEF CalTypeOK
      <4>2. QED
        BY <2>1, <4>1, CalAssumption DEF SleptSince, locals
    <3>4. QED
      BY <2>1, <3>1, <3>2, <3>3
  <2>3. QED
    BY <2>1, <2>2 DEF LoopsInv, costs
<1>7. CASE TimeGettime \/ StartReadings \/ Measure
  <2>1. /\ pc \in {"gettime", "start", "measure"}
        /\ pc' \in {"start", "sleep", "pause"}
        /\ UNCHANGED <<rdtsc_cost, loops_cost, ticks_per_sec, rounds>>
    BY <1>7 DEF TimeGettime, StartReadings, Measure, costs
  <2>2. QED
    BY <2>1 DEF LoopsInv
<1>8. CASE EndReadings
  <2>1. ticks_per_sec' <= 2 * TrueRate
    BY <1>8, RateBelowTwice
  <2>2. pc' = "rdtsc" /\ UNCHANGED <<loops_cost, rounds>>
    BY <1>8 DEF EndReadings
  <2>3. QED
    BY <2>1, <2>2 DEF LoopsInv
<1>9. CASE TimeRdtsc
  <2>1. PICK delay \in Delays :
          rdtsc_cost' =
            Least(PerCall(ToNanos(Ticks(CALLS * RDTSC_NS + delay), ticks_per_sec)),
                  rdtsc_cost)
    BY <1>9 DEF TimeRdtsc
  <2>2. pc = "rdtsc" /\ pc' = "loop"
        /\ UNCHANGED <<ticks_per_sec, loops_cost, rounds>>
    BY <1>9 DEF TimeRdtsc
  <2> DEFINE t == CALLS * RDTSC_NS + delay
             w == CALLS * RDTSC_NS + MaxDelay
             P == Ticks(t) * NANOS_PER_SEC
             X == w * TrueRate
             ns == Quotient(Wrap(P), ticks_per_sec)
             q == X \div ticks_per_sec
  <2>3. t \in Nat /\ w \in Nat /\ t <= w
    BY CalAssumption
  <2>4. rdtsc_cost' = Least(PerCall(ns), rdtsc_cost)
    BY <2>1 DEF ToNanos
  <2> HIDE DEF t, w
  <2>5. P \in Nat /\ P = t * TrueRate /\ P <= X /\ X \in Nat
    <3>1. P \in Nat /\ P = t * TrueRate
      BY <2>3, CalAssumption DEF Ticks, TrueRate
    <3> HIDE DEF P
    <3>2. t * TrueRate <= w * TrueRate /\ w * TrueRate \in Nat
      BY <2>3, TrueRateNat
    <3>3. QED
      BY <3>1, <3>2
  <2> HIDE DEF P, X
  <2>6. Wrap(P) \in Int /\ Wrap(P) <= X
    BY <2>5, WrapBelow
  <2>7. ticks_per_sec \in Nat \ {0} /\ rdtsc_cost \in Int
    BY <1>1 DEF CalTypeOK
  <2>8. ns \in Int /\ q \in Int /\ ns <= q
    <3>1. X \in Nat
      BY <2>5
    <3>2. ns \in Int /\ q \in Int
      BY <2>6, <2>7, <3>1, QuotientBounds, QuotientInt
    <3>3. ns <= q
      BY <2>6, <2>7, <3>1, QuotientBelow
    <3>4. QED
      BY <3>2, <3>3
  <2> HIDE DEF ns, q
  <2>9. PerCall(ns) \in Int /\ PerCall(q) \in Int /\ PerCall(ns) <= PerCall(q)
    <3>1. CALLS + 1 \in Nat \ {0}
      BY CalAssumption
    <3>2. QED
      BY <2>8, <3>1, QuotientMonotone, QuotientBounds DEF PerCall
  <2>10. rdtsc_cost' <= PerCall(q)
    BY <2>4, <2>7, <2>9 DEF Least
  <2>11. rdtsc_cost' <=
           PerCall(((CALLS * RDTSC_NS + MaxDelay) * TrueRate)
                     \div ticks_per_sec')
    BY <2>2, <2>10 DEF q, X, w
  <2>12. QED
    BY <2>2, <2>11 DEF LoopsInv
<1>10. CASE TimeLoop
  <2>1. PICK delay \in Delays :
          loops_cost' =
            Least(ToNanos(Ticks(LOOPS_NS + RDTSC_NS + delay), ticks_per_sec)
                    - rdtsc_cost, loops_cost)
    BY <1>10 DEF TimeLoop
  <2>2. /\ pc = "loop" /\ pc' \in {"gettime", "measure"}
        /\ UNCHANGED <<ticks_per_sec, rdtsc_cost>>
    BY <1>10 DEF TimeLoop, NextCalibration
  <2> DEFINE t == LOOPS_NS + RDTSC_NS + delay
             w == LOOPS_NS + RDTSC_NS + MaxDelay
             P == Ticks(t) * NANOS_PER_SEC
             ns == P \div ticks_per_sec
  <2>3. t \in Nat /\ w \in Nat /\ t <= w /\ delay \in Nat
        /\ (w * TICKS_PER_NS) * NANOS_PER_SEC <= LLONG_MAX
    BY CalAssumption DEF ShortDelays
  <2>4. loops_cost' =
          Least(Quotient(Wrap(P), ticks_per_sec) - rdtsc_cost, loops_cost)
    BY <2>1 DEF ToNanos
  <2>5. ticks_per_sec \in Nat \ {0} /\ ticks_per_sec <= 2 * TrueRate
        /\ rdtsc_cost \in Nat /\ loops_cost \in Int /\ loops_cost > 0
        /\ rdtsc_cost <=
             PerCall(((CALLS * RDTSC_NS + MaxDelay) * TrueRate)
                       \div ticks_per_sec)
    BY <1>1, <2>2 DEF CalTypeOK, LoopsInv
  <2>6. (t * TrueRate) \div ticks_per_sec - rdtsc_cost > 0
    BY <2>3, <2>5, LoopsTakeLonger
  <2> HIDE DEF t, w
  <2>7. P \in 0..LLONG_MAX /\ P = t * TrueRate
    <3>1. P \in Nat /\ P = t * TrueRate
      BY <2>3, CalAssumption DEF Ticks, TrueRate
    <3>2. (w * TICKS_PER_NS) * NANOS_PER_SEC = w * TrueRate
      BY <2>3, CalAssumption DEF TrueRate
    <3> HIDE DEF P
    <3>3. t * TrueRate <= w * TrueRate /\ w * TrueRate \in Nat
      BY <2>3, TrueRateNat
    <3>4. QED
      BY <2>3, <3>1, <3>2, <3>3, CalAssumption
  <2> HIDE DEF P
  <2>8. Quotient(Wrap(P), ticks_per_sec) = ns
    BY <2>5, <2>7, WrapFits, QuotientOfNat, CalAssumption
  <2>9. ns \in Int /\ ns - rdtsc_cost > 0
        /\ loops_cost' = Least(ns - rdtsc_cost, loops_cost)
    BY <2>4, <2>5, <2>6, <2>7, <2>8, QuotientBounds
  <2> HIDE DEF ns
  <2>10. loops_cost' > 0
    BY <2>5, <2>9 DEF Least
  <2>11. QED
    BY <2>2, <2>5, <2>10 DEF LoopsInv
<1>11. CASE UNCHANGED vars
  BY <1>11 DEF LoopsInv, SleptSince, vars, costs, locals
<1>12. QED
  BY <1>2, <1>3, <1>4, <1>5, <1>6, <1>7, <1>8, <1>9, <1>10, <1>11 DEF Next

(* jtr.c:467-468 is right about jtr_1000_loops_cost on a machine whose     *)
(* delays are short: it is positive after any number of calibrations, and  *)
(* jtr_busy_loop_wait_count() divides by a positive cost, not by zero.     *)
THEOREM LoopsCostCorrectForShortDelays ==
  ASSUME ShortDelays
  PROVE  Spec => []LoopsCostIsPositive
<1>1. LoopsInv => LoopsCostIsPositive
  BY DEF LoopsInv, LoopsCostIsPositive
<1>2. SlowInv /\ LoopsInv /\ [Next]_vars => LoopsInv'
  BY NextLoopsInv
<1>3. QED
  BY <1>1, <1>2, InitLoopsInv, SlowInvCorrect, PTL DEF Spec
=============================================================================
