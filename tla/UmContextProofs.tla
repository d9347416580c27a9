-------------------------- MODULE UmContextProofs --------------------------
(***************************************************************************)
(* Theorems about UmContext.tla, for every set of programs and options and *)
(* every number of loops.  The safety properties follow from one inductive *)
(* invariant, UmInv, that ties every object to the place main() has got    *)
(* to.                                                                     *)
(***************************************************************************)
EXTENDS UmContext, TLAPS

SourceOpen == {"settle", "prepare", "send", "null", "print", "plot",
               "src_delete"}
BeforePrint == {"context", "start", "spawn", "source", "settle", "prepare",
                "send", "null", "print"}
AfterUnblock == {"join", "ctx_delete", "return", "done"}
AfterJoin == {"ctx_delete", "return", "done"}

(* Each object exists between the calls that create and delete it.         *)
ObjectsInv ==
  /\ ctx = IF pc = "context" THEN "none"
           ELSE IF pc \in {"return", "done"} THEN "deleted" ELSE "open"
  /\ src = IF pc \in {"context", "start", "spawn", "source"} THEN "none"
           ELSE IF pc \in SourceOpen THEN "open" ELSE "deleted"
  /\ pc \in {"settle", "prepare"} /\ program = "ss" => message_buf = "source"
  /\ pc \in {"send", "null"} => message_buf # "none"

(* The thread runs from pthread_create() until, at the earliest,           *)
(* jtr_ctx_running is cleared, and is gone after the join.                 *)
ThreadInv ==
  /\ thread = "none" <=> pc \in {"context", "start", "spawn"}
  /\ jtr_ctx_running <=> pc \in SourceOpen \cup {"spawn", "source", "stop"}
  /\ thread = "returned" => ~jtr_ctx_running
  /\ pc \in AfterJoin => thread = "returned"

(* Once the thread has used up its decision to serve, it sees the stop.    *)
LateInv ==
  late_services # 0 =>
    late_services = 1 /\ pc \in AfterUnblock /\ thread # "call"

(* Passes come in pairs, and all of them come before the report.           *)
PassInv ==
  /\ pc \in {"context", "start", "spawn", "source", "settle", "prepare"}
       => passes = 0
  /\ pc = "send" => passes % 2 = 0 /\ passes < 2 * opt_loops
  /\ pc = "null" => passes % 2 = 1
  /\ pc \in {"print", "plot", "src_delete", "stop", "unblock"} \cup AfterUnblock
       => passes = 2 * opt_loops

ExitInv == status = "exited" => pc = "done"

(* Only printf() puts something on stdout, and -v -1 keeps it from that.   *)
PrintInv == stdout = "empty" <=> quiet \/ pc \in BeforePrint

UmInv ==
  /\ UmTypeOK /\ ObjectsInv /\ ThreadInv /\ LateInv /\ PassInv /\ ExitInv
  /\ PrintInv
-----------------------------------------------------------------------------
(* UmInv is inductive: one step per action of main() and of the thread.    *)
LEMMA InitUmInv == Init => UmInv
<1> SUFFICES ASSUME Init PROVE UmInv
  OBVIOUS
<1>1. UmTypeOK
  <2>1. program \in {"src", "ss", "smx"}
        /\ pin \in BOOLEAN /\ fifo \in BOOLEAN /\ spin \in BOOLEAN
        /\ quiet \in BOOLEAN /\ gnuplot \in BOOLEAN
    BY UmAssumption, Zenon DEF Init
  <2>2. jtr_ctx_running \in BOOLEAN
    BY Zenon DEF Init
  <2>3. passes \in 0..(2 * opt_loops) /\ late_services \in 0..2
    BY UmAssumption DEF Init
  <2>4. QED
    BY <2>1, <2>2, <2>3 DEF Init, UmTypeOK
<1>2. ObjectsInv /\ ThreadInv
  BY DEF Init, ObjectsInv, ThreadInv, SourceOpen, AfterJoin
<1>3. LateInv /\ PassInv /\ ExitInv /\ PrintInv
  BY DEF Init, LateInv, PassInv, ExitInv, PrintInv, BeforePrint, AfterUnblock
<1>4. QED
  BY <1>1, <1>2, <1>3 DEF UmInv

LEMMA NextUmInv ==
  ASSUME UmInv, [Next]_vars
  PROVE  UmInv'
<1> USE UmAssumption
    DEF UmInv, UmTypeOK, ObjectsInv, ThreadInv, LateInv, PassInv, ExitInv,
        PrintInv, SourceOpen, BeforePrint, AfterUnblock, AfterJoin, options, output, threadVars,
        objects
<1>1. CASE CreateContext
  BY <1>1 DEF CreateContext, Step
<1>2. CASE StartRunning
  BY <1>2 DEF StartRunning, Step
<1>3. CASE SpawnThread
  BY <1>3 DEF SpawnThread, Step
<1>4. CASE CreateSource
  BY <1>4 DEF CreateSource, Step
<1>5. CASE Settle
  BY <1>5 DEF Settle, Step
<1>6. CASE Prepare
  BY <1>6 DEF Prepare, Step, NextPass
<1>7. CASE SendPass
  BY <1>7 DEF SendPass, Step
<1>8. CASE NullPass
  BY <1>8 DEF NullPass
<1>9. CASE PrintResults
  BY <1>9 DEF PrintResults, Step
<1>10. CASE DeleteSource
  BY <1>10 DEF DeleteSource, Step
<1>11. CASE StopRunning
  <2>1. ~jtr_ctx_running' /\ jtr_ctx_running' \in BOOLEAN
    BY <1>11, Zenon DEF StopRunning
  <2>2. QED
    BY <1>11, <2>1 DEF StopRunning, Step
<1>12. CASE Unblock
  BY <1>12 DEF Unblock, Step
<1>13. CASE Join
  BY <1>13 DEF Join, Step
<1>14. CASE DeleteContext
  BY <1>14 DEF DeleteContext, Step
<1>15. CASE Return
  BY <1>15 DEF Return, Step
<1>16. CASE ThreadPin
  BY <1>16 DEF ThreadPin, ThreadStep, CanRun, othersOfThread
<1>17. CASE ThreadTest
  BY <1>17 DEF ThreadTest, ThreadStep, CanRun, othersOfThread
<1>18. CASE ThreadEnter
  BY <1>18 DEF ThreadEnter, ThreadStep, CanRun, othersOfThread
<1>19. CASE ThreadLeave
  BY <1>19 DEF ThreadLeave, ThreadStep, CanRun, othersOfThread
<1>20. CASE Abort
  BY <1>20 DEF Abort
<1>21. CASE UNCHANGED vars
  BY <1>21 DEF vars
<1>22. CASE WritePlot
  BY <1>22 DEF WritePlot, Step
<1>23. QED
  BY <1>1, <1>2, <1>3, <1>4, <1>5, <1>6, <1>7, <1>8, <1>9, <1>10, <1>11,
     <1>12, <1>13, <1>14, <1>15, <1>16, <1>17, <1>18, <1>19, <1>20, <1>21,
     <1>22 DEF Next, Main, Thread
-----------------------------------------------------------------------------
(* Type correctness, with the bound on the passes (jtr_src.c:215-258).     *)
THEOREM UmTypeCorrect == Spec => []UmTypeOK
<1>1. UmInv => UmTypeOK
  BY DEF UmInv
<1>2. QED
  BY InitUmInv, NextUmInv, <1>1, PTL DEF Spec

(* While a source exists, its context exists and is being served.          *)
THEOREM ServiceCorrect == Spec => []ServiceSpansSource
<1>1. UmInv => ServiceSpansSource
  BY DEF UmInv, ObjectsInv, ThreadInv, SourceOpen, ServiceSpansSource
<1>2. QED
  BY InitUmInv, NextUmInv, <1>1, PTL DEF Spec

(* Sends only happen with a source and a valid message buffer.             *)
THEOREM SendsCorrect == Spec => []SendsUseLiveObjects
<1>1. UmInv => SendsUseLiveObjects
  BY DEF UmInv, ObjectsInv, SourceOpen, SendsUseLiveObjects
<1>2. QED
  BY InitUmInv, NextUmInv, <1>1, PTL DEF Spec

(* After the unblock the thread enters lbm_context_process_events() at     *)
(* most once more, so the join waits for at most one timeout.              *)
THEOREM LateServiceCorrect == Spec => []AtMostOneLateService
<1>1. UmInv => AtMostOneLateService
  BY DEF UmInv, UmTypeOK, LateInv, AtMostOneLateService
<1>2. QED
  BY InitUmInv, NextUmInv, <1>1, PTL DEF Spec

(* A process that returns 0 has measured everything and left nothing.      *)
THEOREM ExitCorrect == Spec => []ExitIsClean
<1>1. UmInv => ExitIsClean
  BY DEF UmInv, ObjectsInv, ThreadInv, PassInv, ExitInv, PrintInv,
         SourceOpen, BeforePrint, AfterUnblock, AfterJoin, ExitIsClean
<1>2. QED
  BY InitUmInv, NextUmInv, <1>1, PTL DEF Spec

(* No failure makes the process print the results of some of its passes.   *)
THEOREM PrintsCorrect == Spec => []PrintsOnlyCompleteReports
<1>1. UmInv => PrintsOnlyCompleteReports
  BY DEF UmInv, UmTypeOK, PassInv, PrintInv, BeforePrint, AfterUnblock,
         PrintsOnlyCompleteReports
<1>2. QED
  BY InitUmInv, NextUmInv, <1>1, PTL DEF Spec
-----------------------------------------------------------------------------
(* The steps that a user of the context, or the context, can see           *)
LEMMA ServiceStep ==
  ASSUME UmInv, [Next]_vars
  PROVE  [Service!ServiceNext]_(Service!serviceVars)
<1> USE DEF Service!ServiceNext, Service!serviceVars, options, output,
            threadVars, objects
<1>1. CASE CreateContext
  <2>1. Service!Open
    BY <1>1 DEF CreateContext, Step, Service!Open, UmInv, ObjectsInv
  <2>2. QED
    BY <2>1
<1>2. CASE CreateSource
  <2>1. Service!Enter("source")
    BY <1>2 DEF CreateSource, Step, Service!Enter, UmInv, ObjectsInv,
                SourceOpen
  <2>2. QED
    BY <2>1
<1>3. CASE DeleteSource
  <2>1. Service!Leave("source")
    BY <1>3 DEF DeleteSource, Step, Service!Leave, UmInv, ObjectsInv,
                SourceOpen
  <2>2. QED
    BY <2>1
<1>4. CASE DeleteContext
  <2>1. Service!Delete
    BY <1>4 DEF DeleteContext, Step, Service!Delete, UmInv, ObjectsInv,
                ThreadInv, SourceOpen, AfterJoin
  <2>2. QED
    BY <2>1
<1>5. CASE ThreadEnter
  <2>1. Service!Enter("thread")
    BY <1>5 DEF ThreadEnter, ThreadStep, othersOfThread, Service!Enter, UmInv,
                ObjectsInv, ThreadInv, AfterJoin
  <2>2. QED
    BY <2>1
<1>6. CASE ThreadLeave
  <2>1. Service!Leave("thread")
    BY <1>6 DEF ThreadLeave, ThreadStep, othersOfThread, Service!Leave
  <2>2. QED
    BY <2>1
<1>7. CASE StartRunning \/ SpawnThread \/ Settle \/ Prepare \/ SendPass
           \/ NullPass \/ PrintResults \/ WritePlot \/ StopRunning \/ Unblock
           \/ Join \/ Return
  <2>1. UNCHANGED <<ctx, src>> /\ (thread' = "serving" <=> thread = "serving")
    BY <1>7 DEF StartRunning, SpawnThread, Settle, Prepare, SendPass, NullPass,
                PrintResults, WritePlot, StopRunning, Unblock, Join, Return, Step,
                UmInv, ThreadInv
  <2>2. QED
    BY <2>1
<1>8. CASE ThreadPin \/ ThreadTest \/ Abort \/ UNCHANGED vars
  <2>1. UNCHANGED <<ctx, src>> /\ (thread' = "serving" <=> thread = "serving")
    BY <1>8 DEF ThreadPin, ThreadTest, ThreadStep, othersOfThread, Abort, vars
  <2>2. QED
    BY <2>1
<1>9. QED
  BY <1>1, <1>2, <1>3, <1>4, <1>5, <1>6, <1>7, <1>8 DEF Next, Main, Thread

(* UmContext implements ContextService: the context is created before its  *)
(* source and its thread use it and deleted after both have left it,       *)
(* whatever the interleaving of the two threads (jtr_src.c:189-278).       *)
THEOREM ServiceImplemented == Spec => ImplementsContextService
<1>1. Init => Service!ServiceInit
  BY DEF Init, Service!ServiceInit
<1>2. QED
  BY <1>1, InitUmInv, NextUmInv, ServiceStep, PTL
     DEF Spec, ImplementsContextService, Service!ServiceSpec
-----------------------------------------------------------------------------
(* The steps to the exit, by the place of each thread.                     *)
MainLeft == [unblock |-> 4, join |-> 3, ctx_delete |-> 2, return |-> 1,
             done |-> 0][pc]
ThreadLeft == [pin |-> 2, call |-> 3, serving |-> 2, test |-> 1,
               returned |-> 0][thread]

LEMMA StepsByThread ==
  ASSUME UmTypeOK, Stopping, thread # "none"
  PROVE  /\ MainLeft \in 0..4 /\ ThreadLeft \in 0..3
         /\ StepsToExit = MainLeft + ThreadLeft
                          + IF status = "running" THEN 1 ELSE 0
BY DEF UmTypeOK, Stopping, MainLeft, ThreadLeft, StepsToExit

LEMMA StepsByThreadPrimed ==
  ASSUME UmTypeOK', Stopping', thread' # "none"
  PROVE  /\ MainLeft' \in 0..4 /\ ThreadLeft' \in 0..3
         /\ StepsToExit' = MainLeft' + ThreadLeft'
                           + IF status' = "running" THEN 1 ELSE 0
BY DEF UmTypeOK, Stopping, MainLeft, ThreadLeft, StepsToExit

(* Stopping takes at most eight steps of main() and its thread together,   *)
(* whatever the interleaving, the program, its options and the number of   *)
(* its loops (jtr_src.c:274-279).                                          *)
THEOREM StopCorrect == Spec => StopIsBounded
<1> DEFINE Nearer == Stopping =>
                       StepsToExit' \in Nat /\ StepsToExit' < StepsToExit
<1>1. ASSUME UmInv, Next, Stopping
      PROVE  StepsToExit' \in Nat /\ StepsToExit' < StepsToExit
  <2>1. UmTypeOK /\ thread # "none" /\ ~jtr_ctx_running
    BY <1>1 DEF UmInv, ThreadInv, Stopping, SourceOpen
  <2>2. UmInv'
    BY <1>1, NextUmInv
  <2>3. /\ MainLeft \in 0..4 /\ ThreadLeft \in 0..3
        /\ StepsToExit = MainLeft + ThreadLeft
                         + IF status = "running" THEN 1 ELSE 0
    BY <1>1, <2>1, StepsByThread
  <2>4. ASSUME Stopping'
        PROVE  /\ MainLeft' \in 0..4 /\ ThreadLeft' \in 0..3
               /\ StepsToExit' = MainLeft' + ThreadLeft'
                                 + IF status' = "running" THEN 1 ELSE 0
    <3>1. UmTypeOK' /\ thread' # "none"
      BY <2>2, <2>4 DEF UmInv, ThreadInv, Stopping
    <3>2. QED
      BY <2>4, <3>1, StepsByThreadPrimed
  <2>5. CASE Main
    <3>1. /\ status = "running" /\ thread' = thread
          /\ status' \in {"running", "exited"}
          /\ \/ pc = "unblock" /\ pc' = "join"
             \/ pc = "join" /\ pc' = "ctx_delete"
             \/ pc = "ctx_delete" /\ pc' = "return"
             \/ pc = "return" /\ pc' = "done"
      BY <1>1, <2>5
         DEF Main, CreateContext, StartRunning, SpawnThread, CreateSource,
             Settle, Prepare, SendPass, NullPass, PrintResults, WritePlot,
             DeleteSource, StopRunning, Unblock, Join, DeleteContext, Return, Step, Stopping,
             threadVars
    <3>2. Stopping' /\ ThreadLeft' = ThreadLeft /\ MainLeft' < MainLeft
      BY <3>1 DEF Stopping, MainLeft, ThreadLeft
    <3>3. QED
      BY <2>3, <2>4, <3>1, <3>2
  <2>6. CASE Thread
    <3>1. /\ status = "running" /\ status' = status /\ pc' = pc
          /\ \/ thread = "pin" /\ thread' = "test"
             \/ thread = "test" /\ thread' = "returned"
             \/ thread = "call" /\ thread' = "serving"
             \/ thread = "serving" /\ thread' = "test"
      BY <2>1, <2>6
         DEF Thread, ThreadPin, ThreadTest, ThreadEnter, ThreadLeave,
             ThreadStep, CanRun, othersOfThread
    <3>2. Stopping' /\ MainLeft' = MainLeft /\ ThreadLeft' < ThreadLeft
      BY <1>1, <3>1 DEF Stopping, MainLeft, ThreadLeft
    <3>3. QED
      BY <2>3, <2>4, <3>1, <3>2
  <2>7. CASE Abort
    <3>1. status = "running" /\ status' = "aborted" /\ pc' = pc
          /\ thread' = thread
      BY <2>7 DEF Abort, threadVars
    <3>2. Stopping' /\ MainLeft' = MainLeft /\ ThreadLeft' = ThreadLeft
      BY <1>1, <3>1 DEF Stopping, MainLeft, ThreadLeft
    <3>3. QED
      BY <2>3, <2>4, <3>1, <3>2
  <2>8. QED
    BY <1>1, <2>5, <2>6, <2>7 DEF Next
<1>2. UmInv /\ [Next]_vars => [Nearer]_vars
  BY <1>1
<1>3. QED
  BY InitUmInv, NextUmInv, <1>2, PTL DEF Spec, StopIsBounded
=============================================================================
