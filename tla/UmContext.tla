----------------------------- MODULE UmContext -----------------------------
(***************************************************************************)
(* The life of jtr_src, jtr_ss and jtr_smx around their measurements:      *)
(* main() creates the UM context, starts my_ctx_thread() to serve it,      *)
(* creates the source, measures, reports, and takes everything down.  The  *)
(* two threads share jtr_ctx_running, a plain int that the unoptimised     *)
(* build reads from memory on each turn of the loop, and the UM objects.   *)
(* Every LBME() and SYSE() check may fail and then abort()s the process.   *)
(*                                                                         *)
(* The measurements themselves are one step per pass; TestRun.tla has      *)
(* their detail.  UM is external: process_events() returns after its       *)
(* 1000 ms or when unblocked, so a lost unblock only delays it.            *)
(***************************************************************************)
EXTENDS Integers

CONSTANTS
  Programs,     \* among "src", "ss" and "smx"
  PinOptions,   \* values of opt_cpu_num >= 0
  FifoOptions,  \* values of opt_fifo_priority >= 0
  SpinOptions,  \* values of opt_pause >= 0: spin between samples, or usleep()
  QuietOptions,    \* values of opt_verbose < 0
  GnuplotOptions,  \* values of opt_gnuplot_file != NULL
  opt_loops

ASSUME UmAssumption ==
  /\ Programs \subseteq {"src", "ss", "smx"}
  /\ PinOptions \subseteq BOOLEAN
  /\ FifoOptions \subseteq BOOLEAN
  /\ SpinOptions \subseteq BOOLEAN
  /\ QuietOptions \subseteq BOOLEAN
  /\ GnuplotOptions \subseteq BOOLEAN
  /\ opt_loops \in Nat

VARIABLES
  program, pin, fifo, spin, quiet, gnuplot,  \* program and options: constant
  status,           \* "running", "exited" or "aborted"
  pc,               \* where main() is: the call it makes next
  thread,           \* where my_ctx_thread() is
  thread_cpu,       \* "main" core, "other" core, "any"
  jtr_ctx_running,
  ctx, src,         \* "none", "open" or "deleted"
  message_buf,      \* "none", "heap", or "source": memory of the source
  passes,           \* measuring passes reported in jtr_results_buf
  stdout,           \* "empty", "pending" in stdio, "written", "truncated"
  late_services     \* history: calls of process_events() entered since the
                    \* unblock, counted up to 2

options == <<program, pin, fifo, spin, quiet, gnuplot>>
output == <<passes, stdout>>
threadVars == <<thread, thread_cpu>>
objects == <<ctx, src, message_buf>>
vars == <<options, status, pc, threadVars, jtr_ctx_running, objects, output,
          late_services>>
-----------------------------------------------------------------------------
Init ==
  /\ program \in Programs
  /\ pin \in PinOptions /\ fifo \in FifoOptions /\ spin \in SpinOptions
  /\ quiet \in QuietOptions /\ gnuplot \in GnuplotOptions
  /\ status = "running"
  /\ pc = "context"
  /\ thread = "none" /\ thread_cpu = "any"
  /\ jtr_ctx_running = FALSE
  /\ ctx = "none" /\ src = "none" /\ message_buf = "none"
  /\ passes = 0 /\ stdout = "empty"
  /\ late_services = 0

(* Main's step from one call to the next *)
Step(from, to) == status = "running" /\ pc = from /\ pc' = to

(* usleep() and pthread_join() give up main's core; spinning does not.     *)
MainBlocks == pc = "join" \/ (pc \in {"send", "null"} /\ ~spin)

(* A new thread inherits main's core and its real-time priority, and a     *)
(* SCHED_FIFO thread gets a core only when its equal there blocks.         *)
Starved == pin /\ fifo /\ thread_cpu = "main" /\ ~MainBlocks

CanRun == status = "running" /\ ~Starved
-----------------------------------------------------------------------------
(* pin, set priority, lbm_config() ... lbm_context_create()                *)
CreateContext ==
  /\ Step("context", "start")
  /\ ctx' = "open"
  /\ UNCHANGED <<options, status, threadVars, jtr_ctx_running, src,
                 message_buf, output, late_services>>

StartRunning_Missing ==
  /\ Step("start", "spawn")
  /\ UNCHANGED <<options, status, threadVars, jtr_ctx_running, objects,
                 output, late_services>>
StartRunning ==
  /\ Step("start", "spawn")
  /\ jtr_ctx_running' = TRUE
  /\ UNCHANGED <<options, status, threadVars, objects, output, late_services>>

SpawnThread ==
  /\ Step("spawn", "source")
  /\ thread' = IF pin THEN "pin" ELSE "test"
  /\ thread_cpu' = IF pin THEN "main" ELSE "any"
  /\ UNCHANGED <<options, status, jtr_ctx_running, objects, output,
                 late_services>>

(* Only lbm_ssrc_buff_get() gets the message buffer this early.            *)
CreateSource ==
  /\ Step("source", "settle")
  /\ src' = "open"
  /\ message_buf' = IF program = "ss" THEN "source" ELSE message_buf
  /\ UNCHANGED <<options, status, threadVars, jtr_ctx_running, ctx, output,
                 late_services>>

(* "Let topic resolution complete": 100 ms of spinning, in which the new   *)
(* thread may pin itself or not.                                           *)
Settle ==
  /\ Step("settle", "prepare")
  /\ UNCHANGED <<options, status, threadVars, jtr_ctx_running, objects,
                 output, late_services>>

NextPass == IF passes < 2 * opt_loops THEN "send" ELSE "print"

Prepare_NoAcquire ==
  /\ Step("prepare", NextPass)
  /\ message_buf' = IF program = "src" THEN "heap" ELSE message_buf
  /\ UNCHANGED <<options, status, threadVars, jtr_ctx_running, ctx, src,
                 output, late_services>>
Prepare ==
  /\ Step("prepare", NextPass)
  /\ message_buf' = CASE program = "src" -> "heap"
                      [] program = "smx" -> "source"
                      [] program = "ss"  -> message_buf
  /\ UNCHANGED <<options, status, threadVars, jtr_ctx_running, ctx, src,
                 output, late_services>>

SendPass ==
  /\ Step("send", "null")
  /\ passes' = passes + 1
  /\ UNCHANGED <<options, status, threadVars, jtr_ctx_running, objects,
                 stdout, late_services>>

NullPass_OneMore ==
  /\ status = "running" /\ pc = "null"
  /\ passes' = passes + 1
  /\ pc' = IF passes' <= 2 * opt_loops THEN "send" ELSE "print"
  /\ UNCHANGED <<options, status, threadVars, jtr_ctx_running, objects,
                 stdout, late_services>>
NullPass_OneLess ==
  /\ status = "running" /\ pc = "null"
  /\ passes' = passes + 1
  /\ pc' = IF passes' + 2 < 2 * opt_loops THEN "send" ELSE "print"
  /\ UNCHANGED <<options, status, threadVars, jtr_ctx_running, objects,
                 stdout, late_services>>
NullPass ==
  /\ status = "running" /\ pc = "null"
  /\ passes' = passes + 1
  /\ pc' = IF passes' < 2 * opt_loops THEN "send" ELSE "print"
  /\ UNCHANGED <<options, status, threadVars, jtr_ctx_running, objects,
                 stdout, late_services>>

(* printf() leaves the end of the results in stdio's buffer.               *)
PrintResults ==
  /\ Step("print", IF ~quiet /\ gnuplot THEN "plot" ELSE "src_delete")
  /\ stdout' = IF quiet THEN stdout ELSE "pending"
  /\ UNCHANGED <<options, status, threadVars, jtr_ctx_running, objects,
                 passes, late_services>>

(* fopen() is checked; what fprintf() and fclose() then do is not.         *)
WritePlot ==
  /\ Step("plot", "src_delete")
  /\ UNCHANGED <<options, status, threadVars, jtr_ctx_running, objects,
                 output, late_services>>

DeleteSource ==
  /\ Step("src_delete", "stop")
  /\ src' = "deleted"
  /\ message_buf' = IF message_buf = "source" THEN "none" ELSE message_buf
  /\ UNCHANGED <<options, status, threadVars, jtr_ctx_running, ctx, output,
                 late_services>>

StopRunning_Missing ==
  /\ Step("stop", "unblock")
  /\ UNCHANGED <<options, status, threadVars, jtr_ctx_running, objects,
                 output, late_services>>
StopRunning ==
  /\ Step("stop", "unblock")
  /\ jtr_ctx_running' = FALSE
  /\ UNCHANGED <<options, status, threadVars, objects, output, late_services>>

Unblock ==
  /\ Step("unblock", "join")
  /\ UNCHANGED <<options, status, threadVars, jtr_ctx_running, objects, output,
                 late_services>>

Join_NoWait ==
  /\ Step("join", "ctx_delete")
  /\ UNCHANGED <<options, status, threadVars, jtr_ctx_running, objects,
                 output, late_services>>
Join ==
  /\ Step("join", "ctx_delete")
  /\ thread = "returned"
  /\ UNCHANGED <<options, status, threadVars, jtr_ctx_running, objects, output,
                 late_services>>

DeleteContext ==
  /\ Step("ctx_delete", "return")
  /\ ctx' = "deleted"
  /\ UNCHANGED <<options, status, threadVars, jtr_ctx_running, src,
                 message_buf, output, late_services>>

(* return 0: exit() ends every thread and flushes stdio; nobody looks at   *)
(* whether that succeeds.                                                  *)
Return ==
  /\ Step("return", "done")
  /\ status' = "exited"
  /\ stdout' \in IF stdout = "pending" THEN {"written", "truncated"}
                                       ELSE {stdout}
  /\ UNCHANGED <<options, threadVars, jtr_ctx_running, objects, passes,
                 late_services>>

Main ==
  \/ CreateContext \/ StartRunning \/ SpawnThread \/ CreateSource
  \/ Settle \/ Prepare \/ SendPass \/ NullPass \/ PrintResults
  \/ WritePlot \/ DeleteSource \/ StopRunning \/ Unblock \/ Join \/ DeleteContext
  \/ Return
-----------------------------------------------------------------------------
(* my_ctx_thread()                                                         *)
ThreadStep(from, to) == CanRun /\ thread = from /\ thread' = to

othersOfThread == <<options, status, pc, jtr_ctx_running, objects, output>>

ThreadPin ==
  /\ ThreadStep("pin", "test")
  /\ thread_cpu' = "other"
  /\ UNCHANGED <<othersOfThread, late_services>>

ThreadTest ==
  /\ ThreadStep("test", IF jtr_ctx_running THEN "call" ELSE "returned")
  /\ UNCHANGED <<othersOfThread, thread_cpu, late_services>>

ThreadEnter ==
  /\ ThreadStep("call", "serving")
  /\ late_services' =
       IF pc \in {"join", "ctx_delete", "return"} /\ late_services < 2
       THEN late_services + 1 ELSE late_services
  /\ UNCHANGED <<othersOfThread, thread_cpu>>

ThreadLeave ==
  /\ ThreadStep("serving", "test")
  /\ UNCHANGED <<othersOfThread, thread_cpu, late_services>>

Thread == ThreadPin \/ ThreadTest \/ ThreadEnter \/ ThreadLeave
-----------------------------------------------------------------------------
(* The calls under an LBME() or a SYSE() *)
MainChecked ==
  pc \in {"context", "spawn", "source", "settle", "prepare", "send", "null",
          "plot", "src_delete", "unblock", "join", "ctx_delete"}
ThreadChecked == thread \in {"pin", "serving"}

(* abort() does not flush stdio: only what printf() has written stays, all *)
(* of it when stdout is line-buffered.                                     *)
Abort ==
  /\ status = "running"
  /\ MainChecked \/ (ThreadChecked /\ ~Starved)
  /\ status' = "aborted"
  /\ stdout' \in IF stdout = "pending" THEN {"written", "truncated"}
                                       ELSE {stdout}
  /\ UNCHANGED <<options, pc, threadVars, jtr_ctx_running, objects, passes,
                 late_services>>

Next == Main \/ Thread \/ Abort

(* The kernel runs every thread that has a core, and process_events()      *)
(* returns within its timeout.  Nothing forces a call to fail.             *)
Spec == Init /\ [][Next]_vars /\ WF_vars(Main) /\ WF_vars(Thread)
-----------------------------------------------------------------------------
(* Each variable holds one of its values, and main() never reports more    *)
(* passes than the two of each of its opt_loops loops.                     *)
UmTypeOK ==
  /\ program \in {"src", "ss", "smx"}
  /\ pin \in BOOLEAN /\ fifo \in BOOLEAN /\ spin \in BOOLEAN
  /\ quiet \in BOOLEAN /\ gnuplot \in BOOLEAN
  /\ status \in {"running", "exited", "aborted"}
  /\ pc \in {"context", "start", "spawn", "source", "settle", "prepare",
             "send", "null", "print", "plot", "src_delete", "stop", "unblock",
             "join", "ctx_delete", "return", "done"}
  /\ thread \in {"none", "pin", "test", "call", "serving", "returned"}
  /\ thread_cpu \in {"main", "other", "any"}
  /\ jtr_ctx_running \in BOOLEAN
  /\ ctx \in {"none", "open", "deleted"} /\ src \in {"none", "open", "deleted"}
  /\ message_buf \in {"none", "heap", "source"}
  /\ passes \in 0..(2 * opt_loops)
  /\ stdout \in {"empty", "pending", "written", "truncated"}
  /\ late_services \in 0..2

(* As long as the source exists, the context it lives in exists too and    *)
(* its thread has not given up serving it (jtr_src.c:192-198, 271-277).    *)
ServiceSpansSource ==
  src = "open" => ctx = "open" /\ thread # "none" /\ thread # "returned"

(* A measuring pass that sends has a source to send on and a message       *)
(* buffer that is still valid: one of the heap, or memory of the source    *)
(* that was acquired and not yet given up with it (jtr_smx.c:204-208).     *)
SendsUseLiveObjects ==
  pc = "send" => src = "open" /\ message_buf # "none"

(* Stopping costs at most one more lbm_context_process_events(), the one   *)
(* the thread had already decided on when jtr_ctx_running was cleared:     *)
(* the join waits for at most one timeout (jtr_src.c:274-276).             *)
AtMostOneLateService == late_services <= 1

(* A process that returns 0 has measured both passes of every loop and has *)
(* printed results unless -v -1 was given, its thread has ended, and       *)
(* nothing of UM is left behind (jtr_src.c:215-279).                       *)
ExitIsClean ==
  status = "exited" =>
    /\ passes = 2 * opt_loops
    /\ stdout = "empty" <=> quiet
    /\ thread = "returned"
    /\ src = "deleted" /\ ctx = "deleted"

(* Whatever call fails, on whichever thread and whenever: what an aborted  *)
(* process leaves behind on stdout is the results of all of its passes, or *)
(* the beginning of them, or nothing at all; it has never printed the      *)
(* results of a run that was not over (jtr_src.c:215-260).                 *)
PrintsOnlyCompleteReports ==
  stdout # "empty" => ~quiet /\ passes = 2 * opt_loops

(* Nothing that lives in the context outlasts it: it is deleted when its   *)
(* source is gone and its thread cannot be, or get, inside                 *)
(* lbm_context_process_events() any more.                                  *)
Service == INSTANCE ContextService
             WITH Users   <- {"source", "thread"},
                  context <- ctx,
                  users   <- {u \in {"source", "thread"} :
                                IF u = "source" THEN src = "open"
                                                ELSE thread = "serving"}
ImplementsContextService == Service!ServiceSpec

(* The steps that both threads together have left once jtr_ctx_running is  *)
(* cleared                                                                 *)
Stopping == pc \in {"unblock", "join", "ctx_delete", "return", "done"}

StepsToExit ==
  LET main_left == [unblock |-> 4, join |-> 3, ctx_delete |-> 2, return |-> 1,
                    done |-> 0]
      thread_left == [pin |-> 2, call |-> 3, serving |-> 2, test |-> 1,
                      returned |-> 0]
  IN  main_left[pc] + thread_left[thread] + IF status = "running" THEN 1 ELSE 0

(* From the moment that jtr_ctx_running is cleared every step of either    *)
(* thread brings the end of the process nearer, eight steps away at most:  *)
(* the context thread never starts over (jtr_src.c:192-198, 274-279).      *)
StopIsBounded ==
  [][Stopping => StepsToExit' \in Nat /\ StepsToExit' < StepsToExit]_vars

(* The process ends: whatever the interleaving, the thread sees that it    *)
(* has to stop and the join returns, also when the unblock is lost and     *)
(* when the real-time priority starves the thread until then.              *)
Terminates == <>(status # "running")

(* jtr_src.c:128, "Run context thread on a different core": while main()   *)
(* measures, the context thread is not on its core.                        *)
MeasuresOffThreadsCore ==
  pc \in {"send", "null"} => thread_cpu # "main"
=============================================================================
