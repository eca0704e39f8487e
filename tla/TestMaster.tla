----------------------------- MODULE TestMaster -----------------------------
(***************************************************************************)
(* The test program test_pse (src/test/test_pse): a tree of pool threads   *)
(* (main_test_thread starts a db_test_thread per database, which starts    *)
(* the fn_test_threads), a reloader thread that reloads the user module    *)
(* when it is signalled, and the test master, a locked global object that  *)
(* counts the threads, collects failures, reports and ends the program.    *)
(*                                                                         *)
(* A stretch of code that holds the master's lock is one action.  The      *)
(* thread pool, the alertable thread and xapp belong to the xsi library.   *)
(***************************************************************************)
EXTENDS Integers, Sequences, FiniteSets

CONSTANTS
    Databases,    \* the configured databases, 1..n
    TestThreads,  \* test_threads: fn_test_threads per database
    Tests         \* bound: tests each fn_test_thread runs

ASSUME TestAssumption ==
    /\ Databases \subseteq Nat /\ IsFiniteSet(Databases)
    /\ TestThreads \in Nat
    /\ Tests \in Nat

\* A job is the path of the threads that started it.
MainJob == <<>>
DbJobs == {<<d>> : d \in Databases}
FnJobs == {<<d, i>> : d \in Databases, i \in 1..TestThreads}
Jobs == {MainJob} \cup DbJobs \cup FnJobs

Children(j) == {k \in Jobs : Len(k) = Len(j) + 1 /\ SubSeq(k, 1, Len(j)) = j}

VARIABLES
    app,              \* where perform_pse_tests and xapp are
    master,           \* the global test master exists
    running_count,
    test_failed,
    reloader,         \* state of module_reload_thread, "off": handle is 0
    alert,            \* its alert_event
    terminate,        \* its request_terminate
    pc,               \* pc[j]: where job j is
    left,             \* left[j]: tests fn job j has still to run
    verdict,          \* what report_test_results told
    broken,           \* history: something under test, or a thread start, failed
    reload_module_count

flags == <<master, verdict, broken>>
thread == <<reloader, alert, terminate>>
vars == <<app, flags, running_count, test_failed, thread, pc, left, reload_module_count>>

Active == {"queued", "spawn", "work", "test", "exec", "fail", "finish"}
Ending == {"join", "wait", "timeout", "report", "exit"}

TypeOK ==
    /\ app \in {"start", "reloader", "main", "run", "finishing", "ended"}
    /\ master \in BOOLEAN
    /\ running_count \in 0..Cardinality(Jobs)
    /\ test_failed \in BOOLEAN
    /\ reloader \in {"off", "wait", "reload", "count", "fail", "exited"}
    /\ alert \in BOOLEAN /\ terminate \in BOOLEAN
    /\ pc \in [Jobs -> {"none", "refused", "done"} \cup Active \cup Ending]
    /\ left \in [FnJobs -> 0..Tests]
    /\ verdict \in {"none", "ok", "failed"}
    /\ broken \in BOOLEAN
    /\ reload_module_count \in Nat

Init ==
    /\ app = "start"
    /\ master = FALSE
    /\ running_count = 0
    /\ test_failed = FALSE
    /\ reloader = "off" /\ alert = FALSE /\ terminate = FALSE
    /\ pc = [j \in Jobs |-> "none"]
    /\ left = [j \in FnJobs |-> Tests]
    /\ verdict = "none"
    /\ broken = FALSE
    /\ reload_module_count = 0

-----------------------------------------------------------------------------
(* The test master's operations *)

Goto(j, l) == pc' = [pc EXCEPT ![j] = l]

\* tm_fail_tests: nothing is recorded once the master is gone.
tm_fail_tests == test_failed' = (test_failed \/ master)

\* tm_has_already_failed
tm_has_already_failed == test_failed \/ ~master

\* Mutant: the started thread is not counted.
RunThreadUncounted(k) ==
    \/ /\ tm_has_already_failed
       /\ Goto(k, "refused")
       /\ UNCHANGED <<running_count, test_failed, broken>>
    \/ /\ ~tm_has_already_failed
       /\ \/ Goto(k, "queued") /\ UNCHANGED <<running_count, test_failed, broken>>
          \/ /\ Goto(k, "refused")
             /\ broken' = TRUE
             /\ test_failed' = TRUE
             /\ UNCHANGED running_count

\* Mutant: running_count-- also for a thread that was refused.
RunThreadUncountsRefused(k) ==
    \/ /\ tm_has_already_failed
       /\ Goto(k, "refused")
       /\ running_count' = running_count - 1
       /\ UNCHANGED <<test_failed, broken>>
    \/ /\ ~tm_has_already_failed
       /\ running_count' = running_count + 1
       /\ Goto(k, "queued")
       /\ UNCHANGED <<test_failed, broken>>

\* Mutant: no running_count-- when thrp_run fails.
RunThreadKeepsCount(k) ==
    \/ /\ tm_has_already_failed
       /\ Goto(k, "refused")
       /\ UNCHANGED <<running_count, test_failed, broken>>
    \/ /\ ~tm_has_already_failed
       /\ running_count' = running_count + 1
       /\ \/ Goto(k, "queued") /\ UNCHANGED <<test_failed, broken>>
          \/ Goto(k, "refused") /\ broken' = TRUE /\ test_failed' = TRUE

\* refused after a failure; started; or thrp_run fails, which is a failure
tm_run_thread(k) ==
    \/ /\ tm_has_already_failed
       /\ Goto(k, "refused")
       /\ UNCHANGED <<running_count, test_failed, broken>>
    \/ /\ ~tm_has_already_failed
       /\ \/ /\ running_count' = running_count + 1
             /\ Goto(k, "queued")
             /\ UNCHANGED <<test_failed, broken>>
          \/ /\ Goto(k, "refused")
             /\ broken' = TRUE
             /\ test_failed' = TRUE
             /\ UNCHANGED running_count

report_test_results(failed) == verdict' = IF failed THEN "failed" ELSE "ok"

-----------------------------------------------------------------------------
(* perform_pse_tests and pse_tests_finished, called by xapp *)

\* The configuration cannot be loaded or asks for too many threads.
Refuse ==
    /\ app = "start"
    /\ app' = "ended"
    /\ verdict' = "failed"
    /\ UNCHANGED <<master, broken, running_count, test_failed, thread, pc, left, reload_module_count>>

InitMaster ==
    /\ app = "start"
    /\ app' = "reloader"
    /\ master' = TRUE
    /\ UNCHANGED <<verdict, broken, running_count, test_failed, thread, pc, left, reload_module_count>>

\* tm_create_reload_module_thread, when the configuration wants one
CreateReloader ==
    /\ app = "reloader"
    /\ app' = "main"
    /\ \/ UNCHANGED <<reloader, broken, test_failed>>
       \/ reloader' = "wait" /\ UNCHANGED <<broken, test_failed>>
       \/ broken' = TRUE /\ tm_fail_tests /\ UNCHANGED reloader
    /\ UNCHANGED <<master, verdict, running_count, alert, terminate, pc, left, reload_module_count>>

StartMain ==
    /\ app = "main"
    /\ app' = "run"
    /\ tm_run_thread(MainJob)
    /\ UNCHANGED <<master, verdict, thread, left, reload_module_count>>

tm_test_master_shutdown == master' = FALSE

\* pse_tests_finished, after xapp_exit
Finished ==
    /\ app = "finishing"
    /\ app' = "ended"
    /\ tm_test_master_shutdown
    /\ UNCHANGED <<verdict, broken, running_count, test_failed, thread, pc, left, reload_module_count>>

-----------------------------------------------------------------------------
(* main_test_thread, db_test_thread, fn_test_thread *)

\* The server's pid is fetched for the later connections to compare with.
FetchPid(j) ==
    /\ j = MainJob /\ pc[j] = "queued"
    /\ \/ Goto(j, "spawn") /\ UNCHANGED broken
       \/ Goto(j, "fail") /\ broken' = TRUE
    /\ UNCHANGED <<app, master, verdict, running_count, test_failed, thread, left, reload_module_count>>

\* A connection is made and the functions of the database are installed; the
\* threads that use them are not started after a failure elsewhere.
InstallFunctions(j) ==
    /\ j \in DbJobs /\ pc[j] = "queued"
    /\ \/ Goto(j, IF tm_has_already_failed THEN "finish" ELSE "spawn") /\ UNCHANGED broken
       \/ Goto(j, "fail") /\ broken' = TRUE
    /\ UNCHANGED <<app, master, verdict, running_count, test_failed, thread, left, reload_module_count>>

BeginTests(j) ==
    /\ j \in FnJobs /\ pc[j] = "queued"
    /\ Goto(j, "work")
    /\ UNCHANGED <<app, flags, running_count, test_failed, thread, left, reload_module_count>>

\* The loop over databases, or over test_threads
Spawn(j) ==
    /\ pc[j] = "spawn"
    /\ \E k \in Children(j) : pc[k] = "none" /\ tm_run_thread(k)
    /\ UNCHANGED <<app, master, verdict, thread, left, reload_module_count>>

Spawned(j) ==
    /\ pc[j] = "spawn"
    /\ \A k \in Children(j) : pc[k] # "none"
    /\ Goto(j, "finish")
    /\ UNCHANGED <<app, flags, running_count, test_failed, thread, left, reload_module_count>>

NextTest(j) ==
    /\ pc[j] = "work"
    /\ Goto(j, IF left[j] = 0 \/ tm_has_already_failed THEN "finish" ELSE "test")
    /\ UNCHANGED <<app, flags, running_count, test_failed, thread, left, reload_module_count>>

\* exec_fn_test: sometimes tm_run_reload_module
Signal(j) ==
    /\ pc[j] = "test"
    /\ Goto(j, "exec")
    /\ alert' \in {alert, alert \/ (master /\ reloader # "off")}
    /\ UNCHANGED <<app, flags, running_count, test_failed, reloader, terminate, left, reload_module_count>>

\* The statement of a test gives the expected result, and is committed, or not.
th_exec_fn_test(j) ==
    \/ Goto(j, "work") /\ UNCHANGED broken
    \/ Goto(j, "fail") /\ broken' = TRUE

\* A connection that is not made counts as a failure of the test.
ExecTest(j) ==
    /\ pc[j] = "exec"
    /\ left' = [left EXCEPT ![j] = @ - 1]
    /\ th_exec_fn_test(j)
    /\ UNCHANGED <<app, master, verdict, running_count, test_failed, thread, reload_module_count>>

Fail(j) ==
    /\ pc[j] = "fail"
    /\ tm_fail_tests
    /\ Goto(j, "finish")
    /\ UNCHANGED <<app, flags, running_count, thread, left, reload_module_count>>

-----------------------------------------------------------------------------
(* tm_thread_done *)

\* Mutant: the last thread reports without waiting for the reloader.
FinishNoJoin(j) ==
    /\ pc[j] = "finish"
    /\ running_count' = running_count - 1
    /\ \/ running_count' # 0 /\ Goto(j, "done") /\ UNCHANGED verdict
       \/ running_count' = 0 /\ report_test_results(test_failed) /\ Goto(j, "exit")
    /\ UNCHANGED <<app, master, broken, test_failed, thread, left, reload_module_count>>

\* The last thread reports, at once when there is no reloader.
Finish(j) ==
    /\ pc[j] = "finish"
    /\ running_count' = running_count - 1
    /\ \/ running_count' # 0 /\ Goto(j, "done") /\ UNCHANGED verdict
       \/ running_count' = 0 /\ reloader # "off" /\ Goto(j, "join") /\ UNCHANGED verdict
       \/ /\ running_count' = 0 /\ reloader = "off"
          /\ report_test_results(test_failed)
          /\ Goto(j, "exit")
    /\ UNCHANGED <<app, master, broken, test_failed, thread, left, reload_module_count>>

\* at_terminate_athread_wait: the thread is asked to end ...
Terminate(j) ==
    /\ pc[j] = "join"
    /\ terminate' = TRUE
    /\ alert' = TRUE
    /\ Goto(j, "wait")
    /\ UNCHANGED <<app, flags, running_count, test_failed, reloader, left, reload_module_count>>

\* ... and waited for, 20 seconds at most.
Joined(j) ==
    /\ pc[j] = "wait"
    /\ \/ reloader = "exited" /\ Goto(j, "report")
       \/ reloader # "exited" /\ Goto(j, "timeout")
    /\ UNCHANGED <<app, flags, running_count, test_failed, thread, left, reload_module_count>>

\* The second locked section: a timeout is a failure of its own.
Report(j) ==
    /\ pc[j] \in {"report", "timeout"}
    /\ IF pc[j] = "timeout" THEN tm_fail_tests ELSE UNCHANGED test_failed
    /\ report_test_results(test_failed \/ pc[j] = "timeout")
    /\ Goto(j, "exit")
    /\ UNCHANGED <<app, master, broken, running_count, thread, left, reload_module_count>>

Exit(j) ==
    /\ pc[j] = "exit"
    /\ Goto(j, "done")
    /\ app' = "finishing"
    /\ UNCHANGED <<flags, running_count, test_failed, thread, left, reload_module_count>>

-----------------------------------------------------------------------------
(* module_reload_thread *)

\* The event is set: end, or (with a database to use) reload.
Wake ==
    /\ reloader = "wait"
    /\ alert
    /\ alert' = FALSE
    /\ reloader' = IF terminate THEN "exited"
                   ELSE IF Databases = {} THEN "wait" ELSE "reload"
    /\ UNCHANGED <<app, flags, running_count, test_failed, terminate, pc, left, reload_module_count>>

\* connect, install and run pse_reload_module.  The SQL succeeds whether the
\* function returns a text (reloaded) or NULL (it could not reload).
ReloadModule ==
    /\ reloader = "reload"
    /\ \/ reloader' = "count" /\ UNCHANGED broken
       \/ reloader' = "fail" /\ broken' = TRUE
    /\ UNCHANGED <<app, master, verdict, running_count, test_failed, alert, terminate,
                   pc, left, reload_module_count>>

\* tm_inc_reload_count
CountReload ==
    /\ reloader = "count"
    /\ reloader' = "wait"
    /\ reload_module_count' = reload_module_count + (IF master THEN 1 ELSE 0)
    /\ UNCHANGED <<app, flags, running_count, test_failed, alert, terminate, pc, left>>

FailReload ==
    /\ reloader = "fail"
    /\ reloader' = "wait"
    /\ tm_fail_tests
    /\ UNCHANGED <<app, flags, running_count, alert, terminate, pc, left, reload_module_count>>

-----------------------------------------------------------------------------

App == Refuse \/ InitMaster \/ CreateReloader \/ StartMain \/ Finished

Job(j) ==
    \/ FetchPid(j) \/ InstallFunctions(j) \/ BeginTests(j) \/ Spawn(j) \/ Spawned(j)
    \/ NextTest(j) \/ Signal(j) \/ ExecTest(j)
    \/ Fail(j) \/ Finish(j) \/ Terminate(j) \/ Joined(j) \/ Report(j) \/ Exit(j)

Reloader == Wake \/ ReloadModule \/ CountReload \/ FailReload

Next == App \/ (\E j \in Jobs : Job(j)) \/ Reloader

\* Every thread runs; the calls a test makes into the server return.
Spec ==
    /\ Init /\ [][Next]_vars
    /\ WF_vars(App) /\ WF_vars(Reloader)
    /\ \A j \in Jobs : WF_vars(Job(j))

-----------------------------------------------------------------------------

\* When a thread starts to end the tests (running_count came to zero) it is
\* the only one: every other job is over or was never started, and no job
\* can start any more (tm_thread_done, called after a job's last tm_run_thread).
VerdictAfterAllTests ==
    \A j \in Jobs : pc[j] \in Ending =>
        \A k \in Jobs \ {j} : pc[k] \in {"none", "refused", "done"}

\* The tests are reported as succeeded only if nothing failed, not in a job
\* and not in the reloader, and nothing fails after the report either.
VerdictKnowsAllFailures == verdict = "ok" => ~broken

\* Once the first test thread is started the program ends by itself.
TestsEnd == pc[MainJob] = "queued" ~> app = "ended"

\* A recorded failure is reported (the errors collected for the report).
FailureReported == test_failed ~> verdict = "failed"

=============================================================================
