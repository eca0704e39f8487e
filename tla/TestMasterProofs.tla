-------------------------- MODULE TestMasterProofs --------------------------
(***************************************************************************)
(* Proofs about the test program, for any number of databases, threads per *)
(* database and tests: the last thread reports when every other one is     *)
(* over, and it reports success only if nothing failed.                    *)
(***************************************************************************)
EXTENDS TestMasterInv, FiniteSetTheorems, TLAPS

ActiveJobs == {j \in Jobs : pc[j] \in Active}

\* The paths that name the jobs.
LEMMA JobPaths ==
  MainJob \in Jobs /\ DbJobs \subseteq Jobs /\ FnJobs \subseteq Jobs
BY DEF Jobs

\* There are finitely many jobs, and so finitely many of them that count.
LEMMA JobsFinite ==
  ASSUME NEW J \in SUBSET Jobs
  PROVE  IsFiniteSet(J) /\ Cardinality(J) \in 0..Cardinality(Jobs)
<1>1. IsFiniteSet(Databases) /\ IsFiniteSet(1..TestThreads)
  BY TestAssumption, FS_Interval
<1>2. IsFiniteSet(DbJobs)
  <2> DEFINE f == [d \in Databases |-> <<d>>]
  <2>1. f \in Surjection(Databases, DbJobs)
    BY DEF Surjection, DbJobs
  <2> QED BY <1>1, <2>1, FS_Surjection
<1>3. IsFiniteSet(Databases \X (1..TestThreads))
  BY <1>1, FS_Product
<1>4. FnJobs = Databases \X (1..TestThreads)
  BY DEF FnJobs
<1>5. IsFiniteSet({MainJob})
  BY FS_Singleton
<1>6. IsFiniteSet(Jobs)
  BY <1>2, <1>3, <1>4, <1>5, FS_Union DEF Jobs
<1>7. /\ IsFiniteSet(J)
      /\ Cardinality(J) \in Nat /\ Cardinality(Jobs) \in Nat
      /\ Cardinality(J) <= Cardinality(Jobs)
  BY <1>6, FS_Subset, FS_CardinalityType
<1> QED BY <1>7

\* What a step of one job does to the number of jobs that count.
LEMMA CountSteps ==
  ASSUME pc \in [Jobs -> {"none", "refused", "done"} \cup Active \cup Ending],
         NEW j \in Jobs, NEW l, Goto(j, l)
  PROVE  /\ (pc[j] \in Active <=> l \in Active) =>
                Cardinality(ActiveJobs') = Cardinality(ActiveJobs)
         /\ pc[j] \notin Active /\ l \in Active =>
                Cardinality(ActiveJobs') = Cardinality(ActiveJobs) + 1
         /\ pc[j] \in Active /\ l \notin Active =>
                Cardinality(ActiveJobs') = Cardinality(ActiveJobs) - 1
<1>1. pc' = [pc EXCEPT ![j] = l]
  BY DEF Goto
<1>2. ASSUME pc[j] \in Active <=> l \in Active
      PROVE  ActiveJobs' = ActiveJobs
  BY <1>1, <1>2 DEF ActiveJobs
<1>3. ASSUME pc[j] \notin Active, l \in Active
      PROVE  ActiveJobs' = ActiveJobs \cup {j} /\ j \notin ActiveJobs
  BY <1>1, <1>3 DEF ActiveJobs
<1>4. ASSUME pc[j] \in Active, l \notin Active
      PROVE  ActiveJobs' = ActiveJobs \ {j} /\ j \in ActiveJobs
  BY <1>1, <1>4 DEF ActiveJobs
<1>5. IsFiniteSet(ActiveJobs)
  BY JobsFinite DEF ActiveJobs
<1> QED BY <1>2, <1>3, <1>4, <1>5, FS_AddElement, FS_RemoveElement

\* CountInv, with the set named.
LEMMA CountIs == (CountInv <=> running_count = Cardinality(ActiveJobs))
BY DEF CountInv, ActiveJobs

\* It bounds running_count.
LEMMA CountBounded == CountInv => running_count \in 0..Cardinality(Jobs)
BY JobsFinite DEF CountInv

-----------------------------------------------------------------------------

\* While a job counts, the program runs, nobody ends it and nothing is reported.
LEMMA ActiveMeansRunning ==
  ASSUME TestInv, NEW j \in Jobs, pc[j] \in Active
  PROVE  /\ app = "run" /\ master
         /\ verdict = "none"
         /\ \A k \in Jobs : pc[k] \notin Ending
<1> USE DEF Active, Ending, Over
<1>1. app = "run" /\ master
  BY DEF TestInv, TypeOK, StageInv
<1>2. \A k \in Jobs : pc[k] \notin Ending
  BY DEF TestInv, VerdictAfterAllTests
<1>3. verdict = "none"
  BY <1>1, <1>2 DEF TestInv, ReportInv
<1> QED BY <1>1, <1>2, <1>3

\* The same for the one that ends them, until it has told the result.
LEMMA EndingMeansRunning ==
  ASSUME TestInv, NEW j \in Jobs, pc[j] \in Ending
  PROVE  /\ app = "run" /\ master
         /\ \A k \in Jobs \ {j} : pc[k] \in Over
         /\ pc[j] # "exit" => verdict = "none"
<1> USE DEF Active, Ending, Over
<1>1. app = "run" /\ master
  BY DEF TestInv, TypeOK, StageInv
<1>2. \A k \in Jobs \ {j} : pc[k] \in Over
  BY DEF TestInv, VerdictAfterAllTests
<1>3. pc[j] # "exit" => verdict = "none"
  BY <1>1, <1>2 DEF TestInv, ReportInv
<1> QED BY <1>1, <1>2, <1>3

-----------------------------------------------------------------------------

\* What perform_pse_tests and xapp do keeps the invariant.
LEMMA AppKeeps ==
  ASSUME TestInv, App
  PROVE  TestInv'
<1> USE DEF TypeOK, Active, Ending, Over, flags, thread
<1>1. CASE Refuse \/ InitMaster \/ Finished
  <2>1. CountInv'
    BY <1>1 DEF TestInv, CountInv, Refuse, InitMaster, Finished
  <2>2. /\ UNCHANGED <<pc, left, running_count, test_failed, reloader, alert, terminate, broken,
                         reload_module_count>>
        /\ \A j \in Jobs : pc[j] \in Over
    BY <1>1 DEF TestInv, StageInv, Refuse, InitMaster, Finished
  <2>3. TypeOK'
    BY <1>1, <2>2 DEF TestInv, Refuse, InitMaster, Finished, tm_test_master_shutdown
  <2>4. (LeftInv /\ VerdictAfterAllTests)'
    BY <2>2 DEF TestInv, LeftInv, VerdictAfterAllTests
  <2>5. StageInv'
    BY <1>1, <2>2 DEF TestInv, StageInv, Refuse, InitMaster, Finished, tm_test_master_shutdown
  <2>6. ReportInv'
    BY <1>1, <2>2 DEF TestInv, StageInv, ReportInv, Refuse, InitMaster, Finished
  <2>7. FailureInv'
    BY <1>1, <2>2 DEF TestInv, StageInv, FailureInv, Refuse, InitMaster, Finished
  <2> QED BY <2>1, <2>3, <2>4, <2>5, <2>6, <2>7 DEF TestInv
<1>2. CASE CreateReloader
  <2>1. verdict = "none" /\ master
    BY <1>2 DEF TestInv, StageInv, ReportInv, CreateReloader
  <2>2. CountInv'
    BY <1>2 DEF TestInv, CountInv, CreateReloader
  <2>3. (TypeOK /\ StageInv /\ LeftInv /\ VerdictAfterAllTests)'
    BY <1>2, <2>1 DEF TestInv, StageInv, LeftInv, VerdictAfterAllTests, CreateReloader, tm_fail_tests
  <2>4. ReportInv'
    BY <1>2, <2>1 DEF TestInv, StageInv, ReportInv, CreateReloader
  <2>5. FailureInv'
    BY <1>2, <2>1 DEF TestInv, StageInv, ReportInv, FailureInv, CreateReloader, tm_fail_tests
  <2> QED BY <2>2, <2>3, <2>4, <2>5 DEF TestInv
<1>3. CASE StartMain
  <2>1. /\ verdict = "none" /\ master
        /\ \A j \in Jobs : pc[j] = "none"
    BY <1>3 DEF TestInv, StageInv, ReportInv, StartMain
  <2>2. PICK l \in {"queued", "refused"} : Goto(MainJob, l)
    BY <1>3 DEF StartMain, tm_run_thread
  <2>3. pc' = [pc EXCEPT ![MainJob] = l] /\ MainJob \in Jobs
    BY <2>2, JobPaths DEF Goto
  <2>4. CountInv'
    <3>1. running_count' = IF l = "queued" THEN running_count + 1 ELSE running_count
      BY <1>3, <2>1, <2>3 DEF StartMain, tm_run_thread, Goto, TestInv
    <3> QED BY <2>1, <2>2, <2>3, <3>1, CountSteps, CountIs, JobsFinite DEF TestInv, CountInv, ActiveJobs
  <2>5. TypeOK'
    <3>1. running_count' \in 0..Cardinality(Jobs)
      BY <2>4, JobsFinite DEF CountInv
    <3> QED BY <1>3, <2>3, <3>1 DEF TestInv, StartMain, tm_run_thread
  <2>6. (StageInv /\ LeftInv /\ VerdictAfterAllTests)'
    BY <1>3, <2>1, <2>3 DEF TestInv, StageInv, LeftInv, VerdictAfterAllTests, StartMain
  <2>7. (ReportInv /\ FailureInv)'
    BY <1>3, <2>1, <2>3 DEF TestInv, ReportInv, FailureInv, StartMain, tm_run_thread
  <2> QED BY <2>4, <2>5, <2>6, <2>7 DEF TestInv
<1> QED BY <1>1, <1>2, <1>3 DEF App

\* So do the steps of the reloader, which ends before the report.
LEMMA ReloaderKeeps ==
  ASSUME TestInv, Reloader
  PROVE  TestInv'
<1> USE DEF TypeOK, flags, thread
<1>1. UNCHANGED <<app, master, verdict, pc, running_count, left>>
  BY DEF Reloader, Wake, ReloadModule, CountReload, FailReload
<1>2. (CountInv /\ LeftInv /\ VerdictAfterAllTests)'
  BY <1>1 DEF TestInv, CountInv, LeftInv, VerdictAfterAllTests
<1>3. (StageInv /\ TypeOK)'
  <2>1. running_count' \in 0..Cardinality(Jobs)
    BY <1>1, CountBounded DEF TestInv
  <2>2. test_failed' \in BOOLEAN /\ broken' \in BOOLEAN
    BY DEF TestInv, Reloader, Wake, ReloadModule, CountReload, FailReload, tm_fail_tests
  <2>3. alert' \in BOOLEAN /\ terminate' \in BOOLEAN
    BY DEF TestInv, Reloader, Wake, ReloadModule, CountReload, FailReload
  <2>4. reload_module_count' \in Nat
    BY DEF TestInv, Reloader, Wake, ReloadModule, CountReload, FailReload
  <2>5. reloader # "off" /\ reloader' \in {"wait", "reload", "count", "fail", "exited"}
    BY DEF TestInv, Reloader, Wake, ReloadModule, CountReload, FailReload
  <2> QED BY <1>1, <2>1, <2>2, <2>3, <2>4, <2>5 DEF TestInv, StageInv
<1>4. ReportInv'
  BY <1>1 DEF TestInv, ReportInv, Reloader, Wake, ReloadModule, CountReload, FailReload
<1>5. FailureInv'
  <2>1. CASE Wake \/ ReloadModule \/ CountReload
    BY <1>1, <2>1 DEF TestInv, FailureInv, Wake, ReloadModule, CountReload
  <2>2. CASE FailReload
    <3>1. master \/ verdict = "failed" \/ ~broken
      BY <2>2 DEF TestInv, FailReload, StageInv, ReportInv, FailureInv
    <3> QED BY <1>1, <2>2, <3>1 DEF TestInv, FailureInv, FailReload, tm_fail_tests
  <2> QED BY <2>1, <2>2 DEF Reloader
<1> QED BY <1>2, <1>3, <1>4, <1>5 DEF TestInv
-----------------------------------------------------------------------------

\* The steps of a job that stays one of those that count.
Works(j) ==
    \/ FetchPid(j) \/ InstallFunctions(j) \/ BeginTests(j) \/ Spawned(j)
    \/ NextTest(j) \/ Signal(j) \/ ExecTest(j) \/ Fail(j)

\* Where such a step leaves the job, and what it leaves alone.
LEMMA WorkShape ==
  ASSUME NEW j \in Jobs, Works(j)
  PROVE  /\ pc[j] \in Active /\ \E l \in Active : Goto(j, l)
         /\ UNCHANGED <<app, master, verdict, running_count, reloader, terminate, reload_module_count>>
<1> USE DEF Active, flags, thread
<1>1. CASE FetchPid(j) \/ InstallFunctions(j) \/ BeginTests(j) \/ Spawned(j)
  BY <1>1 DEF FetchPid, InstallFunctions, BeginTests, Spawned
<1>2. CASE NextTest(j) \/ Signal(j) \/ ExecTest(j) \/ Fail(j)
  BY <1>2 DEF NextTest, Signal, ExecTest, th_exec_fn_test, Fail
<1> QED BY <1>1, <1>2 DEF Works

\* It keeps to the types: a test is run only while some are left.
LEMMA WorkTypes ==
  ASSUME TestInv, NEW j \in Jobs, Works(j), NEW l \in Active, pc' = [pc EXCEPT ![j] = l]
  PROVE  (TypeOK /\ LeftInv)'
<1> USE DEF TypeOK, flags, thread
<1>1. /\ left \in [FnJobs -> 0..Tests] /\ Tests \in Nat
      /\ \A k \in Jobs : pc[k] \in {"work", "test", "exec"} => k \in FnJobs
      /\ \A k \in Jobs : pc[k] \in {"test", "exec"} => left[k] > 0
  BY TestAssumption DEF TestInv, LeftInv
<1>2. CASE ExecTest(j)
  <2>1. /\ j \in FnJobs /\ left[j] > 0 /\ pc[j] = "exec"
        /\ left' = [left EXCEPT ![j] = left[j] - 1]
        /\ l \in {"work", "fail"}
    BY <1>1, <1>2 DEF TestInv, ExecTest, th_exec_fn_test, Goto
  <2>2. left[j] - 1 \in 0..Tests
    BY <1>1, <2>1
  <2>3. left' \in [FnJobs -> 0..Tests]
    BY <1>1, <2>1, <2>2
  <2>4. LeftInv'
    BY <1>1, <2>1 DEF TestInv, LeftInv
  <2>5. broken' \in BOOLEAN
    BY <1>2 DEF TestInv, ExecTest, th_exec_fn_test
  <2> QED BY <1>2, <2>3, <2>4, <2>5 DEF TestInv, ExecTest
<1>3. CASE ~ExecTest(j)
  <2>1. UNCHANGED left
    BY <1>3 DEF Works, FetchPid, InstallFunctions, BeginTests, Spawned, NextTest, Signal, Fail
  <2>2. /\ l \in {"work", "test", "exec"} => j \in FnJobs
        /\ l \in {"test", "exec"} => left[j] > 0
    <3>1. CASE FetchPid(j) \/ InstallFunctions(j) \/ BeginTests(j) \/ Spawned(j)
      BY <3>1 DEF TestInv, FetchPid, InstallFunctions, BeginTests, Spawned, Goto
    <3>2. CASE NextTest(j)
      <4>1. j \in FnJobs /\ left[j] \in 0..Tests
        BY <1>1, <3>2 DEF NextTest
      <4> QED BY <3>2, <4>1 DEF TestInv, NextTest, Goto
    <3>3. CASE Signal(j) \/ Fail(j)
      BY <1>1, <3>3 DEF TestInv, Signal, Fail, Goto
    <3> QED BY <1>3, <3>1, <3>2, <3>3 DEF Works
  <2>3. LeftInv'
    BY <1>1, <2>1, <2>2 DEF TestInv, LeftInv
  <2>4. test_failed' \in BOOLEAN /\ broken' \in BOOLEAN /\ alert' \in BOOLEAN
    <3>1. CASE FetchPid(j) \/ InstallFunctions(j) \/ BeginTests(j) \/ Spawned(j) \/ NextTest(j)
      BY <3>1 DEF TestInv, FetchPid, InstallFunctions, BeginTests, Spawned, NextTest
    <3>2. CASE Signal(j)
      BY <3>2 DEF TestInv, Signal
    <3>3. CASE Fail(j)
      BY <3>3 DEF TestInv, Fail, tm_fail_tests
    <3> QED BY <1>3, <3>1, <3>2, <3>3 DEF Works
  <2> QED BY <2>1, <2>3, <2>4, WorkShape DEF TestInv
<1> QED BY <1>2, <1>3

\* The work of one job keeps the invariant.
LEMMA WorkKeeps ==
  ASSUME TestInv, NEW j \in Jobs, Works(j)
  PROVE  TestInv'
<1> USE DEF Active, Ending, Over
<1>1. /\ pc[j] \in Active
      /\ UNCHANGED <<app, master, verdict, running_count, reloader, terminate, reload_module_count>>
  BY WorkShape
<1>2. PICK l \in Active : Goto(j, l)
  BY WorkShape
<1>3. pc' = [pc EXCEPT ![j] = l] /\ pc \in [Jobs -> Over \cup Active \cup Ending]
  BY <1>2 DEF Goto, TestInv, TypeOK
<1>4. /\ app = "run" /\ master /\ verdict = "none"
      /\ \A k \in Jobs : pc[k] \notin Ending
  BY <1>1, ActiveMeansRunning
<1>5. CountInv'
  BY <1>1, <1>2, <1>3, CountSteps, CountIs DEF TestInv, CountInv, ActiveJobs
<1>6. (TypeOK /\ LeftInv)'
  BY <1>3, WorkTypes
<1>7. (StageInv /\ VerdictAfterAllTests /\ ReportInv)'
  BY <1>1, <1>3, <1>4 DEF StageInv, VerdictAfterAllTests, ReportInv
<1>8. FailureInv'
  <2>1. CASE Fail(j)
    BY <1>4, <2>1 DEF Fail, tm_fail_tests, FailureInv
  <2>2. CASE ~Fail(j)
    <3>1. UNCHANGED test_failed /\ pc[j] # "fail" /\ (UNCHANGED broken \/ l = "fail")
      BY <1>3, <2>2 DEF Works, FetchPid, InstallFunctions, BeginTests, Spawned, NextTest, Signal,
                        ExecTest, th_exec_fn_test, Goto, flags
    <3> QED BY <1>1, <1>3, <3>1 DEF TestInv, FailureInv
  <2> QED BY <2>1, <2>2
<1> QED BY <1>5, <1>6, <1>7, <1>8 DEF TestInv
-----------------------------------------------------------------------------

\* A thread that is started counts from then on; one that is refused never does,
\* and the failure to start it is recorded at once.
LEMMA SpawnKeeps ==
  ASSUME TestInv, NEW j \in Jobs, Spawn(j)
  PROVE  TestInv'
<1> USE DEF Active, Ending, Over, thread
<1>1. PICK k \in Jobs : pc[k] = "none" /\ tm_run_thread(k)
  BY DEF Spawn, Children
<1>2. PICK l \in {"queued", "refused"} : Goto(k, l)
  BY <1>1 DEF tm_run_thread
<1>3. pc' = [pc EXCEPT ![k] = l] /\ pc \in [Jobs -> Over \cup Active \cup Ending]
  BY <1>2 DEF Goto, TestInv, TypeOK
<1>4. pc[j] \in Active /\ k # j
      /\ UNCHANGED <<app, master, verdict, reloader, alert, terminate, left, reload_module_count>>
  BY <1>1 DEF Spawn
<1>5. /\ app = "run" /\ master /\ verdict = "none"
      /\ \A i \in Jobs : pc[i] \notin Ending
  BY <1>4, ActiveMeansRunning
<1>6. /\ running_count' = IF l = "queued" THEN running_count + 1 ELSE running_count
      /\ broken' => broken \/ test_failed'
      /\ test_failed => test_failed'
      /\ test_failed' \in BOOLEAN /\ broken' \in BOOLEAN
  <2>1. running_count' = IF l = "queued" THEN running_count + 1 ELSE running_count
    BY <1>1, <1>3 DEF tm_run_thread, Goto
  <2>2. \/ UNCHANGED <<test_failed, broken>>
        \/ test_failed' = TRUE /\ broken' = TRUE
    BY <1>1 DEF tm_run_thread
  <2>3. test_failed \in BOOLEAN /\ broken \in BOOLEAN
    BY DEF TestInv, TypeOK
  <2>4. (broken' => broken \/ test_failed') /\ (test_failed => test_failed')
    <3>1. CASE UNCHANGED <<test_failed, broken>>
      BY <3>1
    <3>2. CASE test_failed' = TRUE /\ broken' = TRUE
      BY <3>2
    <3> QED BY <2>2, <3>1, <3>2
  <2>5. test_failed' \in BOOLEAN /\ broken' \in BOOLEAN
    BY <2>2, <2>3
  <2> QED BY <2>1, <2>4, <2>5
<1>7. CountInv'
  BY <1>1, <1>2, <1>3, <1>6, CountSteps, CountIs DEF TestInv, CountInv, ActiveJobs
<1>8. TypeOK'
  <2>1. running_count' \in 0..Cardinality(Jobs)
    BY <1>7, JobsFinite DEF CountInv
  <2> QED BY <1>3, <1>4, <1>6, <2>1 DEF TestInv, TypeOK
<1>9. LeftInv'
  BY <1>3, <1>4 DEF TestInv, LeftInv
<1>10. (StageInv /\ VerdictAfterAllTests /\ ReportInv)'
  BY <1>3, <1>4, <1>5 DEF StageInv, VerdictAfterAllTests, ReportInv
<1>11. FailureInv'
  BY <1>1, <1>3, <1>4, <1>6 DEF TestInv, FailureInv
<1> QED BY <1>7, <1>8, <1>9, <1>10, <1>11 DEF TestInv

\* tm_thread_done: when the count comes to zero every other thread is over, and
\* without a reloader nothing can fail any more.
LEMMA FinishKeeps ==
  ASSUME TestInv, NEW j \in Jobs, Finish(j)
  PROVE  TestInv'
<1> USE DEF Active, Ending, Over, thread
<1>1. /\ pc[j] = "finish" /\ running_count' = running_count - 1
      /\ UNCHANGED <<app, master, broken, test_failed, reloader, alert, terminate, left, reload_module_count>>
  BY DEF Finish
<1>2. PICK l \in {"done", "join", "exit"} : Goto(j, l)
  BY DEF Finish
<1>3. pc' = [pc EXCEPT ![j] = l] /\ pc \in [Jobs -> Over \cup Active \cup Ending]
  BY <1>2 DEF Goto, TestInv, TypeOK
<1>4. /\ app = "run" /\ master /\ verdict = "none"
      /\ \A k \in Jobs : pc[k] \notin Ending
  BY <1>1, ActiveMeansRunning
<1>5. CountInv'
  BY <1>1, <1>2, <1>3, CountSteps, CountIs DEF TestInv, CountInv, ActiveJobs
<1>6. l # "done" => \A k \in Jobs \ {j} : pc[k] \in Over
  <2> SUFFICES ASSUME l # "done" PROVE \A k \in Jobs : pc'[k] \notin Active
    BY <1>3, <1>4
  <2>1. running_count' = 0
    BY <1>3 DEF Finish, Goto
  <2>2. Cardinality({k \in Jobs : pc'[k] \in Active}) = 0
    BY <1>5, <2>1 DEF CountInv
  <2>3. IsFiniteSet({k \in Jobs : pc'[k] \in Active})
    BY JobsFinite
  <2> QED BY <2>2, <2>3, FS_EmptySet
<1>7. verdict' = IF l = "exit" THEN (IF test_failed THEN "failed" ELSE "ok") ELSE "none"
  BY <1>3, <1>4 DEF Finish, Goto, report_test_results
<1>8. l = "exit" => reloader = "off"
  BY <1>3 DEF Finish, Goto
<1>9. TypeOK'
  <2>1. running_count' \in 0..Cardinality(Jobs)
    BY <1>5, JobsFinite DEF CountInv
  <2> QED BY <1>1, <1>3, <1>7, <2>1 DEF TestInv, TypeOK
<1>10. (LeftInv /\ StageInv)'
  BY <1>1, <1>3, <1>4 DEF TestInv, LeftInv, StageInv
<1>11. VerdictAfterAllTests'
  BY <1>3, <1>4, <1>6 DEF VerdictAfterAllTests
<1>12. ReportInv'
  <2>1. (\E k \in Jobs : pc'[k] = "exit") <=> l = "exit"
    BY <1>3, <1>4
  <2>2. l = "exit" => ~broken \/ test_failed
    BY <1>1, <1>4, <1>6, <1>8 DEF TestInv, FailureInv
  <2>3. \A k \in Jobs : pc'[k] # "report"
    BY <1>3, <1>4
  <2> QED BY <1>1, <1>4, <1>7, <1>8, <2>1, <2>2, <2>3 DEF ReportInv
<1>13. FailureInv'
  BY <1>1, <1>3, <1>4 DEF TestInv, FailureInv
<1> QED BY <1>5, <1>9, <1>10, <1>11, <1>12, <1>13 DEF TestInv

\* The steps of the job that ends the tests.
Ends(j) == Terminate(j) \/ Joined(j) \/ Report(j) \/ Exit(j)

\* It goes from one to the next, waits for the reloader and then reports.
LEMMA EndKeeps ==
  ASSUME TestInv, NEW j \in Jobs, Ends(j)
  PROVE  TestInv'
<1> USE DEF Active, Ending, Over, flags, thread
<1>1. /\ pc[j] \in Ending
      /\ UNCHANGED <<master, broken, running_count, reloader, left, reload_module_count>>
      /\ \E l \in {"wait", "report", "timeout", "exit", "done"} : Goto(j, l)
  BY DEF Ends, Terminate, Joined, Report, Exit
<1>2. PICK l \in {"wait", "report", "timeout", "exit", "done"} : Goto(j, l)
  BY <1>1
<1>3. pc' = [pc EXCEPT ![j] = l] /\ pc \in [Jobs -> Over \cup Active \cup Ending]
  BY <1>2 DEF Goto, TestInv, TypeOK
<1>4. /\ app = "run" /\ master
      /\ \A k \in Jobs \ {j} : pc[k] \in Over
      /\ pc[j] # "exit" => verdict = "none"
  BY <1>1, EndingMeansRunning
<1>5. CountInv'
  BY <1>1, <1>2, <1>3, CountSteps, CountIs DEF TestInv, CountInv, ActiveJobs
<1>6. /\ app' = IF l = "done" THEN "finishing" ELSE "run"
      /\ l = "done" <=> pc[j] = "exit"
  BY <1>3, <1>4 DEF Ends, Terminate, Joined, Report, Exit, Goto
<1>7. CASE Terminate(j) \/ Joined(j)
  <2>1. UNCHANGED <<verdict, test_failed>> /\ l \notin {"exit", "done"} /\ verdict = "none"
        /\ (l = "report" => reloader = "exited")
    BY <1>3, <1>4, <1>7 DEF Terminate, Joined, Goto
  <2>2. TypeOK'
    <3>1. alert' \in BOOLEAN /\ terminate' \in BOOLEAN
      BY <1>7 DEF TestInv, TypeOK, Terminate, Joined
    <3> QED BY <1>1, <1>3, <1>6, <2>1, <3>1, CountBounded DEF TestInv, TypeOK
  <2>3. (LeftInv /\ StageInv)'
    BY <1>1, <1>3, <1>4, <1>6, <2>1 DEF TestInv, LeftInv, StageInv
  <2>4. VerdictAfterAllTests'
    BY <1>3, <1>4 DEF VerdictAfterAllTests
  <2>5. (ReportInv /\ FailureInv)'
    BY <1>1, <1>3, <1>4, <1>6, <2>1 DEF TestInv, ReportInv, FailureInv
  <2> QED BY <1>5, <2>2, <2>3, <2>4, <2>5 DEF TestInv
<1>8. CASE Report(j)
  <2>1. /\ l = "exit" /\ pc[j] \in {"report", "timeout"}
        /\ verdict' = IF test_failed \/ pc[j] = "timeout" THEN "failed" ELSE "ok"
        /\ test_failed' \in BOOLEAN /\ (test_failed => test_failed')
        /\ UNCHANGED <<alert, terminate>>
    BY <1>3, <1>8 DEF Report, Goto, tm_fail_tests, report_test_results, TestInv, TypeOK
  <2>2. TypeOK'
    BY <1>1, <1>3, <1>6, <2>1, CountBounded DEF TestInv, TypeOK
  <2>3. (LeftInv /\ StageInv)'
    BY <1>1, <1>3, <1>4, <1>6, <2>1 DEF TestInv, LeftInv, StageInv
  <2>4. VerdictAfterAllTests'
    BY <1>3, <1>4 DEF VerdictAfterAllTests
  <2>5. verdict' = "ok" => ~broken /\ reloader = "exited"
    BY <1>4, <2>1 DEF TestInv, ReportInv, FailureInv
  <2>6. (ReportInv /\ FailureInv)'
    BY <1>1, <1>3, <1>4, <1>6, <2>1, <2>5 DEF TestInv, ReportInv, FailureInv
  <2> QED BY <1>5, <2>2, <2>3, <2>4, <2>6 DEF TestInv
<1>9. CASE Exit(j)
  <2>1. /\ pc[j] = "exit" /\ l = "done"
        /\ UNCHANGED <<verdict, test_failed, alert, terminate>>
    BY <1>3, <1>9 DEF Exit, Goto
  <2>2. TypeOK'
    BY <1>1, <1>3, <1>6, <2>1, CountBounded DEF TestInv, TypeOK
  <2>3. (LeftInv /\ StageInv)'
    BY <1>1, <1>3, <1>4, <1>6, <2>1 DEF TestInv, LeftInv, StageInv
  <2>4. VerdictAfterAllTests'
    BY <1>3, <1>4, <2>1 DEF VerdictAfterAllTests
  <2>5. (ReportInv /\ FailureInv)'
    BY <1>1, <1>3, <1>4, <1>6, <2>1 DEF TestInv, ReportInv, FailureInv
  <2> QED BY <1>5, <2>2, <2>3, <2>4, <2>5 DEF TestInv
<1> QED BY <1>7, <1>8, <1>9 DEF Ends

-----------------------------------------------------------------------------

\* TestInv is inductive and holds in every state.
THEOREM TestInvHolds == Spec => []TestInv
<1>1. Init => TestInv
  <2> SUFFICES ASSUME Init PROVE TestInv
    OBVIOUS
  <2>1. CountInv
    <3>1. {j \in Jobs : pc[j] \in Active} = {}
      BY DEF Init, Active
    <3> QED BY <3>1, FS_EmptySet DEF Init, CountInv
  <2>2. TypeOK
    <3>1. running_count \in 0..Cardinality(Jobs)
      BY <2>1, CountBounded
    <3>2. Tests \in 0..Tests
      BY TestAssumption
    <3> QED BY <3>1, <3>2 DEF Init, TypeOK
  <2>3. StageInv /\ LeftInv /\ VerdictAfterAllTests
    BY DEF Init, StageInv, LeftInv, VerdictAfterAllTests, Ending
  <2>4. ReportInv /\ FailureInv
    BY DEF Init, ReportInv, FailureInv
  <2> QED BY <2>1, <2>2, <2>3, <2>4 DEF TestInv
<1>2. TestInv /\ [Next]_vars => TestInv'
  <2> SUFFICES ASSUME TestInv, [Next]_vars PROVE TestInv'
    OBVIOUS
  <2>1. ASSUME NEW j \in Jobs, Job(j) PROVE TestInv'
    BY <2>1, WorkKeeps, SpawnKeeps, FinishKeeps, EndKeeps DEF Job, Works, Ends
  <2>2. CASE UNCHANGED vars
    BY <2>2 DEF vars, flags, thread, TestInv, TypeOK, CountInv, StageInv, LeftInv,
                VerdictAfterAllTests, ReportInv, FailureInv
  <2> QED BY <2>1, <2>2, AppKeeps, ReloaderKeeps DEF Next
<1> QED BY <1>1, <1>2, PTL DEF Spec

\* Every variable keeps to its type; running_count never exceeds the jobs.
THEOREM TestTypeCorrect == Spec => []TypeOK
<1> QED BY TestInvHolds, PTL DEF TestInv

\* The thread that starts to end the tests is the last one, and no other can
\* start any more (tm_thread_done).
THEOREM LastThreadEnds == Spec => []VerdictAfterAllTests
<1> QED BY TestInvHolds, PTL DEF TestInv

\* Success is reported only if nothing failed, in a test thread, in the reloader
\* or when a thread was started, and nothing fails after the report.
THEOREM SuccessIsTrue == Spec => []VerdictKnowsAllFailures
<1>1. TestInv => VerdictKnowsAllFailures
  BY DEF TestInv, ReportInv, VerdictKnowsAllFailures
<1> QED BY TestInvHolds, <1>1, PTL
=============================================================================
