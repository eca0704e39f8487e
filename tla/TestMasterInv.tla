---------------------------- MODULE TestMasterInv ---------------------------
(***************************************************************************)
(* The inductive invariant behind the properties of TestMaster: what       *)
(* running_count counts, which jobs can exist at each stage of the         *)
(* program, and where a failure is recorded until it is reported.          *)
(***************************************************************************)
EXTENDS TestMaster

Over == {"none", "refused", "done"}

\* The count is that of the jobs that have not yet called tm_thread_done.
CountInv == running_count = Cardinality({j \in Jobs : pc[j] \in Active})

\* The master exists from InitMaster to Finished; the jobs begin after the
\* reloader is created and are over before the program finishes.
StageInv ==
    /\ master <=> app \in {"reloader", "main", "run", "finishing"}
    /\ app \in {"start", "reloader"} => reloader = "off"
    /\ app \in {"start", "reloader", "main"} => \A j \in Jobs : pc[j] = "none"
    /\ app \in {"finishing", "ended"} => \A j \in Jobs : pc[j] \in Over

\* Tests are run by the fn jobs, as many as are left.
LeftInv ==
    \A j \in Jobs :
        /\ pc[j] \in {"work", "test", "exec"} => j \in FnJobs
        /\ pc[j] \in {"test", "exec"} => left[j] > 0

\* The report is made when the reloader has ended, before the program does.
ReportInv ==
    /\ \A j \in Jobs : pc[j] = "report" => reloader = "exited"
    /\ verdict # "none" <=>
          app \in {"finishing", "ended"} \/ \E j \in Jobs : pc[j] = "exit"
    /\ verdict = "ok" => ~broken /\ reloader \in {"off", "exited"}

\* A failure is recorded, about to be recorded, or reported.
FailureInv ==
    broken => \/ test_failed
              \/ reloader = "fail"
              \/ \E j \in Jobs : pc[j] = "fail"
              \/ verdict = "failed"

TestInv ==
    /\ TypeOK
    /\ CountInv
    /\ StageInv
    /\ LeftInv
    /\ VerdictAfterAllTests
    /\ ReportInv
    /\ FailureInv
=============================================================================
