----------------------------- MODULE CustomRun ------------------------------
(***************************************************************************)
(* custom_runner.py: the two background tasks of a program generated from  *)
(* a prompt.  It is executed once in a container (the smoke run) before    *)
(* each scan.  The model call and the smoke run follow one another without *)
(* a look at the run, and an attempt's outcome is recorded without one.    *)
(***************************************************************************)
EXTENDS RunSafety

Exceptions(w) == {ExceptionCode(w)}

-----------------------------------------------------------------------------
(* execute_custom_baseline                                                  *)

BaselineAdmit(w) == AdmitBaseline(w, "generate", "finally")

\* generate_program and the check of its answer, one code for every status
\* that is not a program.
Generate(w) ==
    ToolCall(w, "generate", {"write"},
              {"generation_failed", "generation_invalid_response"} \cup Exceptions(w))

\* The program is written to a new directory, the baseline's or an attempt's.
WriteProgram(w) ==
    IF worker[w].job = "baseline"
    THEN FillDirectory(w, "write", BaselineDir, {}, {"smoke"}, Exceptions(w))
    ELSE FillDirectory(w, "write", worker[w].at, {}, {"repaired_smoke"}, Exceptions(w))

\* A smoke run that fails is evidence, not an error.
BaselineSmoke(w) == ToolCall(w, "smoke", {"scanning"}, Exceptions(w))

BaselineScanning(w) ==
    StageSession(w, "scanning", Staged(w, "baseline_scanning", {"baseline_testing"}),
                 "bandit", "finally")

\* run_bandit, then run_semgrep without asking; what did not complete shows
\* once both have ended.
BaselineScan(w) ==
    \/ ToolCall(w, "bandit", {"semgrep"}, Exceptions(w))
    \/ ToolCall(w, "semgrep", {"clean", "awaiting"},
                {"baseline_scan_incomplete"} \cup Exceptions(w))

\* No finding: the attempts are deleted and the run completes.
BaselineClean(w) ==
    \/ OpenSession(w, "clean", ~RunCancelled, "finally")
    \/ /\ InSession(w, "clean")
       /\ SaveReport(w, RowsOf({}, "absent"),
                     {"baseline_testing", "baseline_scanning", "reporting"}, "finally")

BaselineAwaiting(w) ==
    StageSession(w, "awaiting", AwaitStrategy(w), "finally", "finally")

Baseline(w) == \/ BaselineAdmit(w) \/ Generate(w) \/ WriteProgram(w)
               \/ BaselineSmoke(w) \/ BaselineScanning(w) \/ BaselineScan(w)
               \/ BaselineClean(w) \/ BaselineAwaiting(w)

-----------------------------------------------------------------------------
(* execute_custom_repairs                                                   *)

Repairing(w) == StageSession(w, "repairing", RepairingStage(w), "repair", "finally")

\* repair_source without its fallback: no candidate, or one that does not
\* parse, fails the attempt.
Repair(w) == ToolCall(w, "repair", {"write", "mark_failed"}, Exceptions(w))

MarkAttemptFailed(w) ==
    RecordOutcome(w, "mark_failed", TRUE, "failed", worker[w].seen)

RepairedSmoke(w) == ToolCall(w, "repaired_smoke", {"repaired_testing"}, Exceptions(w))

\* Mutant: run_cancelled is not asked.
RepairedStagesUnasked(w) ==
    \/ OpenSession(w, "repaired_testing", TRUE, "finally")
    \/ /\ InSession(w, "repaired_testing")
       /\ CommitAndKeep(w, Staged(w, "repaired_testing", {"repairing"}), "repaired_scanning")
    \/ /\ InSession(w, "repaired_scanning")
       /\ CommitStep(w, Staged(w, "repaired_scanning", {"repaired_testing"}), "repaired_bandit")

\* One session, two commits: nothing asks again in between.
RepairedStages(w) ==
    \/ OpenSession(w, "repaired_testing", ~RunCancelled, "finally")
    \/ /\ InSession(w, "repaired_testing")
       /\ CommitAndKeep(w, Staged(w, "repaired_testing", {"repairing"}), "repaired_scanning")
    \/ /\ InSession(w, "repaired_scanning")
       /\ CommitStep(w, Staged(w, "repaired_scanning", {"repaired_testing"}), "repaired_bandit")

RepairedScan(w) ==
    \/ ToolCall(w, "repaired_bandit", {"repaired_semgrep"}, Exceptions(w))
    \/ ToolCall(w, "repaired_semgrep", {"record"},
                {"repaired_scan_incomplete"} \cup Exceptions(w))

\* COMPLETED and the stage, whatever became of the run meanwhile.
RecordAttempt(w) ==
    RecordOutcome(w, "record", TRUE, "completed",
                  Staged(w, "repaired_scanning", {"repaired_scanning"}))

Finish(w) == FinalSession(w, {})

Repairs(w) == \/ AdmitRepairs(w) \/ NextAttempt(w) \/ Repairing(w) \/ Repair(w)
              \/ MarkAttemptFailed(w) \/ RepairedSmoke(w) \/ RepairedStages(w)
              \/ RepairedScan(w) \/ RecordAttempt(w) \/ Finish(w)

-----------------------------------------------------------------------------

WorkerStep(w) == Baseline(w) \/ Repairs(w) \/ FailRun(w, "finally") \/ FinallyCleanup(w)

Next == HandlerNext \/ (\E w \in Workers : WorkerStep(w)) \/ Crash

Spec == Init /\ [][Next]_vars

Fairness == /\ \A h \in Handlers : WF_vars(HandlerStep(h))
            /\ \A w \in Workers : WF_vars(WorkerStep(w))
FairSpec == Spec /\ Fairness

=============================================================================
