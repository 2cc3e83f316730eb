----------------------------- MODULE UploadRun ------------------------------
(***************************************************************************)
(* upload_runner.py: the two background tasks of an uploaded program,      *)
(* which is scanned and never executed.  A baseline without findings saves *)
(* its report at once and drops the attempts; a repair that yields no      *)
(* candidate fails its attempt and not the run.  Both tasks end in a       *)
(* "finally" that removes the work directory of a finished run.            *)
(***************************************************************************)
EXTENDS RunSafety

Exceptions(w) == {ExceptionCode(w)}

-----------------------------------------------------------------------------
(* execute_upload_baseline                                                  *)

BaselineAdmit(w) == AdmitBaseline(w, "load", "finally")

\* load_uploaded_python copies the artifact; a source that does not parse
\* fails the run after the copy.
BaselineLoad(w) ==
    \/ FillDirectory(w, "load", BaselineDir, {}, {"scanning"},
                     {"upload_source_failed", "baseline_failed"})
    \/ /\ At(w, "load")
       /\ BaselineDir \notin workdir
       /\ workdir' = workdir \cup {BaselineDir}
       /\ FailWith(w, "invalid_python_syntax")
       /\ UNCHANGED <<rows, issued, handler, overrun, bounds>>

BaselineScanning(w) ==
    StageSession(w, "scanning", Staged(w, "baseline_scanning", {"baseline_testing"}),
                 "bandit", "finally")

\* run_bandit, then run_semgrep without asking; what did not complete shows
\* once both have ended.
BaselineScan(w) ==
    \/ ToolCall(w, "bandit", {"semgrep"}, Exceptions(w))
    \/ ToolCall(w, "semgrep", {"clean", "awaiting"},
                {"baseline_scan_incomplete"} \cup Exceptions(w))

\* Mutant: the attempts are not cleared.
BaselineCleanKeepsAttempts(w) ==
    \/ OpenSession(w, "clean", ~RunCancelled, "finally")
    \/ /\ InSession(w, "clean")
       /\ SaveReport(w, worker[w].seen.attempts, PipelineStages, "finally")

\* No finding: the attempts are deleted and the run completes.
BaselineClean(w) ==
    \/ OpenSession(w, "clean", ~RunCancelled, "finally")
    \/ /\ InSession(w, "clean")
       /\ SaveReport(w, RowsOf({}, "absent"),
                     {"baseline_testing", "baseline_scanning", "reporting"}, "finally")

BaselineAwaiting(w) ==
    StageSession(w, "awaiting", AwaitStrategy(w), "finally", "finally")

Baseline(w) == \/ BaselineAdmit(w) \/ BaselineLoad(w) \/ BaselineScanning(w)
               \/ BaselineScan(w) \/ BaselineClean(w) \/ BaselineAwaiting(w)

-----------------------------------------------------------------------------
(* execute_upload_repairs                                                   *)

Repairing(w) == StageSession(w, "repairing", RepairingStage(w), "copy", "finally")

\* The copy is made from the work directory of the baseline.
RepairCopy(w) ==
    /\ worker[w].job = "repairs"
    /\ FillDirectory(w, "copy", worker[w].at, {BaselineDir}, {"repair"}, Exceptions(w))

\* repair_source; an exception, no candidate and a candidate that does not
\* parse are the attempt's failure, a candidate too large is the run's.
Repair(w) ==
    ToolCall(w, "repair", {"repaired_testing", "mark_failed"}, Exceptions(w))

\* _mark_attempt_failed
MarkAttemptFailed(w) ==
    RecordOutcome(w, "mark_failed", ~RunCancelled, "failed", worker[w].seen)

\* Mutant: run_cancelled is not asked.
RepairedStagesUnasked(w) ==
    \/ OpenSession(w, "repaired_testing", TRUE, "finally")
    \/ /\ InSession(w, "repaired_testing")
       /\ CommitAndKeep(w, Staged(w, "repaired_testing", {"repairing"}), "repaired_scanning")
    \/ /\ InSession(w, "repaired_scanning")
       /\ CommitStep(w, Staged(w, "repaired_scanning", {"repaired_testing"}), "repaired_bandit")

\* One session, two commits: nothing asks again in between.
RepairedStages(w) ==
    \/ OpenSession(w, "repaired_testing", ~RunCancelled, "finally")
    \/ /\ InSession(w, "repaired_testing")
       /\ CommitAndKeep(w, Staged(w, "repaired_testing", {"repairing"}), "repaired_scanning")
    \/ /\ InSession(w, "repaired_scanning")
       /\ CommitStep(w, Staged(w, "repaired_scanning", {"repaired_testing"}), "repaired_bandit")

RepairedScan(w) ==
    \/ ToolCall(w, "repaired_bandit", {"repaired_semgrep"}, Exceptions(w))
    \/ ToolCall(w, "repaired_semgrep", {"record"},
                {"repaired_scan_incomplete"} \cup Exceptions(w))

\* COMPLETED and the stage, unless the run was cancelled.
RecordAttempt(w) ==
    RecordOutcome(w, "record", ~RunCancelled, "completed",
                  Staged(w, "repaired_scanning", {"repaired_scanning"}))

Finish(w) == FinalSession(w, {})

Repairs(w) == \/ AdmitRepairs(w) \/ NextAttempt(w) \/ Repairing(w) \/ RepairCopy(w)
              \/ Repair(w) \/ MarkAttemptFailed(w) \/ RepairedStages(w)
              \/ RepairedScan(w) \/ RecordAttempt(w) \/ Finish(w)

-----------------------------------------------------------------------------

\* Mutant: a failed run is left without its "finally".
WorkerStepReturns(w) == Baseline(w) \/ Repairs(w) \/ FailRun(w, "idle") \/ FinallyCleanup(w)

WorkerStep(w) == Baseline(w) \/ Repairs(w) \/ FailRun(w, "finally") \/ FinallyCleanup(w)

Next == HandlerNext \/ (\E w \in Workers : WorkerStep(w)) \/ Crash

Spec == Init /\ [][Next]_vars

Fairness == /\ \A h \in Handlers : WF_vars(HandlerStep(h))
            /\ \A w \in Workers : WF_vars(WorkerStep(w))
FairSpec == Spec /\ Fairness

-----------------------------------------------------------------------------

\* An uploaded source leaves nothing in the work directory once its run is
\* over, whoever ended it and wherever the task was, unless the process died.
FinishedRunIsReclaimed ==
    run.status \in Terminal /\ Quiet /\ crashes = 0 => workdir = {}

=============================================================================
