---------------------------- MODULE BenchmarkRun ----------------------------
(***************************************************************************)
(* runner.py: the two background tasks of a benchmark run.                 *)
(*                                                                         *)
(* execute_baseline copies the fixture, runs the tests and the scanners on *)
(* it and leaves the run awaiting a strategy; execute_repairs takes each   *)
(* attempt in turn through repair, tests and scanners, and saves a report. *)
(* execute_baseline has no "finally": it never removes the work directory. *)
(***************************************************************************)
EXTENDS RunSafety

Exit(w) == IF worker[w].job = "baseline" THEN "idle" ELSE "finally"
Exceptions(w) == {ExceptionCode(w)}

-----------------------------------------------------------------------------
(* execute_baseline                                                         *)

BaselineAdmit(w) == AdmitBaseline(w, "copy", "idle")

BaselineCopy(w) ==
    /\ worker[w].job = "baseline"
    /\ FillDirectory(w, "copy", BaselineDir, {}, {"testing"}, Exceptions(w))

\* This session returns unless the run is RUNNING; the later ones return only
\* when it is cancelled.
BaselineTesting(w) ==
    \/ OpenSession(w, "testing", run.status = "running", "idle")
    \/ InSession(w, "testing") /\ CommitStep(w, Staged(w, "baseline_testing", {}), "pytest")

BaselinePytest(w) == ToolCall(w, "pytest", {"scanning"}, Exceptions(w))

BaselineScanning(w) ==
    StageSession(w, "scanning", Staged(w, "baseline_scanning", {"baseline_testing"}),
                 "bandit", "idle")

\* run_bandit, then run_semgrep without asking.  A tool that does not complete
\* raises as well, once both have ended.
BaselineScan(w) == \/ ToolCall(w, "bandit", {"semgrep"}, Exceptions(w))
                   \/ ToolCall(w, "semgrep", {"awaiting"}, Exceptions(w))

BaselineAwaiting(w) == StageSession(w, "awaiting", AwaitStrategy(w), "idle", "idle")

Baseline(w) == \/ BaselineAdmit(w) \/ BaselineCopy(w) \/ BaselineTesting(w)
               \/ BaselinePytest(w) \/ BaselineScanning(w) \/ BaselineScan(w)
               \/ BaselineAwaiting(w)

-----------------------------------------------------------------------------
(* execute_repairs                                                          *)

Repairing(w) == StageSession(w, "repairing", RepairingStage(w), "copy", "finally")

RepairCopy(w) ==
    /\ worker[w].job = "repairs"
    /\ FillDirectory(w, "copy", worker[w].at, {}, {"repair"}, Exceptions(w))

\* repair_source; no candidate raises.
Repair(w) == ToolCall(w, "repair", {"repaired_testing"}, Exceptions(w))

RepairedTesting(w) ==
    StageSession(w, "repaired_testing", Staged(w, "repaired_testing", {"repairing"}),
                 "repaired_pytest", "finally")

RepairedPytest(w) == ToolCall(w, "repaired_pytest", {"repaired_scanning"}, Exceptions(w))

RepairedScanning(w) ==
    StageSession(w, "repaired_scanning",
                 Staged(w, "repaired_scanning", {"repaired_testing"}),
                 "repaired_bandit", "finally")

\* A scanner that did not complete is recorded in the metrics, not raised.
RepairedScan(w) == \/ ToolCall(w, "repaired_bandit", {"repaired_semgrep"}, Exceptions(w))
                   \/ ToolCall(w, "repaired_semgrep", {"record"}, Exceptions(w))

\* The attempt is COMPLETED without asking whether the run was cancelled.
RecordAttempt(w) == RecordOutcome(w, "record", TRUE, "completed", worker[w].seen)

Finish(w) == FinalSession(w, {"repaired_scanning"})

Repairs(w) == \/ AdmitRepairs(w) \/ NextAttempt(w) \/ Repairing(w) \/ RepairCopy(w)
              \/ Repair(w) \/ RepairedTesting(w) \/ RepairedPytest(w)
              \/ RepairedScanning(w) \/ RepairedScan(w) \/ RecordAttempt(w)
              \/ Finish(w)

-----------------------------------------------------------------------------

WorkerStep(w) == Baseline(w) \/ Repairs(w) \/ FailRun(w, Exit(w)) \/ FinallyCleanup(w)

Next == HandlerNext \/ (\E w \in Workers : WorkerStep(w)) \/ Crash

Spec == Init /\ [][Next]_vars

-----------------------------------------------------------------------------

\* A run that got as far as its repairs leaves nothing on disk once it is over
\* and every task and request has ended.
RepairedRunIsReclaimed ==
    issued > 0 /\ run.status \in Terminal /\ Quiet /\ crashes = 0 => workdir = {}

=============================================================================
