------------------------- MODULE BenchmarkRunProofs -------------------------
(***************************************************************************)
(* A benchmark run, for every number of threads, strategies, configurations*)
(* and restarts: its types and what its status may become however requests *)
(* overlap; and, while one request is served at a time, that its tasks     *)
(* exclude each other, that it implements RunVerdict, that its report and  *)
(* its waiting are what they seem, that a cancellation bounds its work, and*)
(* that its repairs leave nothing in the work directory.                   *)
(***************************************************************************)
EXTENDS BenchmarkRun, RunProofs

\* The constants the actions pass to the helpers are well formed.
LEMMA Literals ==
    /\ \A w : Exit(w) \in FreeSteps /\ Exceptions(w) \in SUBSET FailureCodes
    /\ WorkerSteps \ FreeSteps = AttemptSteps \cup {"generate"}
    /\ {"idle", "finally", "pytest", "testing", "scanning", "bandit", "semgrep", "awaiting",
        "repaired_testing", "repaired_pytest", "repaired_scanning", "repaired_bandit",
        "repaired_semgrep", "record"} \subseteq FreeSteps
    /\ {"copy", "repair", "repairing"} \subseteq WorkerSteps
    /\ PipelineStages \subseteq Stages
    /\ {"baseline_testing", "baseline_scanning", "repairing", "repaired_testing",
        "repaired_scanning"} \subseteq PipelineStages
BY ExceptionCodeType DEF Exit, Exceptions, FreeSteps, WorkerSteps, AttemptSteps,
   PipelineStages, Stages

\* Every step of execute_baseline keeps the invariant.
LEMMA BaselineTyped == ASSUME Typed, NEW w \in Workers, Baseline(w) PROVE Typed' /\ StatusStep
<1> USE Literals
<1>1. CASE BaselineAdmit(w)
  BY <1>1, AdmitBaselineTyped DEF BaselineAdmit
<1>2. CASE BaselineCopy(w)
  <2>1. FillDirectory(w, "copy", BaselineDir, {}, {"testing"}, Exceptions(w))
    BY <1>2 DEF BaselineCopy
  <2>2. {"testing"} \in SUBSET WorkerSteps /\ \A p \in {"testing"} : MayEnter(w, p)
    BY FreeStep
  <2>3. Exceptions(w) \in SUBSET FailureCodes
    OBVIOUS
  <2> QED BY <2>1, <2>2, <2>3, FillDirectoryTyped
<1>3. CASE BaselineTesting(w)
  <2>1. CASE OpenSession(w, "testing", run.status = "running", "idle")
    BY <2>1, OpenSessionTyped
  <2>2. CASE InSession(w, "testing") /\ CommitStep(w, Staged(w, "baseline_testing", {}), "pytest")
    BY <2>2, FreeStep, InSessionType, StagedType, CommitStepTyped DEF Typed
  <2> QED BY <1>3, <2>1, <2>2 DEF BaselineTesting
<1>4. CASE BaselinePytest(w)
  BY <1>4, FreeStep, ToolCallTyped DEF BaselinePytest
<1>5. CASE BaselineScanning(w)
  <2>1. InSession(w, "scanning") =>
          /\ Staged(w, "baseline_scanning", {"baseline_testing"}) \in Snapshots
          /\ Staged(w, "baseline_scanning", {"baseline_testing"}).run.status
               = worker[w].seen.run.status
    BY InSessionType, StagedType DEF Typed
  <2> QED BY <1>5, <2>1, FreeStep, StageSessionTyped DEF BaselineScanning, FreeSteps
<1>6. CASE BaselineScan(w)
  BY <1>6, FreeStep, ToolCallTyped DEF BaselineScan
<1>7. CASE BaselineAwaiting(w)
  <2>1. InSession(w, "awaiting") =>
          /\ AwaitStrategy(w) \in Snapshots
          /\ AwaitStrategy(w).run.status = worker[w].seen.run.status
    BY InSessionType, AwaitStrategyType DEF Typed
  <2> QED BY <1>7, <2>1, FreeStep, StageSessionTyped DEF BaselineAwaiting, FreeSteps
<1> QED BY <1>1, <1>2, <1>3, <1>4, <1>5, <1>6, <1>7 DEF Baseline

\* Every step of execute_repairs keeps the invariant.
LEMMA RepairsTyped == ASSUME Typed, NEW w \in Workers, Repairs(w) PROVE Typed' /\ StatusStep
<1> USE Literals
<1>1. CASE AdmitRepairs(w)
  BY <1>1, AdmitRepairsTyped
<1>2. CASE NextAttempt(w)
  BY <1>2, NextAttemptTyped
<1>3. CASE Repairing(w)
  <2>1. InSession(w, "repairing") =>
          /\ RepairingStage(w) \in Snapshots
          /\ RepairingStage(w).run.status = worker[w].seen.run.status
          /\ MayEnter(w, "copy")
    BY InSessionType, RepairingStageType
       DEF Typed, Tasks, WorkerStates, Ready, MayEnter, AttemptSteps, InSession
  <2> QED BY <1>3, <2>1, StageSessionTyped DEF Repairing
<1>4. CASE RepairCopy(w)
  <2>1. worker[w].at \in Attempts /\ MayEnter(w, "repair")
    BY <1>4 DEF RepairCopy, FillDirectory, At, Typed, Tasks, Ready, MayEnter, AttemptSteps
  <2>2. FillDirectory(w, "copy", worker[w].at, {}, {"repair"}, Exceptions(w))
    BY <1>4 DEF RepairCopy
  <2>3. /\ worker[w].at \in Attempts \cup {BaselineDir}
        /\ {"repair"} \in SUBSET WorkerSteps
        /\ \A p \in {"repair"} : MayEnter(w, p)
        /\ Exceptions(w) \in SUBSET FailureCodes
    BY <2>1
  <2> HIDE Literals
  <2> QED BY <2>2, <2>3, FillDirectoryTyped
<1>5. CASE Repair(w)
  BY <1>5, FreeStep, ToolCallTyped DEF Repair
<1>6. CASE RepairedTesting(w)
  <2>1. InSession(w, "repaired_testing") =>
          /\ Staged(w, "repaired_testing", {"repairing"}) \in Snapshots
          /\ Staged(w, "repaired_testing", {"repairing"}).run.status
               = worker[w].seen.run.status
    BY InSessionType, StagedType DEF Typed
  <2> QED BY <1>6, <2>1, FreeStep, StageSessionTyped DEF RepairedTesting, FreeSteps
<1>7. CASE RepairedPytest(w)
  BY <1>7, FreeStep, ToolCallTyped DEF RepairedPytest
<1>8. CASE RepairedScanning(w)
  <2>1. InSession(w, "repaired_scanning") =>
          /\ Staged(w, "repaired_scanning", {"repaired_testing"}) \in Snapshots
          /\ Staged(w, "repaired_scanning", {"repaired_testing"}).run.status
               = worker[w].seen.run.status
    BY InSessionType, StagedType DEF Typed
  <2> QED BY <1>8, <2>1, FreeStep, StageSessionTyped DEF RepairedScanning, FreeSteps
<1>9. CASE RepairedScan(w)
  BY <1>9, FreeStep, ToolCallTyped DEF RepairedScan
<1>10. CASE RecordAttempt(w)
  <2>1. InSession(w, "record") => worker[w].seen \in Snapshots
    BY InSessionType DEF Typed
  <2> QED BY <1>10, <2>1, RecordOutcomeTyped DEF RecordAttempt, FreeSteps
<1>11. CASE Finish(w)
  BY <1>11, FinalSessionTyped DEF Finish
<1> QED BY <1>1, <1>2, <1>3, <1>4, <1>5, <1>6, <1>7, <1>8, <1>9, <1>10, <1>11 DEF Repairs

\* Every step keeps the invariant and moves the status lawfully.
LEMMA StepTyped == Typed /\ [Next]_vars => Typed' /\ StatusStep
<1> SUFFICES ASSUME Typed, [Next]_vars PROVE Typed' /\ StatusStep
  OBVIOUS
<1>1. CASE HandlerNext
  BY <1>1, HandlerTyped
<1>2. CASE \E w \in Workers : WorkerStep(w)
  <2>1. PICK w \in Workers : WorkerStep(w)
    BY <1>2
  <2> QED BY <2>1, BaselineTyped, RepairsTyped, FailRunTyped, FinallyCleanupTyped, Literals
          DEF WorkerStep
<1>3. CASE Crash
  BY <1>3, CrashTyped
<1>4. CASE UNCHANGED vars
  BY <1>4, StutterTyped
<1> QED BY <1>1, <1>2, <1>3, <1>4 DEF Next

\* The invariant holds of every behaviour.
THEOREM Invariant == Spec => []Typed
<1>1. Init => Typed
  BY InitTyped
<1>2. Typed /\ [Next]_vars => Typed'
  BY StepTyped
<1> QED BY <1>1, <1>2, PTL DEF Spec

\* Every variable has its type, whatever requests, tasks and restarts do.
THEOREM TypeCorrect == Spec => []TypeOK
BY Invariant, TypedImpliesTypeOK, PTL

\* No interleaving of requests, tasks and restarts shows a completed run whose
\* report cannot be fetched.
THEOREM CompletedRunsHaveReports == Spec => []CompletedHasReport
<1>1. Init => CompletedHasReport
  BY DEF Init, Created, CompletedHasReport
<1>2. Typed /\ CompletedHasReport /\ [Next]_vars => CompletedHasReport'
  BY StepTyped DEF CompletedHasReport, StatusStep
<1> QED BY <1>1, <1>2, Invariant, PTL DEF Spec

\* No step of anyone puts a run that left the queue back into it.
THEOREM RunsAreNeverRequeued == Spec => NeverRequeued
<1>1. Typed /\ [Next]_vars => [run.status # "queued" => run.status' # "queued"]_vars
  BY StepTyped DEF StatusStep
<1> QED BY <1>1, Invariant, PTL DEF Spec, NeverRequeued

-----------------------------------------------------------------------------
(* One request at a time.                                                   *)

\* How the steps of the two tasks follow one another.
LEMMA Tracks ==
    /\ Along("baseline", "bandit", "semgrep")
    /\ Along("repairs", "repaired_bandit", "repaired_semgrep")
    /\ Along("baseline", "admit", "copy") /\ Along("baseline", "copy", "testing")
    /\ Along("baseline", "pytest", "scanning") /\ Along("baseline", "semgrep", "awaiting")
    /\ Advances("baseline", "testing", {}, "pytest")
    /\ Advances("baseline", "scanning", {"baseline_testing"}, "bandit")
    /\ Along("repairs", "copy", "repair") /\ Along("repairs", "repair", "repaired_testing")
    /\ Along("repairs", "repaired_pytest", "repaired_scanning")
    /\ Along("repairs", "repaired_semgrep", "record")
    /\ Advances("repairs", "repairing", {}, "copy")
    /\ Advances("repairs", "repaired_testing", {"repairing"}, "repaired_pytest")
    /\ Advances("repairs", "repaired_scanning", {"repaired_testing"}, "repaired_bandit")
BY DEF Along, Advances, Finished, StepsOf, EarlySteps, LateSteps, HandSteps, LastSteps

\* Where the tasks of this mode end, and the codes they fail with.
LEMMA ModeLiterals ==
    \A w : "none" \notin Exceptions(w) /\ Exit(w) \in Resting
BY DEF Resting, Exceptions, ExceptionCode, Exit

\* Only a task that is at work takes a step of its pipeline.
LEMMA PipelineWorks ==
    ASSUME NEW w \in Workers, Baseline(w) \/ Repairs(w) \/ FailRun(w, Exit(w))
    PROVE  Working(w)
BY DEF Baseline, BaselineAdmit, BaselineCopy, BaselineTesting, BaselinePytest, BaselineScanning,
   BaselineScan, BaselineAwaiting, Repairs, AdmitRepairs, NextAttempt, Repairing, RepairCopy,
   Repair, RepairedTesting, RepairedPytest, RepairedScanning, RepairedScan, RecordAttempt,
   Finish, AdmitBaseline, FillDirectory, ToolCall, StageSession, OpenSession, RecordOutcome,
   FinalSession, FailRun, At, InSession, Working

\* Every step of execute_baseline in the serial regime.
LEMMA BaselineSerial ==
    ASSUME Typed, Serial, NEW w \in Workers, Working(w), Baseline(w)
    PROVE  Serial' /\ SerialStep
<1> USE Tracks, SerialLiterals, ModeLiterals
<1>1. CASE BaselineAdmit(w)
  BY <1>1, AdmitBaselineSerial DEF BaselineAdmit
<1>2. CASE BaselineCopy(w)
  <2>1. At(w, "copy") => \A q \in {"testing"} : Along(worker[w].job, "copy", q)
    BY <1>2 DEF BaselineCopy
  <2>2. FillDirectory(w, "copy", BaselineDir, {}, {"testing"}, Exceptions(w))
    BY <1>2 DEF BaselineCopy
  <2> QED BY <2>1, <2>2, FillDirectorySerial
<1>3. CASE BaselineTesting(w)
  <2>1. CASE OpenSession(w, "testing", run.status = "running", "idle")
    BY <2>1, OpenSessionSerial
  <2>2. CASE InSession(w, "testing") /\ CommitStep(w, Staged(w, "baseline_testing", {}), "pytest")
    <3>1. Advances(worker[w].job, "testing", {}, "pytest")
      BY <2>2, JobOfStep DEF InSession
    <3> QED BY <2>2, <3>1, StagedStepSerial
  <2> QED BY <1>3, <2>1, <2>2 DEF BaselineTesting
<1>4. CASE BaselinePytest(w)
  <2>1. At(w, "pytest") => \A q \in {"scanning"} : Along(worker[w].job, "pytest", q)
    BY JobOfStep DEF At
  <2> QED BY <1>4, <2>1, ToolCallSerial DEF BaselinePytest
<1>5. CASE BaselineScanning(w)
  <2>1. InSession(w, "scanning") => Advances(worker[w].job, "scanning", {"baseline_testing"}, "bandit")
    BY JobOfStep DEF InSession
  <2> QED BY <1>5, <2>1, StageSessionSerial DEF BaselineScanning
<1>6. CASE BaselineScan(w)
  <2>1. /\ At(w, "bandit") => \A q \in {"semgrep"} : Along(worker[w].job, "bandit", q)
        /\ At(w, "semgrep") => \A q \in {"awaiting"} : Along(worker[w].job, "semgrep", q)
    BY JobOfStep DEF At
  <2> QED BY <1>6, <2>1, ToolCallSerial DEF BaselineScan
<1>7. CASE BaselineAwaiting(w)
  BY <1>7, AwaitingSerial DEF BaselineAwaiting
<1> QED BY <1>1, <1>2, <1>3, <1>4, <1>5, <1>6, <1>7 DEF Baseline

\* Every step of execute_repairs in the serial regime.
LEMMA RepairsSerial ==
    ASSUME Typed, Serial, NEW w \in Workers, Working(w), Repairs(w)
    PROVE  Serial' /\ SerialStep
<1> USE Tracks, SerialLiterals, ModeLiterals
<1>1. CASE AdmitRepairs(w)
  BY <1>1, AdmitRepairsSerial
<1>2. CASE NextAttempt(w)
  BY <1>2, NextAttemptSerial
<1>3. CASE Repairing(w)
  <2>1. InSession(w, "repairing") => Advances(worker[w].job, "repairing", {}, "copy")
    BY JobOfStep DEF InSession
  <2> QED BY <1>3, <2>1, RepairingSerial DEF Repairing
<1>4. CASE RepairCopy(w)
  <2>1. At(w, "copy") => \A q \in {"repair"} : Along(worker[w].job, "copy", q)
    BY <1>4 DEF RepairCopy
  <2>2. FillDirectory(w, "copy", worker[w].at, {}, {"repair"}, Exceptions(w))
    BY <1>4 DEF RepairCopy
  <2> QED BY <2>1, <2>2, FillDirectorySerial
<1>5. CASE Repair(w)
  <2>1. At(w, "repair") => \A q \in {"repaired_testing"} : Along(worker[w].job, "repair", q)
    BY JobOfStep DEF At
  <2> QED BY <1>5, <2>1, ToolCallSerial DEF Repair
<1>6. CASE RepairedTesting(w)
  <2>1. InSession(w, "repaired_testing") =>
          Advances(worker[w].job, "repaired_testing", {"repairing"}, "repaired_pytest")
    BY JobOfStep DEF InSession
  <2> QED BY <1>6, <2>1, StageSessionSerial DEF RepairedTesting
<1>7. CASE RepairedPytest(w)
  <2>1. At(w, "repaired_pytest") =>
          \A q \in {"repaired_scanning"} : Along(worker[w].job, "repaired_pytest", q)
    BY JobOfStep DEF At
  <2> QED BY <1>7, <2>1, ToolCallSerial DEF RepairedPytest
<1>8. CASE RepairedScanning(w)
  <2>1. InSession(w, "repaired_scanning") =>
          Advances(worker[w].job, "repaired_scanning", {"repaired_testing"}, "repaired_bandit")
    BY JobOfStep DEF InSession
  <2> QED BY <1>8, <2>1, StageSessionSerial DEF RepairedScanning
<1>9. CASE RepairedScan(w)
  <2>1. /\ At(w, "repaired_bandit") =>
              \A q \in {"repaired_semgrep"} : Along(worker[w].job, "repaired_bandit", q)
        /\ At(w, "repaired_semgrep") =>
              \A q \in {"record"} : Along(worker[w].job, "repaired_semgrep", q)
    BY JobOfStep DEF At
  <2> QED BY <1>9, <2>1, ToolCallSerial DEF RepairedScan
<1>10. CASE RecordAttempt(w)
  <2>1. InSession(w, "record") => worker[w].seen \in Snapshots
    BY InSessionType DEF Typed
  <2>2. "completed" = OutcomeOf("record")
    BY DEF OutcomeOf
  <2> QED BY <1>10, <2>1, <2>2, RecordOutcomeSerial DEF RecordAttempt
<1>11. CASE Finish(w)
  BY <1>11, FinalSessionSerial DEF Finish
<1> QED BY <1>1, <1>2, <1>3, <1>4, <1>5, <1>6, <1>7, <1>8, <1>9, <1>10, <1>11 DEF Repairs

\* Every step keeps the invariant of the serial regime.
LEMMA StepSerial ==
    ASSUME MaxOverlaps = 0, Typed, Serial, [Next]_vars PROVE Serial' /\ SerialStep
<1>1. CASE HandlerNext
  BY <1>1, HandlerSerial
<1>2. CASE \E w \in Workers : WorkerStep(w)
  <2>1. PICK w \in Workers : WorkerStep(w)
    BY <1>2
  <2>2. CASE FinallyCleanup(w)
    BY <2>2, FinallyCleanupSerial
  <2>3. CASE Baseline(w) \/ Repairs(w) \/ FailRun(w, Exit(w))
    BY <2>3, PipelineWorks, BaselineSerial, RepairsSerial, FailRunSerial, ModeLiterals
  <2> QED BY <2>1, <2>2, <2>3 DEF WorkerStep
<1>3. CASE Crash
  BY <1>3, CrashSerial
<1>4. CASE UNCHANGED vars
  BY <1>4, StutterSerial
<1> QED BY <1>1, <1>2, <1>3, <1>4 DEF Next

\* The invariant of the serial regime holds of every behaviour without
\* overlapping requests.
THEOREM SerialInvariant == ASSUME MaxOverlaps = 0 PROVE Spec => []Serial
<1>1. Init => Serial
  BY InitSerial
<1>2. Typed /\ Serial /\ [Next]_vars => Serial'
  BY StepSerial
<1> QED BY <1>1, <1>2, Invariant, PTL DEF Spec

\* At most one task works on a run.
THEOREM TasksExclude == ASSUME MaxOverlaps = 0 PROVE Spec => []OneTaskAtATime
<1>1. Serial => OneTaskAtATime
  BY DEF Serial
<1> QED BY <1>1, SerialInvariant, PTL

\* The rows implement the verdict protocol.
THEOREM VerdictImplemented == ASSUME MaxOverlaps = 0 PROVE Spec => ImplementsVerdict
<1>1. Init => Verdict!Init
  BY InitSerial
<1>2. Typed /\ Serial /\ [Next]_vars => [Verdict!Next]_<<run.status, Decided>>
  BY StepSerial DEF SerialStep, VerdictStep
<1> QED BY <1>1, <1>2, Invariant, SerialInvariant, PTL DEF Spec, ImplementsVerdict, Verdict!Spec

\* A run that waits for a strategy is ready for one.
THEOREM AwaitingRunsAreReady == ASSUME MaxOverlaps = 0 PROVE Spec => []AwaitingIsReady
<1>1. Serial => AwaitingIsReady
  BY DEF Serial
<1> QED BY <1>1, SerialInvariant, PTL

\* While the process lives, a running run is being worked on.
THEOREM RunningRunsAreOwned == ASSUME MaxOverlaps = 0 PROVE Spec => []RunningIsOwned
<1>1. Serial => RunningIsOwned
  BY DEF Serial
<1> QED BY <1>1, SerialInvariant, PTL

\* A report lists exactly the attempts of its run, and no row contradicts it.
THEOREM ReportsCoverAttempts == ASSUME MaxOverlaps = 0 PROVE Spec => []ReportCoversAttempts
<1>1. Serial => ReportCoversAttempts
  BY DEF Serial
<1> QED BY <1>1, SerialInvariant, PTL

\* A finished stage stays finished for whoever polls.
THEOREM ProgressGrows == ASSUME MaxOverlaps = 0 PROVE Spec => ProgressOnlyGrows
<1>1. Typed /\ Serial /\ [Next]_vars
        => [run.status = "running" /\ run'.status = "running"
              => run.progress.done \subseteq run'.progress.done]_vars
  BY StepSerial DEF SerialStep
<1> QED BY <1>1, Invariant, SerialInvariant, PTL DEF Spec, ProgressOnlyGrows

-----------------------------------------------------------------------------
(* What a cancelled run can still cost.                                     *)

\* Every step of execute_baseline pays for itself.
LEMMA BaselineSpends ==
    ASSUME Typed, Serial, NEW w \in Workers, Working(w), Baseline(w)
    PROVE  Spends(w)
<1>0. Tasks /\ overrun \in Nat
  BY DEF Typed, Others
<1> USE <1>0 DEF Spends, Left, Lands, At, InSession, RunCancelled
<1>1. CASE BaselineAdmit(w)
  <2>1. worker[w].pc = "admit" /\ overrun' = overrun
    BY <1>1 DEF BaselineAdmit, AdmitBaseline
  <2>2. Lands(w, {"copy", "idle"}) /\ worker[w].job = "baseline"
    BY <1>1, GotoLands DEF BaselineAdmit, AdmitBaseline
  <2> QED BY <2>1, <2>2
<1>2. CASE BaselineCopy(w)
  BY <1>2, FillLands DEF BaselineCopy
<1>3. CASE BaselineTesting(w)
  <2>1. CASE OpenSession(w, "testing", run.status = "running", "idle")
    <3>1. /\ At(w, "testing") /\ Alone(w) /\ UNCHANGED overrun
          /\ run.status = "running" \/ Lands(w, {"idle"})
      BY <2>1, OpenLands
    <3> QED BY <3>1
  <2>2. CASE InSession(w, "testing") /\ CommitStep(w, Staged(w, "baseline_testing", {}), "pytest")
    BY <2>2, CommitLands
  <2> QED BY <1>3, <2>1, <2>2 DEF BaselineTesting
<1>4. CASE BaselinePytest(w)
  BY <1>4, ToolLands DEF BaselinePytest
<1>5. CASE BaselineScanning(w)
  BY <1>5, StageLands DEF BaselineScanning
<1>6. CASE BaselineScan(w)
  BY <1>6, ToolLands DEF BaselineScan
<1>7. CASE BaselineAwaiting(w)
  BY <1>7, StageLands DEF BaselineAwaiting
<1> QED BY <1>1, <1>2, <1>3, <1>4, <1>5, <1>6, <1>7 DEF Baseline

\* Every step of execute_repairs pays for itself.
LEMMA RepairsSpends ==
    ASSUME Typed, Serial, NEW w \in Workers, Working(w), Repairs(w)
    PROVE  Spends(w)
<1>0. Tasks /\ overrun \in Nat
  BY DEF Typed, Others
<1> USE <1>0 DEF Spends, Left, Lands, At, InSession, RunCancelled
<1>1. CASE AdmitRepairs(w) \/ NextAttempt(w) \/ Finish(w)
  BY <1>1, AdmitRepairsLands, NextAttemptLands, FinalLands DEF Finish
<1>2. CASE Repairing(w)
  BY <1>2, StageLands DEF Repairing
<1>3. CASE RepairCopy(w)
  BY <1>3, FillLands DEF RepairCopy
<1>4. CASE Repair(w)
  BY <1>4, ToolLands DEF Repair
<1>5. CASE RepairedTesting(w)
  BY <1>5, StageLands DEF RepairedTesting
<1>6. CASE RepairedPytest(w)
  BY <1>6, ToolLands DEF RepairedPytest
<1>7. CASE RepairedScanning(w)
  BY <1>7, StageLands DEF RepairedScanning
<1>8. CASE RepairedScan(w)
  BY <1>8, ToolLands DEF RepairedScan
<1>9. CASE RecordAttempt(w)
  <2>1. /\ worker[w].pc = "record" /\ UNCHANGED overrun /\ Alone(w)
        /\ worker'[w].pc \in {"record", "finally", "fail", "next"}
    BY <1>9, RecordLands DEF RecordAttempt
  <2> QED BY <2>1
<1> QED BY <1>1, <1>2, <1>3, <1>4, <1>5, <1>6, <1>7, <1>8, <1>9 DEF Repairs

\* No step makes the task of a cancelled run costlier than it was.
LEMMA CostStep ==
    ASSUME MaxOverlaps = 0, Typed, Serial, Cost, [Next]_vars PROVE Cost'
<1>1. SerialStep /\ overrun' \in Nat
  BY StepSerial, StepTyped DEF Typed, Others
<1>2. ASSUME NEW w \in Workers, Baseline(w) \/ Repairs(w) \/ FailRun(w, Exit(w))
      PROVE  Cost'
  <2>1. Working(w)
    BY <1>2, PipelineWorks
  <2>2. Spends(w)
    <3>1. CASE FailRun(w, Exit(w))
      <4>1. Alone(w) /\ Left(worker'[w]) = 0 /\ UNCHANGED overrun
        BY <3>1, FailRunLands DEF Typed, Left, Exit
      <4>2. overrun \in Nat /\ Left(worker[w]) \in 0..2
        BY DEF Typed, Others, Left
      <4> QED BY <4>1, <4>2 DEF Spends
    <3> QED BY <1>2, <2>1, <3>1, BaselineSpends, RepairsSpends
  <2> QED BY <1>1, <2>1, <2>2, TaskCosts
<1> QED BY <1>1, <1>2, RequestCosts, RestCosts DEF Next, WorkerStep

\* A cancelled run costs at most two calls of a tool or the model.
THEOREM CancelledRunsStop == ASSUME MaxOverlaps = 0 PROVE Spec => []CancelStopsWork
<1>1. Init => Cost
  BY CostInit
<1>2. Typed /\ Serial /\ Cost /\ [Next]_vars => Cost'
  BY CostStep
<1>3. Cost => CancelStopsWork
  BY DEF Cost, CancelStopsWork
<1> QED BY <1>1, <1>2, <1>3, Invariant, SerialInvariant, PTL DEF Spec

-----------------------------------------------------------------------------
(* The work directory.                                                      *)

\* Once it is past its strategies, the pipeline stays on its way to "finally";
\* before that, a baseline that ends has handed out no batch.
LEMMA PipelineStays ==
    ASSUME Typed, Serial, NEW w \in Workers, Baseline(w) \/ Repairs(w) \/ FailRun(w, Exit(w))
    PROVE  worker'[w].pc # "idle" \/ issued' = 0
<1>0. Tasks /\ Working(w)
  BY PipelineWorks DEF Typed
<1>1. CASE worker[w].job = "baseline"
  <2>1. issued = 0
    BY <1>0, <1>1 DEF Serial, TaskOK, Staging
  <2>2. UNCHANGED issued
    BY DEF Baseline, BaselineAdmit, BaselineCopy, BaselineTesting, BaselinePytest,
       BaselineScanning, BaselineScan, BaselineAwaiting, Repairs, AdmitRepairs, NextAttempt,
       Repairing, RepairCopy, Repair, RepairedTesting, RepairedPytest, RepairedScanning,
       RepairedScan, RecordAttempt, Finish, AdmitBaseline, FillDirectory, ToolCall,
       StageSession, OpenSession, CommitStep, CommitAndKeep, RecordOutcome, FinalSession,
       SaveReport, FailRun
  <2> QED BY <2>1, <2>2
<1>2. CASE worker[w].job # "baseline"
  <2>0. worker[w].job = "repairs" /\ Exit(w) = "finally"
    BY <1>0, <1>2, JobOfStep DEF Exit
  <2>1. CASE Baseline(w)
    BY <1>0, <2>0, <2>1, JobOfStep, FillLands DEF Baseline, BaselineAdmit, BaselineCopy,
       BaselineTesting, BaselinePytest, BaselineScanning, BaselineScan, BaselineAwaiting,
       AdmitBaseline, ToolCall, StageSession, OpenSession, At, InSession
  <2>2. CASE AdmitRepairs(w) \/ NextAttempt(w) \/ Finish(w)
    BY <1>0, <2>2, AdmitRepairsLands, NextAttemptLands, FinalLands DEF Finish
  <2>3. CASE Repairing(w) \/ RepairedTesting(w) \/ RepairedScanning(w)
    BY <1>0, <2>3, StageLands DEF Repairing, RepairedTesting, RepairedScanning, Lands
  <2>4. CASE RepairCopy(w)
    BY <1>0, <2>4, FillLands DEF RepairCopy, Lands
  <2>5. CASE Repair(w) \/ RepairedPytest(w) \/ RepairedScan(w)
    BY <1>0, <2>5, ToolLands DEF Repair, RepairedPytest, RepairedScan, Lands
  <2>6. CASE RecordAttempt(w)
    <3>1. worker'[w].pc \in {"record", "finally", "fail", "next"}
      BY <1>0, <2>6, RecordLands DEF RecordAttempt
    <3> QED BY <3>1
  <2>7. CASE FailRun(w, Exit(w))
    BY <1>0, <2>0, <2>7, FailRunLands
  <2> QED BY <2>1, <2>2, <2>3, <2>4, <2>5, <2>6, <2>7 DEF Repairs
<1> QED BY <1>1, <1>2

\* A run past its strategies leaves nothing on disk once it is over and every
\* task and request has ended.
THEOREM RepairedRunsAreReclaimed ==
    ASSUME MaxOverlaps = 0 PROVE Spec => []RepairedRunIsReclaimed
<1> DEFINE PastStrategies == issued > 0 => Reclaimed
<1>1. Init => PastStrategies
  BY DEF Init
<1>2. Typed /\ Serial /\ PastStrategies /\ [Next]_vars => PastStrategies'
  <2> SUFFICES ASSUME Typed, Serial, issued > 0 => Reclaimed, [Next]_vars, issued' > 0
               PROVE  Reclaimed'
    OBVIOUS
  <2>1. ASSUME HandlerNext PROVE Reclaimed'
    <3>1. issued' = issued \/ Reclaiming'
      BY <2>1, HandlerSpares DEF Reclaiming
    <3> QED BY <2>1, <3>1, HandlerReclaims DEF Reclaimed, ReclaimStep
  <2>2. ASSUME NEW w \in Workers, Baseline(w) \/ Repairs(w) \/ FailRun(w, Exit(w))
        PROVE  Reclaimed'
    BY <2>2, PipelineStays DEF Reclaimed, Reclaiming
  <2>3. ASSUME NEW w \in Workers, FinallyCleanup(w) PROVE Reclaimed'
    <3>1. issued' = issued
      BY <2>3 DEF FinallyCleanup
    <3> QED BY <2>3, <3>1, FinallyReclaims DEF Reclaimed, ReclaimStep
  <2>4. ASSUME Crash \/ UNCHANGED vars PROVE Reclaimed'
    <3>1. issued' = issued
      BY <2>4 DEF Crash, vars
    <3> QED BY <2>4, <3>1, RestReclaims DEF Reclaimed, ReclaimStep
  <2> QED BY <2>1, <2>2, <2>3, <2>4 DEF Next, WorkerStep
<1>3. PastStrategies => RepairedRunIsReclaimed
  BY DEF RepairedRunIsReclaimed, Reclaimed, Reclaiming, Quiet
<1> QED BY <1>1, <1>2, <1>3, Invariant, SerialInvariant, PTL DEF Spec

=============================================================================
