-------------------------- MODULE CustomRunProofs ---------------------------
(***************************************************************************)
(* A run over a generated program, for every value of the constants: its   *)
(* types and what its status may become however requests overlap; and,     *)
(* while one request is served at a time, that its tasks exclude each      *)
(* other, that it implements RunVerdict and that a cancellation bounds its *)
(* work.                                                                   *)
(***************************************************************************)
EXTENDS CustomRun, RunProofs

\* The constants the actions pass to the helpers are well formed.
LEMMA Literals ==
    /\ \A w : Exceptions(w) \in SUBSET FailureCodes
    /\ {"generation_failed", "generation_invalid_response",
        "baseline_scan_incomplete", "repaired_scan_incomplete"} \subseteq FailureCodes
    /\ WorkerSteps \ FreeSteps = AttemptSteps \cup {"generate"}
    /\ {"finally", "smoke", "scanning", "bandit", "semgrep", "clean", "awaiting", "mark_failed",
        "repaired_smoke", "repaired_testing", "repaired_scanning", "repaired_bandit",
        "repaired_semgrep", "record"} \subseteq FreeSteps
    /\ {"load", "generate", "copy", "write", "repair", "repairing"} \subseteq WorkerSteps
    /\ PipelineStages \subseteq Stages
    /\ {"baseline_testing", "baseline_scanning", "reporting", "repairing",
        "repaired_testing", "repaired_scanning"} \subseteq PipelineStages
BY ExceptionCodeType DEF Exceptions, FreeSteps, WorkerSteps, AttemptSteps, PipelineStages,
   Stages, FailureCodes

\* WriteProgram serves both tasks.
LEMMA WriteProgramTyped ==
    ASSUME Typed, NEW w \in Workers, WriteProgram(w) PROVE Typed' /\ StatusStep
<1>1. /\ \A p \in {"smoke"} : MayEnter(w, p)
      /\ \A p \in {"repaired_smoke"} : MayEnter(w, p)
      /\ {"smoke"} \in SUBSET WorkerSteps
      /\ {"repaired_smoke"} \in SUBSET WorkerSteps
      /\ Exceptions(w) \in SUBSET FailureCodes
  BY Literals, FreeStep
<1>2. CASE worker[w].job = "baseline"
  <2>1. FillDirectory(w, "write", BaselineDir, {}, {"smoke"}, Exceptions(w))
    BY <1>2 DEF WriteProgram
  <2> QED BY <1>1, <2>1, FillDirectoryTyped
<1>3. CASE worker[w].job # "baseline"
  <2>1. FillDirectory(w, "write", worker[w].at, {}, {"repaired_smoke"}, Exceptions(w))
    BY <1>3 DEF WriteProgram
  <2>2. worker[w].at \in Attempts
    BY <1>3, <2>1 DEF FillDirectory, At, Typed, Tasks, Ready, MayEnter, AttemptSteps
  <2> QED BY <1>1, <2>1, <2>2, FillDirectoryTyped
<1> QED BY <1>2, <1>3

\* Every step of execute_custom_baseline keeps the invariant.
LEMMA BaselineTyped == ASSUME Typed, NEW w \in Workers, Baseline(w) PROVE Typed' /\ StatusStep
<1> USE Literals
<1>1. CASE BaselineAdmit(w)
  BY <1>1, AdmitBaselineTyped DEF BaselineAdmit
<1>2. CASE Generate(w)
  <2>1. At(w, "generate") => \A p \in {"write"} : MayEnter(w, p)
    BY DEF At, Typed, Tasks, Ready, MayEnter
  <2>2. ToolCall(w, "generate", {"write"},
          {"generation_failed", "generation_invalid_response"} \cup Exceptions(w))
    BY <1>2 DEF Generate
  <2>3. /\ {"write"} \in SUBSET WorkerSteps
        /\ {"generation_failed", "generation_invalid_response"} \cup Exceptions(w)
             \in SUBSET FailureCodes
    OBVIOUS
  <2> HIDE Literals
  <2> QED BY <2>1, <2>2, <2>3, ToolCallTyped
<1>3. CASE WriteProgram(w)
  BY <1>3, WriteProgramTyped
<1>4. CASE BaselineSmoke(w)
  BY <1>4, FreeStep, ToolCallTyped DEF BaselineSmoke
<1>5. CASE BaselineScanning(w)
  <2>1. InSession(w, "scanning") =>
          /\ Staged(w, "baseline_scanning", {"baseline_testing"}) \in Snapshots
          /\ Staged(w, "baseline_scanning", {"baseline_testing"}).run.status = worker[w].seen.run.status
    BY InSessionType, StagedType DEF Typed
  <2> QED BY <1>5, <2>1, FreeStep, StageSessionTyped DEF BaselineScanning, FreeSteps
<1>6. CASE BaselineScan(w)
  BY <1>6, FreeStep, ToolCallTyped DEF BaselineScan
<1>7. CASE BaselineClean(w)
  <2>1. CASE OpenSession(w, "clean", ~RunCancelled, "finally")
    BY <2>1, OpenSessionTyped
  <2>2. CASE /\ InSession(w, "clean")
             /\ SaveReport(w, RowsOf({}, "absent"),
                   {"baseline_testing", "baseline_scanning", "reporting"}, "finally")
    <3>1. RowsOf({}, "absent") \in AttemptRows /\ worker[w].seen \in Snapshots
      BY <2>2, RowsOfType, InSessionType DEF Typed
    <3> QED BY <2>2, <3>1, SaveReportTyped
  <2> QED BY <1>7, <2>1, <2>2 DEF BaselineClean
<1>8. CASE BaselineAwaiting(w)
  <2>1. InSession(w, "awaiting") =>
          /\ AwaitStrategy(w) \in Snapshots
          /\ AwaitStrategy(w).run.status = worker[w].seen.run.status
    BY InSessionType, AwaitStrategyType DEF Typed
  <2> QED BY <1>8, <2>1, FreeStep, StageSessionTyped DEF BaselineAwaiting, FreeSteps
<1> QED BY <1>1, <1>2, <1>3, <1>4, <1>5, <1>6, <1>7, <1>8 DEF Baseline

\* Every step of execute_custom_repairs keeps the invariant.
LEMMA RepairsTyped == ASSUME Typed, NEW w \in Workers, Repairs(w) PROVE Typed' /\ StatusStep
<1> USE Literals
<1>1. CASE AdmitRepairs(w)
  BY <1>1, AdmitRepairsTyped
<1>2. CASE NextAttempt(w)
  BY <1>2, NextAttemptTyped
<1>3. CASE Repairing(w)
  <2>1. InSession(w, "repairing") =>
          /\ RepairingStage(w) \in Snapshots
          /\ RepairingStage(w).run.status = worker[w].seen.run.status
          /\ MayEnter(w, "repair")
    BY InSessionType, RepairingStageType
       DEF Typed, Tasks, WorkerStates, Ready, MayEnter, AttemptSteps, InSession
  <2> QED BY <1>3, <2>1, StageSessionTyped DEF Repairing
<1>4. CASE Repair(w)
  <2>1. At(w, "repair") => \A p \in {"write", "mark_failed"} : MayEnter(w, p)
    BY DEF At, Typed, Tasks, Ready, MayEnter, AttemptSteps
  <2>2. ToolCall(w, "repair", {"write", "mark_failed"}, Exceptions(w))
    BY <1>4 DEF Repair
  <2>3. {"write", "mark_failed"} \in SUBSET WorkerSteps
    BY DEF FreeSteps
  <2> QED BY <2>1, <2>2, <2>3, ToolCallTyped
<1>5. CASE MarkAttemptFailed(w)
  <2>1. InSession(w, "mark_failed") => worker[w].seen \in Snapshots
    BY InSessionType DEF Typed
  <2> QED BY <1>5, <2>1, RecordOutcomeTyped DEF MarkAttemptFailed, FreeSteps
<1>6. CASE RepairedSmoke(w)
  BY <1>6, FreeStep, ToolCallTyped DEF RepairedSmoke
<1>7. CASE RepairedStages(w)
  <2>1. CASE OpenSession(w, "repaired_testing", ~RunCancelled, "finally")
    BY <2>1, OpenSessionTyped
  <2>2. CASE /\ InSession(w, "repaired_testing")
             /\ CommitAndKeep(w, Staged(w, "repaired_testing", {"repairing"}),
                              "repaired_scanning")
    BY <2>2, InSessionType, StagedType, CommitAndKeepTyped DEF Typed
  <2>3. CASE /\ InSession(w, "repaired_scanning")
             /\ CommitStep(w, Staged(w, "repaired_scanning", {"repaired_testing"}),
                           "repaired_bandit")
    BY <2>3, FreeStep, InSessionType, StagedType, CommitStepTyped DEF Typed
  <2> QED BY <1>7, <2>1, <2>2, <2>3 DEF RepairedStages
<1>8. CASE RepairedScan(w)
  BY <1>8, FreeStep, ToolCallTyped DEF RepairedScan
<1>9. CASE RecordAttempt(w)
  <2>1. InSession(w, "record") =>
          /\ Staged(w, "repaired_scanning", {"repaired_scanning"}) \in Snapshots
          /\ Staged(w, "repaired_scanning", {"repaired_scanning"}).run.status
               = worker[w].seen.run.status
    BY InSessionType, StagedType DEF Typed
  <2> QED BY <1>9, <2>1, RecordOutcomeTyped DEF RecordAttempt, FreeSteps
<1>10. CASE Finish(w)
  BY <1>10, FinalSessionTyped DEF Finish
<1> QED BY <1>1, <1>2, <1>3, <1>4, <1>5, <1>6, <1>7, <1>8, <1>9, <1>10 DEF Repairs

\* Every step keeps the invariant and moves the status lawfully.
LEMMA StepTyped == Typed /\ [Next]_vars => Typed' /\ StatusStep
<1> SUFFICES ASSUME Typed, [Next]_vars PROVE Typed' /\ StatusStep
  OBVIOUS
<1>1. CASE HandlerNext
  BY <1>1, HandlerTyped
<1>2. CASE \E w \in Workers : WorkerStep(w)
  <2>1. PICK w \in Workers : WorkerStep(w)
    BY <1>2
  <2> QED BY <2>1, BaselineTyped, RepairsTyped, FailRunTyped, FinallyCleanupTyped, Literals
          DEF WorkerStep
<1>3. CASE Crash
  BY <1>3, CrashTyped
<1>4. CASE UNCHANGED vars
  BY <1>4, StutterTyped
<1> QED BY <1>1, <1>2, <1>3, <1>4 DEF Next

\* The invariant holds of every behaviour.
THEOREM Invariant == Spec => []Typed
<1>1. Init => Typed
  BY InitTyped
<1>2. Typed /\ [Next]_vars => Typed'
  BY StepTyped
<1> QED BY <1>1, <1>2, PTL DEF Spec

\* Every variable has its type, whatever requests, tasks and restarts do.
THEOREM TypeCorrect == Spec => []TypeOK
BY Invariant, TypedImpliesTypeOK, PTL

\* No interleaving shows a completed run of a prompt whose report cannot
\* be fetched, the early completion of a clean baseline included.
THEOREM CompletedRunsHaveReports == Spec => []CompletedHasReport
<1>1. Init => CompletedHasReport
  BY DEF Init, Created, CompletedHasReport
<1>2. Typed /\ CompletedHasReport /\ [Next]_vars => CompletedHasReport'
  BY StepTyped DEF CompletedHasReport, StatusStep
<1> QED BY <1>1, <1>2, Invariant, PTL DEF Spec

\* No step of anyone puts a run that left the queue back into it.
THEOREM RunsAreNeverRequeued == Spec => NeverRequeued
<1>1. Typed /\ [Next]_vars => [run.status # "queued" => run.status' # "queued"]_vars
  BY StepTyped DEF StatusStep
<1> QED BY <1>1, Invariant, PTL DEF Spec, NeverRequeued

-----------------------------------------------------------------------------
(* One request at a time.                                                   *)

\* How the steps of the two tasks follow one another.
LEMMA Tracks ==
    /\ Along("baseline", "bandit", "semgrep")
    /\ Along("repairs", "repaired_bandit", "repaired_semgrep")
    /\ Along("baseline", "admit", "generate") /\ Along("baseline", "generate", "write")
    /\ Along("baseline", "write", "smoke") /\ Along("baseline", "smoke", "scanning")
    /\ Along("baseline", "semgrep", "clean") /\ Along("baseline", "semgrep", "awaiting")
    /\ Advances("baseline", "scanning", {"baseline_testing"}, "bandit")
    /\ Advances("repairs", "repairing", {}, "repair") /\ Along("repairs", "repair", "write")
    /\ Along("repairs", "write", "repaired_smoke")
    /\ Along("repairs", "repaired_smoke", "repaired_testing")
    /\ Along("repairs", "repair", "mark_failed") /\ Along("repairs", "repaired_semgrep", "record")
    /\ Advances("repairs", "repaired_testing", {"repairing"}, "repaired_scanning")
    /\ Advances("repairs", "repaired_scanning", {"repaired_testing"}, "repaired_bandit")
BY DEF Along, Advances, Finished, StepsOf, EarlySteps, LateSteps, HandSteps, LastSteps

\* The codes the tasks of this mode fail with.
LEMMA ModeLiterals == \A w : "none" \notin Exceptions(w)
BY DEF Exceptions, ExceptionCode

\* Only a task that is at work takes a step of its pipeline.
LEMMA PipelineWorks ==
    ASSUME NEW w \in Workers, Baseline(w) \/ Repairs(w) \/ FailRun(w, "finally")
    PROVE  Working(w)
BY DEF Baseline, BaselineAdmit, Generate, WriteProgram, BaselineSmoke, BaselineScanning,
   BaselineScan, BaselineClean, BaselineAwaiting, Repairs, AdmitRepairs, NextAttempt,
   Repairing, Repair, MarkAttemptFailed, RepairedSmoke, RepairedStages, RepairedScan,
   RecordAttempt, Finish,
   AdmitBaseline, FillDirectory, ToolCall, StageSession, OpenSession, RecordOutcome,
   FinalSession, FailRun, At, InSession, Working

\* WriteProgram serves both tasks.
LEMMA WriteProgramSerial ==
    ASSUME Typed, Serial, NEW w \in Workers, Working(w), WriteProgram(w)
    PROVE  Serial' /\ SerialStep
<1> USE Tracks, ModeLiterals
<1>1. CASE worker[w].job = "baseline"
  <2>1. FillDirectory(w, "write", BaselineDir, {}, {"smoke"}, Exceptions(w))
    BY <1>1 DEF WriteProgram
  <2>2. \A q \in {"smoke"} : Along(worker[w].job, "write", q)
    BY <1>1
  <2> QED BY <2>1, <2>2, FillDirectorySerial
<1>2. CASE worker[w].job # "baseline"
  <2>1. FillDirectory(w, "write", worker[w].at, {}, {"repaired_smoke"}, Exceptions(w))
    BY <1>2 DEF WriteProgram
  <2>2. \A q \in {"repaired_smoke"} : Along(worker[w].job, "write", q)
    BY <1>2, JobOfStep
  <2> QED BY <2>1, <2>2, FillDirectorySerial
<1> QED BY <1>1, <1>2

\* Every step of execute_custom_baseline in the serial regime.
LEMMA BaselineSerial ==
    ASSUME Typed, Serial, NEW w \in Workers, Working(w), Baseline(w)
    PROVE  Serial' /\ SerialStep
<1> USE Tracks, SerialLiterals, ModeLiterals
<1>1. CASE BaselineAdmit(w)
  BY <1>1, AdmitBaselineSerial DEF BaselineAdmit
<1>2. CASE Generate(w)
  <2>1. At(w, "generate") => \A q \in {"write"} : Along(worker[w].job, "generate", q)
    BY JobOfStep DEF At
  <2>2. "none" \notin {"generation_failed", "generation_invalid_response"} \cup Exceptions(w)
    OBVIOUS
  <2> QED BY <1>2, <2>1, <2>2, ToolCallSerial DEF Generate
<1>3. CASE BaselineScanning(w)
  <2>1. InSession(w, "scanning") => Advances(worker[w].job, "scanning", {"baseline_testing"}, "bandit")
    BY JobOfStep DEF InSession
  <2> QED BY <1>3, <2>1, StageSessionSerial DEF BaselineScanning
<1>4. CASE BaselineScan(w)
  <2>1. /\ At(w, "bandit") => \A q \in {"semgrep"} : Along(worker[w].job, "bandit", q)
        /\ At(w, "semgrep") => \A q \in {"clean", "awaiting"} : Along(worker[w].job, "semgrep", q)
    BY JobOfStep DEF At
  <2>2. "none" \notin {"baseline_scan_incomplete"} \cup Exceptions(w)
    OBVIOUS
  <2> QED BY <1>4, <2>1, <2>2, ToolCallSerial DEF BaselineScan
<1>5. CASE BaselineClean(w)
  <2>1. CASE OpenSession(w, "clean", ~RunCancelled, "finally")
    BY <2>1, OpenSessionSerial DEF RunCancelled
  <2> QED BY <1>5, <2>1, CleanReportSerial DEF BaselineClean
<1>6. CASE BaselineAwaiting(w)
  BY <1>6, AwaitingSerial DEF BaselineAwaiting
<1>7. CASE BaselineSmoke(w)
  <2>1. At(w, "smoke") => \A q \in {"scanning"} : Along(worker[w].job, "smoke", q)
    BY JobOfStep DEF At
  <2> QED BY <1>7, <2>1, ToolCallSerial DEF BaselineSmoke
<1>8. CASE WriteProgram(w)
  BY <1>8, WriteProgramSerial
<1> QED BY <1>1, <1>2, <1>3, <1>4, <1>5, <1>6, <1>7, <1>8 DEF Baseline

\* Every step of execute_custom_repairs in the serial regime.
LEMMA RepairsSerial ==
    ASSUME Typed, Serial, NEW w \in Workers, Working(w), Repairs(w)
    PROVE  Serial' /\ SerialStep
<1> USE Tracks, SerialLiterals, ModeLiterals
<1>1. CASE AdmitRepairs(w)
  BY <1>1, AdmitRepairsSerial
<1>2. CASE NextAttempt(w)
  BY <1>2, NextAttemptSerial
<1>3. CASE Repairing(w)
  <2>1. InSession(w, "repairing") => Advances(worker[w].job, "repairing", {}, "repair")
    BY JobOfStep DEF InSession
  <2> QED BY <1>3, <2>1, RepairingSerial DEF Repairing
<1>4. CASE RepairedSmoke(w)
  <2>1. At(w, "repaired_smoke") =>
          \A q \in {"repaired_testing"} : Along(worker[w].job, "repaired_smoke", q)
    BY JobOfStep DEF At
  <2> QED BY <1>4, <2>1, ToolCallSerial DEF RepairedSmoke
<1>5. CASE Repair(w)
  <2>1. At(w, "repair") =>
          \A q \in {"write", "mark_failed"} : Along(worker[w].job, "repair", q)
    BY JobOfStep DEF At
  <2> QED BY <1>5, <2>1, ToolCallSerial DEF Repair
<1>6. CASE RepairedStages(w)
  <2>1. CASE OpenSession(w, "repaired_testing", ~RunCancelled, "finally")
    BY <2>1, OpenSessionSerial DEF RunCancelled
  <2>2. CASE /\ InSession(w, "repaired_testing")
             /\ CommitAndKeep(w, Staged(w, "repaired_testing", {"repairing"}),
                              "repaired_scanning")
    <3>1. Advances(worker[w].job, "repaired_testing", {"repairing"}, "repaired_scanning")
      BY <2>2, JobOfStep DEF InSession
    <3> QED BY <2>2, <3>1, StagedKeepSerial
  <2>3. CASE /\ InSession(w, "repaired_scanning")
             /\ CommitStep(w, Staged(w, "repaired_scanning", {"repaired_testing"}),
                           "repaired_bandit")
    <3>1. Advances(worker[w].job, "repaired_scanning", {"repaired_testing"}, "repaired_bandit")
      BY <2>3, JobOfStep DEF InSession
    <3> QED BY <2>3, <3>1, StagedStepSerial
  <2> QED BY <1>6, <2>1, <2>2, <2>3 DEF RepairedStages
<1>7. CASE RepairedScan(w)
  <2>1. /\ At(w, "repaired_bandit") =>
              \A q \in {"repaired_semgrep"} : Along(worker[w].job, "repaired_bandit", q)
        /\ At(w, "repaired_semgrep") =>
              \A q \in {"record"} : Along(worker[w].job, "repaired_semgrep", q)
    BY JobOfStep DEF At
  <2>2. "none" \notin {"repaired_scan_incomplete"} \cup Exceptions(w)
    OBVIOUS
  <2> QED BY <1>7, <2>1, <2>2, ToolCallSerial DEF RepairedScan
<1>8. CASE RecordAttempt(w)
  <2>1. "completed" = OutcomeOf("record")
    BY DEF OutcomeOf
  <2>2. ASSUME InSession(w, "record")
        PROVE  LET new == Staged(w, "repaired_scanning", {"repaired_scanning"}) IN
               /\ new \in Snapshots
               /\ new.attempts = worker[w].seen.attempts
               /\ new.run.status = worker[w].seen.run.status
               /\ new.run.failure = worker[w].seen.run.failure
               /\ new.run.stage \in {worker[w].seen.run.stage} \cup PipelineStages
               /\ worker[w].seen.run.progress.done \subseteq new.run.progress.done
    BY <2>2, RecordedColumns DEF Typed
  <2> QED BY <1>8, <2>1, <2>2, RecordOutcomeSerial DEF RecordAttempt
<1>9. CASE Finish(w)
  BY <1>9, FinalSessionSerial DEF Finish
<1>10. CASE MarkAttemptFailed(w)
  <2>1. InSession(w, "mark_failed") => worker[w].seen \in Snapshots
    BY InSessionType DEF Typed
  <2>2. "failed" = OutcomeOf("mark_failed")
    BY DEF OutcomeOf
  <2> QED BY <1>10, <2>1, <2>2, RecordOutcomeSerial DEF MarkAttemptFailed
<1> QED BY <1>1, <1>2, <1>3, <1>4, <1>5, <1>6, <1>7, <1>8, <1>9, <1>10 DEF Repairs

\* Every step keeps the invariant of the serial regime.
LEMMA StepSerial ==
    ASSUME MaxOverlaps = 0, Typed, Serial, [Next]_vars PROVE Serial' /\ SerialStep
<1>1. CASE HandlerNext
  BY <1>1, HandlerSerial
<1>2. CASE \E w \in Workers : WorkerStep(w)
  <2>1. PICK w \in Workers : WorkerStep(w)
    BY <1>2
  <2>2. CASE FinallyCleanup(w)
    BY <2>2, FinallyCleanupSerial
  <2>3. CASE Baseline(w) \/ Repairs(w) \/ FailRun(w, "finally")
    BY <2>3, PipelineWorks, BaselineSerial, RepairsSerial, FailRunSerial, SerialLiterals
  <2> QED BY <2>1, <2>2, <2>3 DEF WorkerStep
<1>3. CASE Crash
  BY <1>3, CrashSerial
<1>4. CASE UNCHANGED vars
  BY <1>4, StutterSerial
<1> QED BY <1>1, <1>2, <1>3, <1>4 DEF Next

\* The invariant of the serial regime holds of every behaviour without
\* overlapping requests.
THEOREM SerialInvariant == ASSUME MaxOverlaps = 0 PROVE Spec => []Serial
<1>1. Init => Serial
  BY InitSerial
<1>2. Typed /\ Serial /\ [Next]_vars => Serial'
  BY StepSerial
<1> QED BY <1>1, <1>2, Invariant, PTL DEF Spec

\* At most one task works on a run.
THEOREM TasksExclude == ASSUME MaxOverlaps = 0 PROVE Spec => []OneTaskAtATime
<1>1. Serial => OneTaskAtATime
  BY DEF Serial
<1> QED BY <1>1, SerialInvariant, PTL

\* The rows implement the verdict protocol.
THEOREM VerdictImplemented == ASSUME MaxOverlaps = 0 PROVE Spec => ImplementsVerdict
<1>1. Init => Verdict!Init
  BY InitSerial
<1>2. Typed /\ Serial /\ [Next]_vars => [Verdict!Next]_<<run.status, Decided>>
  BY StepSerial DEF SerialStep, VerdictStep
<1> QED BY <1>1, <1>2, Invariant, SerialInvariant, PTL DEF Spec, ImplementsVerdict, Verdict!Spec

-----------------------------------------------------------------------------
(* What a cancelled run can still cost.                                     *)

\* Every step of execute_custom_baseline pays for itself.
LEMMA BaselineSpends ==
    ASSUME Typed, Serial, NEW w \in Workers, Working(w), Baseline(w)
    PROVE  Spends(w)
<1>0. Tasks /\ overrun \in Nat
  BY DEF Typed, Others
<1> USE <1>0 DEF Spends, Left, Lands, At, InSession, RunCancelled
<1>1. CASE BaselineAdmit(w)
  <2>1. worker[w].pc = "admit" /\ overrun' = overrun
    BY <1>1 DEF BaselineAdmit, AdmitBaseline
  <2>2. run.status = "cancelled" => Lands(w, {"finally"})
    BY <1>1, GotoLands DEF BaselineAdmit, AdmitBaseline
  <2>3. Alone(w)
    BY <1>1, GotoLands DEF BaselineAdmit, AdmitBaseline
  <2> QED BY <2>1, <2>2, <2>3
<1>2. CASE Generate(w)
  BY <1>2, ToolLands DEF Generate
<1>3. CASE WriteProgram(w)
  BY <1>3, FillLands DEF WriteProgram
<1>4. CASE BaselineSmoke(w)
  BY <1>4, ToolLands DEF BaselineSmoke
<1>5. CASE BaselineScanning(w)
  BY <1>5, StageLands DEF BaselineScanning
<1>6. CASE BaselineScan(w)
  BY <1>6, ToolLands DEF BaselineScan
<1>7. CASE BaselineClean(w)
  <2>1. CASE OpenSession(w, "clean", ~RunCancelled, "finally")
    <3>1. /\ At(w, "clean") /\ Alone(w) /\ UNCHANGED overrun
          /\ worker'[w].pc = "clean" \/ Lands(w, {"finally"})
      BY <2>1, OpenLands
    <3> QED BY <3>1
  <2> QED BY <1>7, <2>1, SaveLands DEF BaselineClean
<1>8. CASE BaselineAwaiting(w)
  BY <1>8, StageLands DEF BaselineAwaiting
<1> QED BY <1>1, <1>2, <1>3, <1>4, <1>5, <1>6, <1>7, <1>8 DEF Baseline

\* Every step of execute_custom_repairs pays for itself.
LEMMA RepairsSpends ==
    ASSUME Typed, Serial, NEW w \in Workers, Working(w), Repairs(w)
    PROVE  Spends(w)
<1>0. Tasks /\ overrun \in Nat
  BY DEF Typed, Others
<1> USE <1>0 DEF Spends, Left, Lands, At, InSession, RunCancelled
<1>1. CASE AdmitRepairs(w) \/ NextAttempt(w) \/ Finish(w)
  BY <1>1, AdmitRepairsLands, NextAttemptLands, FinalLands DEF Finish
<1>2. CASE Repairing(w)
  BY <1>2, StageLands DEF Repairing
<1>3. CASE Repair(w)
  BY <1>3, ToolLands DEF Repair
<1>4. CASE MarkAttemptFailed(w) \/ RecordAttempt(w)
  <2>1. /\ worker[w].pc \in {"record", "mark_failed"} /\ UNCHANGED overrun /\ Alone(w)
        /\ worker'[w].pc \in {"record", "mark_failed", "finally", "fail", "next"}
    BY <1>4, RecordLands DEF MarkAttemptFailed, RecordAttempt
  <2> QED BY <2>1
<1>5. CASE RepairedSmoke(w)
  BY <1>5, ToolLands DEF RepairedSmoke
<1>6. CASE RepairedStages(w)
  <2>1. CASE OpenSession(w, "repaired_testing", ~RunCancelled, "finally")
    <3>1. /\ At(w, "repaired_testing") /\ Alone(w) /\ UNCHANGED overrun
          /\ run.status # "cancelled" \/ Lands(w, {"finally"})
      BY <2>1, OpenLands
    <3> QED BY <3>1
  <2>2. CASE /\ InSession(w, "repaired_testing")
             /\ CommitAndKeep(w, Staged(w, "repaired_testing", {"repairing"}),
                              "repaired_scanning")
    BY <2>2, KeepLands
  <2>3. CASE /\ InSession(w, "repaired_scanning")
             /\ CommitStep(w, Staged(w, "repaired_scanning", {"repaired_testing"}),
                           "repaired_bandit")
    BY <2>3, CommitLands
  <2> QED BY <1>6, <2>1, <2>2, <2>3 DEF RepairedStages
<1>7. CASE RepairedScan(w)
  BY <1>7, ToolLands DEF RepairedScan
<1> QED BY <1>1, <1>2, <1>3, <1>4, <1>5, <1>6, <1>7 DEF Repairs

\* No step makes the task of a cancelled run costlier than it was.
LEMMA CostStep ==
    ASSUME MaxOverlaps = 0, Typed, Serial, Cost, [Next]_vars PROVE Cost'
<1>1. SerialStep /\ overrun' \in Nat
  BY StepSerial, StepTyped DEF Typed, Others
<1>2. ASSUME NEW w \in Workers, Baseline(w) \/ Repairs(w) \/ FailRun(w, "finally")
      PROVE  Cost'
  <2>1. Working(w)
    BY <1>2, PipelineWorks
  <2>2. Spends(w)
    <3>1. CASE FailRun(w, "finally")
      <4>1. Alone(w) /\ Left(worker'[w]) = 0 /\ UNCHANGED overrun
        BY <3>1, FailRunLands DEF Typed, Left
      <4>2. overrun \in Nat /\ Left(worker[w]) \in 0..2
        BY DEF Typed, Others, Left
      <4> QED BY <4>1, <4>2 DEF Spends
    <3> QED BY <1>2, <2>1, <3>1, BaselineSpends, RepairsSpends
  <2> QED BY <1>1, <2>1, <2>2, TaskCosts
<1> QED BY <1>1, <1>2, RequestCosts, RestCosts DEF Next, WorkerStep

\* A cancelled run costs at most two calls of a tool or the model.
THEOREM CancelledRunsStop == ASSUME MaxOverlaps = 0 PROVE Spec => []CancelStopsWork
<1>1. Init => Cost
  BY CostInit
<1>2. Typed /\ Serial /\ Cost /\ [Next]_vars => Cost'
  BY CostStep
<1>3. Cost => CancelStopsWork
  BY DEF Cost, CancelStopsWork
<1> QED BY <1>1, <1>2, <1>3, Invariant, SerialInvariant, PTL DEF Spec

=============================================================================
