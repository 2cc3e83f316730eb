----------------------------- MODULE RunProofs ------------------------------
(***************************************************************************)
(* What the endpoints and the helpers of the runners preserve.  The three  *)
(* modes are composed of these helpers; each has its own module of proofs, *)
(* which cites the lemmas here once per action.                            *)
(*                                                                         *)
(* Typed, StatusStep and Reclaimed hold however requests overlap.  Serial  *)
(* holds while one request is served at a time (MaxOverlaps = 0): there the*)
(* handler, the two tasks, the stage and the rows determine each other, and*)
(* the properties that only this regime has follow from it.                *)
(***************************************************************************)
EXTENDS RunSafety, TLAPS

-----------------------------------------------------------------------------
(* The inductive invariant.                                                 *)

\* A task is at these steps only with an attempt in hand.
AttemptSteps == {"repairing", "copy", "repair", "write"}

\* What a task must have to be at step p.
MayEnter(w, p) ==
    /\ p = "generate" => worker[w].job = "baseline"
    /\ p \in AttemptSteps /\ worker[w].job # "baseline" => worker[w].at \in Attempts
Ready(w) == MayEnter(w, worker[w].pc)

\* A request between its read and its commit holds what it read.
Holding(h) == handler[h].pc \in {"start", "configure", "cancel"}
                => handler[h].seen \in Snapshots

Rows == run \in RunRow /\ attempts \in AttemptRows /\ report \in ReportRow \cup {Nothing}
Tasks == worker \in [Workers -> WorkerStates] /\ \A w \in Workers : Ready(w)
Requests == handler \in [Handlers -> HandlerStates] /\ \A h \in Handlers : Holding(h)
Others == /\ workdir \in SUBSET (Attempts \cup {BaselineDir})
          /\ issued \in 0..MaxBatches
          /\ overrun \in Nat
          /\ overlaps \in 0..MaxOverlaps
          /\ crashes \in 0..MaxCrashes
Typed == Rows /\ Tasks /\ Requests /\ Others

\* How any step may move the status of a run and its report.
StatusStep ==
    /\ \/ run'.status \in {run.status, "running", "failed", "cancelled"}
       \/ run'.status = "completed" /\ report' # Nothing
    /\ report' = report \/ report' # Nothing

\* The invariant is the type invariant and a little more.
LEMMA TypedImpliesTypeOK == Typed => TypeOK
BY DEF Typed, Rows, Tasks, Requests, Others, TypeOK

-----------------------------------------------------------------------------
(* Data.                                                                    *)

\* The set of attempt ids is not empty in its second component.
LEMMA FirstAttempt == \A b \in 1..MaxBatches : <<b, 1>> \in Attempts
BY StoreAssumption DEF Attempts

\* A batch handed out names attempts.
LEMMA BatchType == \A b \in 0..MaxBatches, n \in 0..MaxStrategies : Batch(b, n) \subseteq Attempts
BY StoreAssumption DEF Batch, Attempts

\* RowsOf makes rows.
LEMMA RowsOfType ==
    \A batch \in SUBSET Attempts : \A s \in JobStatus \cup {"absent"} :
        RowsOf(batch, s) \in AttemptRows
BY DEF RowsOf, AttemptRows

\* A snapshot of typed rows is a snapshot.
LEMMA SnapshotType == ASSUME Rows PROVE Snapshot \in Snapshots
BY DEF Rows, Snapshot, Snapshots

\* A commit of well-typed rows leaves well-typed rows, and moves the status
\* only to a value the session itself wrote.
LEMMA CommitEffect ==
    ASSUME Rows, NEW seen \in Snapshots, NEW new \in Snapshots, Commit(seen, new)
    PROVE  /\ run' \in RunRow
           /\ attempts' \in AttemptRows
           /\ run'.status \in {run.status, new.run.status}
           /\ new.run.status = seen.run.status => run'.status = run.status
<1>1. seen.run \in RunRow /\ new.run \in RunRow /\ run \in RunRow
  BY DEF Snapshots, Rows
<1>2. run' \in RunRow
  BY <1>1 DEF Commit, FlushRun, Merge, RunRow
<1>3. seen.attempts \in AttemptRows /\ new.attempts \in AttemptRows /\ attempts \in AttemptRows
  BY DEF Snapshots, Rows
<1>4. attempts' \in AttemptRows
  BY <1>3 DEF Commit, FlushAttempts, Merge, AttemptRows
<1>5. run'.status = IF new.run.status = seen.run.status THEN run.status ELSE new.run.status
  BY DEF Commit, FlushRun, Merge
<1> QED BY <1>2, <1>4, <1>5

\* set_stage writes a row, and not its status.
LEMMA SetStageType ==
    ASSUME NEW row \in RunRow, NEW stage \in Stages, NEW finished \in SUBSET PipelineStages
    PROVE  /\ SetStage(row, stage, finished) \in RunRow
           /\ SetStage(row, stage, finished).status = row.status
BY DEF SetStage, RunRow, Progress

\* The rows a stage session commits.
LEMMA StagedType ==
    ASSUME NEW w \in Workers, worker[w].seen \in Snapshots,
           NEW stage \in Stages, NEW finished \in SUBSET PipelineStages
    PROVE  /\ Staged(w, stage, finished) \in Snapshots
           /\ Staged(w, stage, finished).run.status = worker[w].seen.run.status
BY SetStageType DEF Staged, Snapshots

\* The rows the end of a baseline commits.
LEMMA AwaitStrategyType ==
    ASSUME NEW w \in Workers, worker[w].seen \in Snapshots
    PROVE  /\ AwaitStrategy(w) \in Snapshots
           /\ AwaitStrategy(w).run.status = worker[w].seen.run.status
<1> DEFINE seen == worker[w].seen
           row == SetStage(seen.run, "awaiting_strategy", {"baseline_scanning"})
<1>1. row \in RunRow /\ row.status = seen.run.status
  BY SetStageType DEF Snapshots, Stages, PipelineStages
<1> HIDE DEF row
<1>2. /\ [row EXCEPT !.progress.evidence = TRUE, !.progress.current = Nothing] \in RunRow
      /\ [row EXCEPT !.progress.evidence = TRUE, !.progress.current = Nothing].status = row.status
  BY <1>1 DEF RunRow, Progress
<1>3. RowsOf(Present(seen.attempts), "queued") \in AttemptRows
  BY RowsOfType DEF Present, JobStatus
<1> QED BY <1>1, <1>2, <1>3 DEF AwaitStrategy, Snapshots, row

\* The rows the start of an attempt commits.
LEMMA RepairingStageType ==
    ASSUME NEW w \in Workers, worker[w].seen \in Snapshots,
           worker[w].at \in Attempts \cup {Nothing}
    PROVE  /\ RepairingStage(w) \in Snapshots
           /\ RepairingStage(w).run.status = worker[w].seen.run.status
<1>1. Staged(w, "repairing", {}) \in Snapshots
  /\ Staged(w, "repairing", {}).run.status = worker[w].seen.run.status
  BY StagedType DEF Stages, PipelineStages
<1> QED BY <1>1 DEF RepairingStage, Snapshots, RunRow, Progress

\* The rows fail_run commits.
LEMMA FailedRunType ==
    ASSUME NEW seen \in Snapshots, NEW code \in FailureCodes
    PROVE  /\ FailedRun(seen, code) \in Snapshots
           /\ FailedRun(seen, code).run.status = "failed"
<1>1. [seen.run EXCEPT !.status = "failed", !.stage = "failed", !.failure = code] \in RunRow
  BY DEF Snapshots, RunRow, JobStatus, Stages, Terminal
<1>2. FailedRun(seen, code).attempts \in AttemptRows
  BY DEF FailedRun, Snapshots, AttemptRows, JobStatus
<1> QED BY <1>1, <1>2 DEF FailedRun, Snapshots, RunRow

\* The rows start_run, configure_strategies and cancel_run commit.
LEMMA StartedType ==
    ASSUME NEW seen \in Snapshots
    PROVE  Started(seen) \in Snapshots /\ Started(seen).run.status = "running"
<1>1. Started(seen).run \in RunRow
  BY DEF Started, Snapshots, RunRow, Progress, JobStatus, Stages, PipelineStages
<1>2. Started(seen).attempts \in AttemptRows
  BY RowsOfType DEF Started, Present, JobStatus
<1> QED BY <1>1, <1>2 DEF Started, Snapshots, RunRow

\* configure_strategies writes rows, and leaves the status to others.
LEMMA ConfiguredType ==
    ASSUME NEW seen \in Snapshots, NEW b \in 1..MaxBatches, NEW n \in 0..MaxStrategies
    PROVE  /\ Configured(seen, b, n) \in Snapshots
           /\ Configured(seen, b, n).run.status = seen.run.status
<1>1. Batch(b, n) \subseteq Attempts /\ <<b, 1>> \in Attempts
  BY BatchType, FirstAttempt, StoreAssumption
<1>2. Configured(seen, b, n).run \in RunRow
  BY <1>1 DEF Configured, Snapshots, RunRow, Progress, Stages, PipelineStages
<1>3. Configured(seen, b, n).attempts \in AttemptRows
  BY <1>1, RowsOfType DEF Configured, JobStatus
<1> QED BY <1>2, <1>3 DEF Configured, Snapshots, RunRow

\* cancel_run writes rows of a cancelled run.
LEMMA CancelledType ==
    ASSUME NEW seen \in Snapshots
    PROVE  Cancelled(seen) \in Snapshots /\ Cancelled(seen).run.status = "cancelled"
<1>1. Cancelled(seen).run \in RunRow
  BY DEF Cancelled, Snapshots, RunRow, JobStatus, Stages, Terminal
<1>2. Cancelled(seen).attempts \in AttemptRows
  BY DEF Cancelled, Snapshots, AttemptRows, JobStatus
<1> QED BY <1>1, <1>2 DEF Cancelled, Snapshots, RunRow

-----------------------------------------------------------------------------
(* Threads.                                                                 *)

\* A slot without a task satisfies the invariant.
LEMMA IdleType == IdleWorker \in WorkerStates /\ IdleHandler \in HandlerStates
BY StoreAssumption DEF IdleWorker, IdleHandler, WorkerStates, HandlerStates, WorkerSteps,
   FailureCodes, Results

\* A task goes to a step it may enter.
LEMMA GotoType ==
    ASSUME Tasks, NEW w \in Workers, NEW p \in WorkerSteps, MayEnter(w, p), Goto(w, p)
    PROVE  Tasks'
<1>1. CASE p = "idle"
  BY <1>1, IdleType DEF Goto, Tasks, Ready, MayEnter, AttemptSteps, IdleWorker
<1>2. CASE p # "idle"
  <2>1. worker' = [worker EXCEPT ![w] = [@ EXCEPT !.pc = p, !.seen = Nothing]]
    BY <1>2 DEF Goto
  <2>2. worker[w] \in WorkerStates
    BY DEF Tasks
  <2>3. [worker[w] EXCEPT !.pc = p, !.seen = Nothing] \in WorkerStates
    BY <2>2 DEF WorkerStates
  <2>4. worker' \in [Workers -> WorkerStates]
    BY <2>1, <2>3 DEF Tasks
  <2>5. ASSUME NEW v \in Workers PROVE Ready(v)'
    BY <2>1, <2>2 DEF Tasks, Ready, MayEnter, WorkerStates
  <2> QED BY <2>4, <2>5 DEF Tasks
<1> QED BY <1>1, <1>2

\* A failing task needs nothing in hand.
LEMMA FailWithType ==
    ASSUME Tasks, NEW w \in Workers, NEW c \in FailureCodes, FailWith(w, c)
    PROVE  Tasks'
<1>1. worker' = [worker EXCEPT ![w] = [worker[w] EXCEPT !.pc = "fail", !.seen = Nothing, !.code = c]]
  BY DEF FailWith, Tasks
<1>2. worker[w] \in WorkerStates
  BY DEF Tasks
<1>3. [worker[w] EXCEPT !.pc = "fail", !.seen = Nothing, !.code = c] \in WorkerStates
  BY <1>2 DEF WorkerStates, WorkerSteps
<1>4. worker' \in [Workers -> WorkerStates]
  BY <1>1, <1>3 DEF Tasks
<1>5. ASSUME NEW v \in Workers PROVE Ready(v)'
  BY <1>1, <1>2 DEF Tasks, Ready, MayEnter, WorkerStates, AttemptSteps
<1> QED BY <1>4, <1>5 DEF Tasks

\* The outermost handler of a runner has a failure code.
LEMMA ExceptionCodeType == \A w : ExceptionCode(w) \in FailureCodes
BY DEF ExceptionCode, FailureCodes

\* An exception leaves a well-typed task.
LEMMA RaiseType == ASSUME Tasks, NEW w \in Workers, Raise(w) PROVE Tasks'
BY FailWithType, ExceptionCodeType DEF Raise

\* A session that opens keeps the task where it is.
LEMMA SeeType ==
    ASSUME Tasks, NEW w \in Workers, NEW seen \in Snapshots,
           worker' = [worker EXCEPT ![w].seen = seen]
    PROVE  Tasks'
<1>1. worker[w] \in WorkerStates
  BY DEF Tasks
<1>2. [worker[w] EXCEPT !.seen = seen] \in WorkerStates
  BY <1>1 DEF WorkerStates
<1>3. worker' \in [Workers -> WorkerStates]
  BY <1>2 DEF Tasks
<1>4. ASSUME NEW v \in Workers PROVE Ready(v)'
  BY <1>1 DEF Tasks, Ready, MayEnter, WorkerStates
<1> QED BY <1>3, <1>4 DEF Tasks

\* A task is scheduled in a free slot.
LEMMA SpawnType ==
    ASSUME Tasks, NEW w \in Workers, NEW job \in {"baseline", "repairs"}, Spawn(w, job)
    PROVE  Tasks'
<1>1. [IdleWorker EXCEPT !.pc = "admit", !.job = job] \in WorkerStates
  BY IdleType DEF WorkerStates, WorkerSteps
<1>2. worker' \in [Workers -> WorkerStates]
  BY <1>1 DEF Spawn, Tasks
<1>3. ASSUME NEW v \in Workers PROVE Ready(v)'
  BY DEF Tasks, Spawn, Ready, MayEnter, AttemptSteps, IdleWorker
<1> QED BY <1>2, <1>3 DEF Tasks

\* In a session, what was seen is a snapshot.
LEMMA InSessionType ==
    ASSUME Tasks, NEW w \in Workers, NEW pc, InSession(w, pc)
    PROVE  worker[w].seen \in Snapshots /\ worker[w].pc = pc
BY DEF Tasks, InSession, WorkerStates

-----------------------------------------------------------------------------
(* The endpoints.                                                           *)

\* The initial state satisfies the invariant.
LEMMA InitTyped == Init => Typed
<1> SUFFICES ASSUME Init PROVE Typed
  OBVIOUS
<1>1. PICK n \in 1..MaxStrategies : run = Created(n) /\ attempts = RowsOf(Batch(0, n), "queued")
  BY DEF Init
<1>2. Batch(0, n) \subseteq Attempts
  BY BatchType, StoreAssumption
<1>3. run \in RunRow
  BY <1>1, <1>2 DEF Created, RunRow, Progress, JobStatus, Stages, FailureCodes
<1>4. attempts \in AttemptRows
  BY <1>1, <1>2, RowsOfType DEF JobStatus
<1>5. Rows
  BY <1>3, <1>4 DEF Rows, Init
<1>6. Tasks
  BY IdleType DEF Init, Tasks, Ready, MayEnter, AttemptSteps, IdleWorker
<1>7. Requests
  BY IdleType DEF Init, Requests, Holding, IdleHandler
<1>8. Others
  BY StoreAssumption DEF Init, Others
<1> QED BY <1>5, <1>6, <1>7, <1>8 DEF Typed

\* Steps that change one part of the state and leave the invariant's other
\* parts, the status and the report alone.
LEMMA RowsUnchanged == ASSUME Rows, UNCHANGED rows PROVE Rows' /\ StatusStep
BY DEF Rows, rows, StatusStep
\* Tasks only change through worker.
LEMMA TasksUnchanged == ASSUME Tasks, UNCHANGED worker PROVE Tasks'
BY DEF Tasks, Ready, MayEnter
\* Requests only change through handler.
LEMMA RequestsUnchanged == ASSUME Requests, UNCHANGED handler PROVE Requests'
BY DEF Requests, Holding
\* The rest only changes through its own variables.
LEMMA OthersUnchanged ==
    ASSUME Others, UNCHANGED <<workdir, issued, overrun, bounds>> PROVE Others'
BY DEF Others, bounds

\* A session's commit, seen from the rows: the status moves as StatusStep says.
LEMMA CommitTyped ==
    ASSUME Rows, NEW seen \in Snapshots, NEW new \in Snapshots, Commit(seen, new),
           UNCHANGED report,
           new.run.status \in {seen.run.status, "running", "failed", "cancelled"}
    PROVE  Rows' /\ StatusStep
<1>1. /\ run' \in RunRow
      /\ attempts' \in AttemptRows
      /\ run'.status \in {run.status, new.run.status}
      /\ new.run.status = seen.run.status => run'.status = run.status
  BY CommitEffect
<1> QED BY <1>1 DEF Rows, StatusStep

\* A request that has answered holds nothing.
LEMMA AnswerType == ASSUME Requests, NEW h \in Handlers, Answer(h) PROVE Requests'
BY IdleType DEF Requests, Answer, Holding, IdleHandler

\* A request that arrives holds what it read.
LEMMA ReceiveTyped ==
    ASSUME Typed, NEW h \in Handlers,
           NEW pc \in {"start", "configure", "cancel", "cleanup"},
           NEW count \in 0..MaxStrategies, Receive(h, pc, count)
    PROVE  Typed' /\ StatusStep
<1>1. Snapshot \in Snapshots
  BY SnapshotType DEF Typed
<1>2. handler' = [handler EXCEPT ![h] = [pc |-> pc, seen |-> Snapshot, count |-> count]]
  BY DEF Receive
<1>3. [pc |-> pc, seen |-> Snapshot, count |-> count] \in HandlerStates
  BY <1>1 DEF HandlerStates
<1> HIDE DEF HandlerStates
<1>4. Requests'
  BY <1>1, <1>2, <1>3 DEF Typed, Requests, Holding
<1>5. Others'
  BY StoreAssumption DEF Receive, Typed, Others
<1>6. Rows' /\ StatusStep
  BY RowsUnchanged DEF Receive, Typed
<1>7. Tasks'
  BY TasksUnchanged DEF Receive, Typed
<1> QED BY <1>4, <1>5, <1>6, <1>7 DEF Typed

\* Every step of a request keeps the invariant and moves the status lawfully.
LEMMA HandlerTyped == ASSUME Typed, HandlerNext PROVE Typed' /\ StatusStep
<1> USE DEF Typed
<1>1. PICK h \in Handlers : StartRead(h) \/ ConfigureRead(h) \/ CancelRead(h) \/ HandlerStep(h)
  BY DEF HandlerNext
<1>2. CASE StartRead(h)
  BY <1>2, ReceiveTyped, StoreAssumption DEF StartRead
<1>3. CASE ConfigureRead(h)
  <2>1. PICK n \in 1..MaxStrategies : Receive(h, "configure", n)
    BY <1>3 DEF ConfigureRead
  <2> QED BY <2>1, ReceiveTyped, StoreAssumption
<1>4. CASE CancelRead(h)
  BY <1>4, ReceiveTyped, StoreAssumption DEF CancelRead
<1>5. CASE StartCommit(h)
  <2>1. handler[h].seen \in Snapshots
    BY <1>5 DEF StartCommit, Requests, Holding
  <2>2. Started(handler[h].seen) \in Snapshots /\ Started(handler[h].seen).run.status = "running"
    BY <2>1, StartedType
  <2>3. Requests' /\ Others'
    BY <1>5, AnswerType, OthersUnchanged DEF StartCommit
  <2>4. CASE UNCHANGED <<rows, worker>>
    BY <2>3, <2>4, RowsUnchanged, TasksUnchanged
  <2>5. CASE /\ Commit(handler[h].seen, Started(handler[h].seen))
             /\ UNCHANGED report
             /\ \E w \in Workers : Spawn(w, "baseline")
    <3>1. Tasks'
      BY <2>5, SpawnType
    <3>2. Rows' /\ StatusStep
      BY <2>1, <2>2, <2>5, CommitTyped
    <3> QED BY <2>3, <3>1, <3>2
  <2> QED BY <1>5, <2>4, <2>5 DEF StartCommit
<1>6. CASE ConfigureCommit(h)
  <2>1. handler[h].seen \in Snapshots /\ handler[h].count \in 0..MaxStrategies
    BY <1>6 DEF ConfigureCommit, Requests, Holding, HandlerStates
  <2>2. issued + 1 \in 1..MaxBatches /\ issued' = issued + 1
    BY <1>6, StoreAssumption DEF ConfigureCommit, Others
  <2> DEFINE new == Configured(handler[h].seen, issued + 1, handler[h].count)
  <2>3. new \in Snapshots /\ new.run.status = handler[h].seen.run.status
    BY <2>1, <2>2, ConfiguredType
  <2>4. Commit(handler[h].seen, new) /\ UNCHANGED report
    BY <1>6 DEF ConfigureCommit
  <2> HIDE DEF new
  <2>5. Rows' /\ StatusStep
    BY <2>1, <2>3, <2>4, CommitTyped
  <2>6. Tasks'
    BY <1>6, SpawnType DEF ConfigureCommit
  <2>7. Requests'
    BY <1>6, AnswerType DEF ConfigureCommit
  <2>8. Others'
    BY <1>6, <2>2, StoreAssumption DEF ConfigureCommit, Others, bounds
  <2> QED BY <2>5, <2>6, <2>7, <2>8
<1>7. CASE CancelCommit(h)
  <2>1. handler[h].seen \in Snapshots
    BY <1>7 DEF CancelCommit, Requests, Holding
  <2>2. /\ Cancelled(handler[h].seen) \in Snapshots
        /\ Cancelled(handler[h].seen).run.status = "cancelled"
    BY <2>1, CancelledType
  <2>3. Tasks' /\ Others'
    BY <1>7, TasksUnchanged, OthersUnchanged DEF CancelCommit
  <2>4. CASE Answer(h) /\ UNCHANGED rows
    BY <2>3, <2>4, AnswerType, RowsUnchanged
  <2>5. CASE /\ Commit(handler[h].seen, Cancelled(handler[h].seen))
             /\ UNCHANGED report
             /\ handler' = [handler EXCEPT ![h] = [IdleHandler EXCEPT !.pc = "cleanup"]]
    <3>1. Rows' /\ StatusStep
      BY <2>1, <2>2, <2>5, CommitTyped
    <3>2. [IdleHandler EXCEPT !.pc = "cleanup"] \in HandlerStates
      BY IdleType DEF HandlerStates
    <3>3. Requests'
      BY <2>5, <3>2 DEF Requests, Holding, IdleHandler
    <3> QED BY <2>3, <3>1, <3>3
  <2> QED BY <1>7, <2>4, <2>5 DEF CancelCommit
<1>8. CASE CancelCleanup(h)
  <2>1. Rows' /\ StatusStep /\ Tasks' /\ Requests'
    BY <1>8, RowsUnchanged, TasksUnchanged, AnswerType DEF CancelCleanup
  <2>2. Others'
    BY <1>8 DEF CancelCleanup, CleanupRun, Others, bounds
  <2> QED BY <2>1, <2>2
<1> QED BY <1>1, <1>2, <1>3, <1>4, <1>5, <1>6, <1>7, <1>8 DEF HandlerStep

\* A restart keeps the invariant.
LEMMA CrashTyped == ASSUME Typed, Crash PROVE Typed' /\ StatusStep
<1>1. Tasks' /\ Requests'
  BY IdleType DEF Typed, Crash, Tasks, Requests, Ready, MayEnter, AttemptSteps, Holding,
     IdleWorker, IdleHandler
<1>2. Rows' /\ StatusStep
  BY RowsUnchanged DEF Crash, Typed
<1>3. Others'
  BY StoreAssumption DEF Crash, Typed, Others
<1> QED BY <1>1, <1>2, <1>3 DEF Typed

\* So does a step in which nothing happens.
LEMMA StutterTyped == ASSUME Typed, UNCHANGED vars PROVE Typed' /\ StatusStep
BY RowsUnchanged, TasksUnchanged, RequestsUnchanged, OthersUnchanged DEF Typed, vars

-----------------------------------------------------------------------------
(* The helpers of the runners.                                              *)

\* Steps a task may enter with nothing in hand.
FreeSteps == WorkerSteps \ (AttemptSteps \cup {"generate"})
\* A task may enter a free step whatever it has in hand.
LEMMA FreeStep == \A w \in Workers, p \in FreeSteps : p \in WorkerSteps /\ MayEnter(w, p)
BY DEF FreeSteps, MayEnter

\* The parts of the invariant a task's step leaves alone.
LEMMA Frame ==
    ASSUME Typed
    PROVE  /\ UNCHANGED rows => Rows' /\ StatusStep
           /\ UNCHANGED handler => Requests'
           /\ UNCHANGED <<workdir, issued, overrun, bounds>> => Others'
BY RowsUnchanged, RequestsUnchanged, OthersUnchanged DEF Typed

\* A task that moves and changes nothing else.
LEMMA MoveTyped ==
    ASSUME Typed, Tasks', UNCHANGED <<rows, workdir, issued, handler, overrun, bounds>>
    PROVE  Typed' /\ StatusStep
BY Frame DEF Typed

\* A task that commits and moves.
LEMMA CommitAndMoveTyped ==
    ASSUME Typed, Tasks', NEW seen \in Snapshots, NEW new \in Snapshots,
           Commit(seen, new),
           new.run.status \in {seen.run.status, "running", "failed", "cancelled"},
           UNCHANGED <<report, workdir, issued, handler, overrun, bounds>>
    PROVE  Typed' /\ StatusStep
BY CommitTyped, Frame DEF Typed

\* Opening a session writes nothing and leaves the task with a snapshot.
LEMMA OpenSessionTyped ==
    ASSUME Typed, NEW w \in Workers, NEW pc, NEW ok, NEW exit \in FreeSteps,
           OpenSession(w, pc, ok, exit)
    PROVE  Typed' /\ StatusStep
<1>1. CASE ok
  BY <1>1, SeeType, SnapshotType, MoveTyped DEF OpenSession, Typed
<1>2. CASE ~ok
  BY <1>2, FreeStep, GotoType, MoveTyped DEF OpenSession, Typed
<1> QED BY <1>1, <1>2 DEF OpenSession

\* A commit of rows with the status it read keeps the invariant.
LEMMA CommitStepTyped ==
    ASSUME Typed, NEW w \in Workers, NEW new \in Snapshots, NEW next \in WorkerSteps,
           MayEnter(w, next), worker[w].seen \in Snapshots,
           new.run.status = worker[w].seen.run.status, CommitStep(w, new, next)
    PROVE  Typed' /\ StatusStep
<1>1. CASE Raise(w) /\ UNCHANGED <<run, attempts>>
  <2>1. Tasks'
    BY <1>1, RaiseType DEF Typed
  <2> QED BY <1>1, <2>1, MoveTyped DEF CommitStep, rows
<1>2. CASE Commit(worker[w].seen, new) /\ Goto(w, next)
  <2>1. Tasks'
    BY <1>2, GotoType DEF Typed
  <2> QED BY <1>2, <2>1, CommitAndMoveTyped DEF CommitStep
<1> QED BY <1>1, <1>2 DEF CommitStep

\* So does a commit after which the session goes on.
LEMMA CommitAndKeepTyped ==
    ASSUME Typed, NEW w \in Workers, NEW new \in Snapshots, NEW next \in FreeSteps,
           worker[w].seen \in Snapshots,
           new.run.status = worker[w].seen.run.status, CommitAndKeep(w, new, next)
    PROVE  Typed' /\ StatusStep
<1>1. worker' = [worker EXCEPT ![w] = [worker[w] EXCEPT !.pc = next, !.seen = new]]
  BY DEF CommitAndKeep, Typed, Tasks
<1>2. worker[w] \in WorkerStates
  BY DEF Typed, Tasks
<1>3. [worker[w] EXCEPT !.pc = next, !.seen = new] \in WorkerStates
  BY <1>2 DEF WorkerStates, FreeSteps
<1>4. worker' \in [Workers -> WorkerStates]
  BY <1>1, <1>3 DEF Typed, Tasks
<1>5. ASSUME NEW v \in Workers PROVE Ready(v)'
  BY <1>1, <1>2 DEF Typed, Tasks, Ready, MayEnter, WorkerStates, FreeSteps
<1>6. Tasks'
  BY <1>4, <1>5 DEF Tasks
<1> QED BY <1>6, CommitAndMoveTyped DEF CommitAndKeep

\* A session that commits a stage keeps the invariant.
LEMMA StageSessionTyped ==
    ASSUME Typed, NEW w \in Workers, NEW pc \in WorkerSteps, NEW new,
           NEW next \in WorkerSteps, NEW exit \in FreeSteps,
           InSession(w, pc) =>
               /\ new \in Snapshots
               /\ new.run.status = worker[w].seen.run.status
               /\ MayEnter(w, next),
           StageSession(w, pc, new, next, exit)
    PROVE  Typed' /\ StatusStep
<1>1. CASE OpenSession(w, pc, ~RunCancelled, exit)
  BY <1>1, OpenSessionTyped
<1>2. CASE InSession(w, pc) /\ CommitStep(w, new, next)
  BY <1>2, InSessionType, CommitStepTyped DEF Typed
<1> QED BY <1>1, <1>2 DEF StageSession

\* A tool or model call keeps the invariant, whichever way it ends.
LEMMA ToolCallTyped ==
    ASSUME Typed, NEW w \in Workers, NEW pc, NEW next \in SUBSET WorkerSteps,
           NEW codes \in SUBSET FailureCodes,
           At(w, pc) => \A p \in next : MayEnter(w, p),
           ToolCall(w, pc, next, codes)
    PROVE  Typed' /\ StatusStep
<1>1. Tasks'
  BY GotoType, FailWithType DEF ToolCall, Typed
<1>2. Rows' /\ StatusStep /\ Requests'
  BY Frame DEF ToolCall
<1>3. Others'
  BY DEF ToolCall, Typed, Others, bounds
<1> QED BY <1>1, <1>2, <1>3 DEF Typed

\* A copy keeps the invariant, half done or done.
LEMMA FillDirectoryTyped ==
    ASSUME Typed, NEW w \in Workers, NEW pc, NEW dir \in Attempts \cup {BaselineDir},
           NEW source, NEW next \in SUBSET WorkerSteps, NEW codes \in SUBSET FailureCodes,
           At(w, pc) => \A p \in next : MayEnter(w, p),
           FillDirectory(w, pc, dir, source, next, codes)
    PROVE  Typed' /\ StatusStep
<1>1. Tasks'
  BY GotoType, FailWithType DEF FillDirectory, Typed
<1>2. Rows' /\ StatusStep /\ Requests'
  BY Frame DEF FillDirectory
<1>3. Others'
  BY DEF FillDirectory, Typed, Others, bounds
<1> QED BY <1>1, <1>2, <1>3 DEF Typed

\* fail_run keeps the invariant and moves the status to failed at most.
LEMMA FailRunTyped ==
    ASSUME Typed, NEW w \in Workers, NEW exit \in FreeSteps, FailRun(w, exit)
    PROVE  Typed' /\ StatusStep
<1>1. CASE OpenSession(w, "fail", ~RunCancelled, exit)
  BY <1>1, OpenSessionTyped
<1>2. CASE InSession(w, "fail")
  <2>1. worker[w].seen \in Snapshots /\ worker[w].code \in FailureCodes
    BY <1>2, InSessionType DEF Typed, Tasks, WorkerStates
  <2> DEFINE new == FailedRun(worker[w].seen, worker[w].code)
  <2>2. new \in Snapshots /\ new.run.status = "failed"
    BY <2>1, FailedRunType
  <2>3. ~OpenSession(w, "fail", ~RunCancelled, exit)
    BY <1>2 DEF OpenSession, InSession, At
  <2>4. \/ (Goto(w, exit) \/ Raise(w)) /\ UNCHANGED <<run, attempts>>
        \/ Commit(worker[w].seen, new) /\ Goto(w, exit)
    BY <2>3 DEF FailRun
  <2>5. UNCHANGED <<report, workdir, issued, handler, overrun, bounds>>
    BY <2>3 DEF FailRun
  <2>6. Tasks'
    BY <2>4, FreeStep, GotoType, RaiseType DEF Typed
  <2> HIDE DEF new
  <2>7. CASE UNCHANGED <<run, attempts>>
    BY <2>5, <2>6, <2>7, MoveTyped DEF rows
  <2>8. CASE Commit(worker[w].seen, new)
    BY <2>1, <2>2, <2>5, <2>6, <2>8, CommitAndMoveTyped
  <2> QED BY <2>4, <2>7, <2>8
<1> QED BY <1>1, <1>2 DEF FailRun

\* The finally of a runner keeps the invariant and writes no row.
LEMMA FinallyCleanupTyped ==
    ASSUME Typed, NEW w \in Workers, FinallyCleanup(w)
    PROVE  Typed' /\ StatusStep
<1>1. Tasks'
  BY FreeStep, GotoType DEF FinallyCleanup, Typed, FreeSteps, WorkerSteps, AttemptSteps
<1>2. Rows' /\ StatusStep /\ Requests'
  BY Frame DEF FinallyCleanup
<1>3. Others'
  BY DEF FinallyCleanup, CleanupRun, Typed, Others, bounds
<1> QED BY <1>1, <1>2, <1>3 DEF Typed

\* save_report is the only way to "completed", and it leaves a report.
LEMMA SaveReportTyped ==
    ASSUME Typed, NEW w \in Workers, NEW kept \in AttemptRows,
           NEW stagesDone \in SUBSET PipelineStages, NEW exit \in FreeSteps,
           worker[w].seen \in Snapshots, SaveReport(w, kept, stagesDone, exit)
    PROVE  Typed' /\ StatusStep
<1> DEFINE row == [worker[w].seen.run EXCEPT
              !.status = "completed", !.stage = "completed",
              !.progress = [listed |-> TRUE, done |-> stagesDone,
                            evidence |-> FALSE, current |-> Nothing]]
           new == [run |-> row, attempts |-> kept]
<1>1. row \in RunRow
  BY DEF Snapshots, RunRow, JobStatus, Stages, Terminal, Progress
<1>2. new \in Snapshots /\ new.run.status = "completed"
  BY <1>1 DEF Snapshots, RunRow
<1>3. UNCHANGED <<workdir, issued, handler, overrun, bounds>>
  BY DEF SaveReport
<1>4. Requests' /\ Others'
  BY <1>3, Frame
<1>5. CASE Raise(w) /\ UNCHANGED rows
  BY <1>4, <1>5, RaiseType, Frame DEF Typed
<1>6. CASE /\ Commit(worker[w].seen, new)
           /\ report' = [results |-> worker[w].results]
           /\ Goto(w, exit)
  <2>1. Tasks'
    BY <1>6, FreeStep, GotoType DEF Typed
  <2>2. report' \in ReportRow /\ report' # Nothing
    BY <1>6, StoreAssumption DEF Typed, Tasks, WorkerStates, ReportRow
  <2>3. run' \in RunRow /\ attempts' \in AttemptRows /\ run'.status \in {run.status, "completed"}
    BY <1>2, <1>6, CommitEffect DEF Typed
  <2> QED BY <1>4, <2>1, <2>2, <2>3 DEF Typed, Rows, StatusStep
<1> QED BY <1>5, <1>6 DEF SaveReport

\* The first session of a baseline keeps the invariant.
LEMMA AdmitBaselineTyped ==
    ASSUME Typed, NEW w \in Workers, NEW next \in WorkerSteps, NEW exit \in FreeSteps,
           AdmitBaseline(w, next, exit)
    PROVE  Typed' /\ StatusStep
<1>1. MayEnter(w, next)
  BY DEF AdmitBaseline, MayEnter
<1>2. Tasks'
  BY <1>1, FreeStep, GotoType DEF AdmitBaseline, Typed
<1> QED BY <1>2, MoveTyped DEF AdmitBaseline

\* A task whose record changes in other fields than its snapshot.
LEMMA TaskType ==
    ASSUME Tasks, NEW w \in Workers, NEW new \in WorkerStates,
           worker' = [worker EXCEPT ![w] = new],
           new.pc = "generate" => new.job = "baseline",
           new.pc \in AttemptSteps /\ new.job # "baseline" => new.at \in Attempts
    PROVE  Tasks'
<1>1. worker' \in [Workers -> WorkerStates]
  BY DEF Tasks
<1>2. ASSUME NEW v \in Workers PROVE Ready(v)'
  BY DEF Tasks, Ready, MayEnter
<1> QED BY <1>1, <1>2 DEF Tasks

\* The first session of the repairs keeps the invariant.
LEMMA AdmitRepairsTyped ==
    ASSUME Typed, NEW w \in Workers, AdmitRepairs(w)
    PROVE  Typed' /\ StatusStep
<1>1. Tasks'
  <2>1. worker[w] \in WorkerStates /\ Tasks
    BY DEF Typed, Tasks
  <2>2. CASE Goto(w, "finally") \/ Raise(w)
    BY <2>1, <2>2, FreeStep, GotoType, RaiseType DEF FreeSteps, WorkerSteps, AttemptSteps
  <2>3. CASE worker' = [worker EXCEPT ![w].pc = "next", ![w].todo = Present(attempts)]
    <3> DEFINE new == [worker[w] EXCEPT !.pc = "next", !.todo = Present(attempts)]
    <3>1. worker' = [worker EXCEPT ![w] = new]
      BY <2>1, <2>3 DEF Tasks
    <3>2. new \in WorkerStates /\ new.pc = "next"
      BY <2>1 DEF WorkerStates, WorkerSteps, Present
    <3> HIDE DEF new
    <3> QED BY <2>1, <3>1, <3>2, TaskType DEF AttemptSteps
  <2> QED BY <2>2, <2>3 DEF AdmitRepairs
<1> QED BY <1>1, MoveTyped DEF AdmitRepairs

\* The loop puts an attempt in hand before the steps that use one.
LEMMA NextAttemptTyped ==
    ASSUME Typed, NEW w \in Workers, NextAttempt(w)
    PROVE  Typed' /\ StatusStep
<1>1. Tasks'
  <2>1. worker[w] \in WorkerStates /\ Tasks
    BY DEF Typed, Tasks
  <2>2. CASE Goto(w, "reviewing")
    BY <2>1, <2>2, FreeStep, GotoType DEF FreeSteps, WorkerSteps, AttemptSteps
  <2>3. ASSUME NEW a \in worker[w].todo,
               worker' = [worker EXCEPT ![w].pc = "repairing", ![w].at = a, ![w].todo = @ \ {a}]
        PROVE  Tasks'
    <3> DEFINE new == [worker[w] EXCEPT !.pc = "repairing", !.at = a, !.todo = @ \ {a}]
    <3>1. worker' = [worker EXCEPT ![w] = new]
      BY <2>1, <2>3 DEF Tasks
    <3>2. a \in Attempts
      BY <2>1 DEF WorkerStates
    <3>3. new \in WorkerStates /\ new.pc = "repairing" /\ new.at = a
      BY <2>1, <3>2 DEF WorkerStates, WorkerSteps
    <3> HIDE DEF new
    <3> QED BY <2>1, <3>1, <3>2, <3>3, TaskType
  <2> QED BY <2>2, <2>3 DEF NextAttempt
<1> QED BY <1>1, MoveTyped DEF NextAttempt

\* The session that writes an outcome keeps the invariant.
LEMMA RecordOutcomeTyped ==
    ASSUME Typed, NEW w \in Workers, NEW pc \in WorkerSteps \ (AttemptSteps \cup {"generate"}),
           NEW ok, NEW outcome \in {"completed", "failed"}, NEW new,
           InSession(w, pc) =>
               new \in Snapshots /\ new.run.status = worker[w].seen.run.status,
           RecordOutcome(w, pc, ok, outcome, new)
    PROVE  Typed' /\ StatusStep
<1>1. worker[w] \in WorkerStates /\ Tasks
  BY DEF Typed, Tasks
<1>2. CASE At(w, pc)
  <2>1. CASE Goto(w, "finally") \/ Raise(w)
    <3>1. Tasks'
      BY <1>1, <2>1, FreeStep, GotoType, RaiseType DEF FreeSteps, WorkerSteps, AttemptSteps
    <3> QED BY <1>2, <3>1, MoveTyped DEF RecordOutcome, At, InSession
  <2>2. CASE /\ worker[w].at \in Present(attempts)
             /\ worker' = [worker EXCEPT ![w].seen = Snapshot,
                             ![w].results = @ \cup {<<worker[w].at, outcome>>}]
    <3> DEFINE task == [worker[w] EXCEPT !.seen = Snapshot,
                             !.results = @ \cup {<<worker[w].at, outcome>>}]
    <3>1. worker' = [worker EXCEPT ![w] = task]
      BY <1>1, <2>2 DEF Tasks
    <3>2. Snapshot \in Snapshots /\ worker[w].at \in Attempts
      BY <2>2, SnapshotType DEF Typed, Present
    <3>3. worker[w].results \cup {<<worker[w].at, outcome>>} \in Results
      BY <1>1, <3>2 DEF WorkerStates, Results
    <3>4. task \in WorkerStates /\ task.pc = pc
      BY <1>1, <1>2, <3>2, <3>3 DEF WorkerStates, At
    <3> HIDE DEF task
    <3>5. Tasks'
      BY <1>1, <3>1, <3>4, TaskType
    <3> QED BY <1>2, <3>5, MoveTyped DEF RecordOutcome, At, InSession
  <2> QED BY <1>2, <2>1, <2>2 DEF RecordOutcome, At, InSession
<1>3. CASE InSession(w, pc)
  <2> DEFINE rec == [new EXCEPT !.attempts[worker[w].at] = outcome]
  <2>1. worker[w].seen \in Snapshots
    BY <1>1, <1>3, InSessionType
  <2>2. new \in Snapshots /\ new.run.status = worker[w].seen.run.status
    BY <1>3
  <2>3. rec \in Snapshots /\ rec.run = new.run
    BY <2>2 DEF Snapshots, AttemptRows, JobStatus
  <2>4. CommitStep(w, rec, "next")
    BY <1>3 DEF RecordOutcome, At, InSession
  <2> HIDE DEF rec
  <2>5. MayEnter(w, "next") /\ "next" \in WorkerSteps
    BY DEF MayEnter, AttemptSteps, WorkerSteps
  <2> QED BY <2>1, <2>2, <2>3, <2>4, <2>5, CommitStepTyped
<1> QED BY <1>2, <1>3 DEF RecordOutcome

\* The final session completes the run only together with its report.
LEMMA FinalSessionTyped ==
    ASSUME Typed, NEW w \in Workers, NEW finished \in SUBSET PipelineStages,
           FinalSession(w, finished)
    PROVE  Typed' /\ StatusStep
<1>1. {"finally", "reporting", "saving"} \subseteq FreeSteps
  BY DEF FreeSteps, WorkerSteps, AttemptSteps
<1>2. {"reviewing", "reporting"} \subseteq Stages /\ {"reviewing"} \subseteq PipelineStages
  BY DEF Stages, PipelineStages
<1>3. CASE OpenSession(w, "reviewing", ~RunCancelled, "finally")
  BY <1>1, <1>3, OpenSessionTyped
<1>4. CASE InSession(w, "reviewing") /\ CommitAndKeep(w, Staged(w, "reviewing", finished), "reporting")
  BY <1>1, <1>2, <1>4, InSessionType, StagedType, CommitAndKeepTyped DEF Typed
<1>5. CASE InSession(w, "reporting") /\ CommitAndKeep(w, Staged(w, "reporting", {"reviewing"}), "saving")
  BY <1>1, <1>2, <1>5, InSessionType, StagedType, CommitAndKeepTyped DEF Typed
<1>6. CASE InSession(w, "saving") /\ SaveReport(w, worker[w].seen.attempts, PipelineStages, "finally")
  <2>1. worker[w].seen \in Snapshots
    BY <1>6, InSessionType DEF Typed
  <2>2. worker[w].seen.attempts \in AttemptRows
    BY <2>1 DEF Snapshots
  <2> QED BY <1>1, <1>6, <2>1, <2>2, SaveReportTyped
<1> QED BY <1>3, <1>4, <1>5, <1>6 DEF FinalSession

-----------------------------------------------------------------------------
(* One request at a time: what holds while a task works on a run.           *)

\* A run without a verdict.
Undecided == report = Nothing /\ run.failure = "none"

\* The steps of the two halves of a pipeline.  A baseline has finished its
\* tests when it is late; a repair task has an attempt in hand or is at its end.
EarlySteps == {"copy", "load", "generate", "write", "smoke", "testing", "pytest", "scanning"}
LateSteps == {"bandit", "semgrep", "clean", "awaiting"}
HandSteps == {"repairing", "copy", "repair", "write", "mark_failed", "repaired_testing",
              "repaired_pytest", "repaired_smoke", "repaired_scanning", "repaired_bandit",
              "repaired_semgrep", "record"}
LastSteps == {"reviewing", "reporting", "saving"}
StepsOf(job) ==
    {"admit", "fail"} \cup
        IF job = "baseline" THEN EarlySteps \cup LateSteps ELSE {"next"} \cup HandSteps \cup LastSteps

\* The session that writes an outcome is open: the results are ahead of the rows.
Recording(t) == t.pc \in {"record", "mark_failed"} /\ t.seen # Nothing
OutcomeOf(pc) == IF pc = "record" THEN "completed" ELSE "failed"

\* Attempts since they were read: a cancellation may have come in between.
Kept(old, new) ==
    \A a \in Attempts : \/ new[a] = old[a]
                        \/ new[a] = "cancelled" /\ old[a] # "absent"

\* A task works for a run that was started and has no verdict.
Engaged(t) ==
    /\ run.status \in {"running", "cancelled"}
    /\ run.status = "running" => run.stage # "awaiting_strategy"
    /\ Undecided
    /\ t.job \in {"baseline", "repairs"}
    /\ t.pc \in StepsOf(t.job)
    /\ t.pc = "admit" => t.seen = Nothing /\ t.results = {}
    /\ t.pc = "fail" => t.code # "none"

\* Unless the run was cancelled, what a session has read is what the rows are.
UpToDate(t) ==
    t.seen # Nothing =>
        /\ run.status = "running" => t.seen = Snapshot
        /\ t.seen.run.failure = "none"
        /\ t.seen.run.status = "running" \/ Recording(t)
        /\ Kept(t.seen.attempts, attempts)

\* What a baseline has finished when it is at its step.
Finished(pc) == IF pc \in LateSteps THEN {"baseline_testing"} ELSE {}
Staging(t) ==
    t.job = "baseline" =>
        /\ issued = 0
        /\ t.results = {}
        /\ run.status = "running" /\ t.pc # "fail" => run.progress.done = Finished(t.pc)

\* What a repair task has to do, has in hand and has recorded are the attempts
\* of the run, and what it has recorded is what their rows say.
InHand(t) == IF t.pc \in HandSteps THEN {t.at} ELSE {}
Recorded(t) == {r[1] : r \in t.results}
Covering(t) ==
    t.job = "repairs" /\ t.pc \notin {"admit", "fail"} =>
        /\ t.todo \cup InHand(t) \cup Recorded(t) = Present(attempts)
        /\ t.todo \cap (InHand(t) \cup Recorded(t)) = {}
        /\ t.pc \in LastSteps => t.todo = {}
        /\ Recording(t) => <<t.at, OutcomeOf(t.pc)>> \in t.results
        /\ \A r \in t.results :
              IF r[1] \in InHand(t) THEN Recording(t) /\ r[2] = OutcomeOf(t.pc)
                                    ELSE attempts[r[1]] \in {r[2], "cancelled"}

TaskOK(t) == Engaged(t) /\ UpToDate(t) /\ Staging(t) /\ Covering(t)

OneRequest == \A g, h \in Handlers : handler[g].pc # "idle" /\ handler[h].pc # "idle" => g = h

\* What a request has read is what the rows are, except for a cancellation.
Asked(h) ==
    /\ handler[h].pc = "start" => run.status = "queued" /\ handler[h].seen = Snapshot
    /\ handler[h].pc = "configure" =>
          /\ run.status = "running" /\ run.stage = "awaiting_strategy"
          /\ handler[h].seen = Snapshot
    /\ handler[h].pc = "cancel" => handler[h].seen.run.status \in {"queued", "running"}

\* The inductive invariant of the serial regime.
Serial ==
    /\ OneTaskAtATime
    /\ OneRequest
    /\ \A h \in Handlers : Asked(h)
    /\ \A w \in Workers : Working(w) => TaskOK(worker[w])
    /\ run.status \in {"queued", "running"} => Undecided
    /\ run.status = "queued" => issued = 0 /\ \A w \in Workers : ~Working(w)
    /\ AwaitingIsReady
    /\ RunningIsOwned
    /\ ReportCoversAttempts


\* Where a task may go without a change of what it has finished or has in hand.
Along(job, p, q) ==
    /\ p # "fail" /\ q \in StepsOf(job) \ {"admit", "fail"}
    /\ job = "baseline" => (p \in LateSteps) = (q \in LateSteps)
    /\ job = "repairs" =>
          /\ p # "admit"
          /\ (p \in HandSteps) = (q \in HandSteps)
          /\ q \in LastSteps => p \in LastSteps

\* Where a session that finishes these stages may take it.
Advances(job, p, finished, q) ==
    /\ p \notin {"admit", "fail", "record", "mark_failed"}
    /\ q \in StepsOf(job) \ {"admit", "fail"}
    /\ job = "baseline" => Finished(p) \cup finished = Finished(q)
    /\ job = "repairs" => Along(job, p, q)

\* How a step of the serial regime may move the verdict and the progress.
VerdictStep == Verdict!Next \/ UNCHANGED <<run.status, Decided>>
SerialStep ==
    /\ VerdictStep
    /\ run.status = "running" /\ run'.status = "running"
          => run.progress.done \subseteq run'.progress.done

-----------------------------------------------------------------------------
(* How the invariant is kept, whatever the step does.                       *)

\* The steps of a task that no longer writes rows.
Resting == {"idle", "finally", "cleanup"}

\* A task takes a step and works on.
LEMMA Goes ==
    ASSUME Serial, NEW w \in Workers, Working(w), worker \in [Workers -> WorkerStates],
           NEW t, t.pc \notin Resting, worker' = [worker EXCEPT ![w] = t],
           TaskOK(t)', run'.status = run.status, UNCHANGED handler,
           run.status = "running" => run.progress.done \subseteq run'.progress.done
    PROVE  Serial' /\ SerialStep
<1>1. worker'[w] = t /\ \A v \in Workers : v # w => worker'[v] = worker[v]
  OBVIOUS
<1>2. TaskOK(worker[w])
  BY DEF Serial
<1>3. \A v \in Workers : Working(v)' => v = w
  BY <1>1 DEF Serial, OneTaskAtATime, Working
<1>4. Working(w)'
  BY <1>1 DEF Working, Resting
<1>5. \A h \in Handlers : handler[h].pc \notin {"start", "configure"}
  BY <1>2 DEF Serial, Asked, TaskOK, Engaged
<1>6. /\ run'.status \in {"running", "cancelled"}
      /\ run'.status = "running" => run'.stage # "awaiting_strategy"
      /\ report' = Nothing /\ run'.failure = "none"
  BY DEF TaskOK, Engaged, Undecided
<1>7. \A h \in Handlers : Asked(h)'
  BY <1>5 DEF Serial, Asked
<1>8. \A v \in Workers : Working(v)' => TaskOK(worker[v])'
  <2>1. \A v \in Workers : Working(v)' => worker'[v] = t
    BY <1>1, <1>3
  <2> QED BY <2>1 DEF TaskOK, Engaged, UpToDate, Staging, Covering, Recording, InHand,
                      Recorded, Snapshot, Undecided
<1>9. Serial'
  BY <1>3, <1>4, <1>6, <1>7, <1>8 DEF Serial, OneTaskAtATime, OneRequest, Undecided,
     AwaitingIsReady, RunningIsOwned, ReportCoversAttempts
<1>10. SerialStep
  BY <1>2, <1>6 DEF TaskOK, Engaged, Undecided, SerialStep, VerdictStep, Decided
<1> QED BY <1>9, <1>10

\* A task writes its last row, or finds that it may not.
LEMMA Ends ==
    ASSUME Serial, NEW w \in Workers, Working(w), worker \in [Workers -> WorkerStates],
           NEW t, t.pc \in Resting, worker' = [worker EXCEPT ![w] = t], UNCHANGED handler,
           run'.status \notin {"queued", "running"}, ReportCoversAttempts', VerdictStep
    PROVE  Serial' /\ SerialStep
<1>1. TaskOK(worker[w])
  BY DEF Serial
<1>2. \A v \in Workers : ~Working(v)'
  BY DEF Serial, OneTaskAtATime, Working, Resting
<1>3. \A h \in Handlers : Asked(h)'
  BY <1>1 DEF Serial, Asked, TaskOK, Engaged
<1>4. Serial'
  BY <1>2, <1>3 DEF Serial, OneTaskAtATime, OneRequest, AwaitingIsReady, RunningIsOwned
<1> QED BY <1>4 DEF SerialStep

\* A task leaves the run to its user.
LEMMA Awaits ==
    ASSUME Serial, NEW w \in Workers, Working(w), worker \in [Workers -> WorkerStates],
           NEW t, t.pc \in Resting, worker' = [worker EXCEPT ![w] = t],
           UNCHANGED <<handler, report>>,
           run.status = "running", run'.status = "running",
           run'.stage = "awaiting_strategy", run'.failure = run.failure,
           run'.progress.evidence,
           run'.progress.done = {"baseline_testing", "baseline_scanning"},
           run.progress.done \subseteq {"baseline_testing"},
           \A a \in Present(attempts') : attempts'[a] = "queued"
    PROVE  Serial' /\ SerialStep
<1>1. TaskOK(worker[w])
  BY DEF Serial
<1>2. \A v \in Workers : ~Working(v)'
  BY DEF Serial, OneTaskAtATime, Working, Resting
<1>3. \A h \in Handlers : Asked(h)'
  BY <1>1 DEF Serial, Asked, TaskOK, Engaged
<1>4. Undecided /\ Undecided' /\ report' = Nothing
  BY DEF Serial, Undecided
<1>5. AwaitingIsReady'
  BY <1>2 DEF AwaitingIsReady, Present
<1>6. Serial'
  BY <1>2, <1>3, <1>4, <1>5
     DEF Serial, OneTaskAtATime, OneRequest, RunningIsOwned, ReportCoversAttempts
<1>7. SerialStep
  BY <1>4 DEF SerialStep, VerdictStep, Decided, Undecided
<1> QED BY <1>6, <1>7

\* What the invariant says of a task depends on the rows and the batches only.
LEMMA SameRows ==
    ASSUME NEW t, UNCHANGED <<run, attempts, report, issued>>
    PROVE  TaskOK(t)' <=> TaskOK(t)
BY DEF TaskOK, Engaged, UpToDate, Staging, Covering, Recording, InHand, Recorded, Snapshot,
   Undecided

\* Nothing is written, and the same tasks work as before.
LEMMA Idles ==
    ASSUME Serial, UNCHANGED <<run, attempts, report, issued, crashes>>,
           \A v \in Workers : /\ Working(v)' <=> Working(v)
                              /\ Working(v) => worker'[v] = worker[v],
           OneRequest', \A h \in Handlers : Asked(h)'
    PROVE  Serial' /\ SerialStep
<1>1. \A v \in Workers : Working(v)' => TaskOK(worker[v])'
  <2> SUFFICES ASSUME NEW v \in Workers, Working(v)' PROVE TaskOK(worker[v])'
    OBVIOUS
  <2>1. PICK t : t = worker[v]
    OBVIOUS
  <2>2. TaskOK(t)'
    BY <2>1, SameRows DEF Serial
  <2> QED BY <2>1, <2>2
<1>2. Serial'
  BY <1>1 DEF Serial, OneTaskAtATime, Undecided, AwaitingIsReady, RunningIsOwned,
     ReportCoversAttempts
<1>3. SerialStep
  BY DEF SerialStep, VerdictStep, Decided
<1> QED BY <1>2, <1>3

-----------------------------------------------------------------------------
(* What a commit does in the serial regime.                                 *)

\* Nobody deletes a row a session has read, so no commit is refused.
LEMMA NotStale ==
    ASSUME NEW seen, NEW new, Kept(seen, attempts) PROVE ~StaleData(seen, new)
BY DEF Kept, StaleData

\* A commit of a session nobody overtook leaves what the session wrote.
LEMMA CommitFresh ==
    ASSUME Rows, NEW new \in Snapshots, Commit(Snapshot, new)
    PROVE  run' = new.run /\ attempts' = new.attempts
<1>1. run \in RunRow /\ new.run \in RunRow /\ attempts \in AttemptRows /\ new.attempts \in AttemptRows
  BY DEF Rows, Snapshots
<1>2. /\ run' = [status |-> new.run.status, stage |-> new.run.stage,
                 progress |-> new.run.progress, failure |-> new.run.failure,
                 manifest |-> new.run.manifest]
      /\ attempts' = [a \in Attempts |-> new.attempts[a]]
  BY DEF Commit, FlushRun, FlushAttempts, Merge, Snapshot
<1> QED BY <1>1, <1>2 DEF RunRow, AttemptRows

\* A commit that changes no attempt leaves the attempts alone.
LEMMA CommitKeepsAttempts ==
    ASSUME Rows, NEW seen, NEW new, new.attempts = seen.attempts, Commit(seen, new)
    PROVE  attempts' = attempts
BY DEF Commit, FlushAttempts, Merge, Rows, AttemptRows

\* set_stage by its columns.
LEMMA StagedColumns ==
    ASSUME NEW w \in Workers, worker[w].seen \in Snapshots,
           NEW stage \in Stages, NEW finished \in SUBSET PipelineStages
    PROVE  /\ Staged(w, stage, finished).attempts = worker[w].seen.attempts
           /\ Staged(w, stage, finished).run.status = worker[w].seen.run.status
           /\ Staged(w, stage, finished).run.failure = worker[w].seen.run.failure
           /\ Staged(w, stage, finished).run.stage = stage
           /\ Staged(w, stage, finished).run.progress.done
                = worker[w].seen.run.progress.done \cup finished
BY DEF Staged, SetStage, Snapshots, RunRow, Progress

\* The start of an attempt by its columns.
LEMMA RepairingStageColumns ==
    ASSUME NEW w \in Workers, worker[w].seen \in Snapshots
    PROVE  /\ RepairingStage(w).attempts = worker[w].seen.attempts
           /\ RepairingStage(w).run.status = worker[w].seen.run.status
           /\ RepairingStage(w).run.failure = worker[w].seen.run.failure
           /\ RepairingStage(w).run.stage = "repairing"
           /\ RepairingStage(w).run.progress.done = worker[w].seen.run.progress.done
<1> DEFINE staged == Staged(w, "repairing", {})
<1>1. staged \in Snapshots
  BY StagedType DEF Stages, PipelineStages
<1>2. /\ staged.attempts = worker[w].seen.attempts
      /\ staged.run.status = worker[w].seen.run.status
      /\ staged.run.failure = worker[w].seen.run.failure
      /\ staged.run.stage = "repairing"
      /\ staged.run.progress.done = worker[w].seen.run.progress.done \cup {}
  BY DEF Staged, SetStage, Snapshots, RunRow, Progress
<1> HIDE DEF staged
<1>3. RepairingStage(w) = [staged EXCEPT !.run.progress.current = worker[w].at]
  BY DEF RepairingStage, staged
<1>4. /\ RepairingStage(w).attempts = staged.attempts
      /\ RepairingStage(w).run.status = staged.run.status
      /\ RepairingStage(w).run.failure = staged.run.failure
      /\ RepairingStage(w).run.stage = staged.run.stage
      /\ RepairingStage(w).run.progress.done = staged.run.progress.done
  BY <1>1, <1>3 DEF Snapshots, RunRow, Progress
<1>5. \A done : done \cup {} = done
  OBVIOUS
<1> QED BY <1>2, <1>4, <1>5

\* A session that commits a stage, whether it goes on or not.
LEMMA StageCommitSerial ==
    ASSUME Typed, Serial, NEW w \in Workers, Working(w), worker[w].seen # Nothing,
           NEW new \in Snapshots, Commit(worker[w].seen, new),
           new.attempts = worker[w].seen.attempts,
           new.run.status = worker[w].seen.run.status,
           new.run.failure = worker[w].seen.run.failure,
           new.run.stage # "awaiting_strategy",
           NEW finished,
           new.run.progress.done = worker[w].seen.run.progress.done \cup finished,
           NEW q, Advances(worker[w].job, worker[w].pc, finished, q),
           NEW s \in {Nothing, new}, s # Nothing => q \notin {"record", "mark_failed"},
           worker' = [worker EXCEPT ![w] = [worker[w] EXCEPT !.pc = q, !.seen = s]],
           UNCHANGED <<report, issued, handler>>
    PROVE  Serial' /\ SerialStep
<1>1. worker[w] \in WorkerStates /\ worker[w].seen \in Snapshots /\ worker \in [Workers -> WorkerStates]
  BY DEF Typed, Tasks, WorkerStates
<1>2. PICK t : t = [worker[w] EXCEPT !.pc = q, !.seen = s]
  OBVIOUS
<1>3. /\ t.pc = q /\ t.seen = s /\ t.job = worker[w].job /\ t.at = worker[w].at
      /\ t.todo = worker[w].todo /\ t.results = worker[w].results
  BY <1>1, <1>2 DEF WorkerStates
<1>4. TaskOK(worker[w])
  BY DEF Serial
<1>5. attempts' = attempts
  BY CommitKeepsAttempts DEF Typed
<1>6. run.status = "running" => run' = new.run /\ run = worker[w].seen.run /\ new = Snapshot'
  <2> SUFFICES ASSUME run.status = "running"
               PROVE run' = new.run /\ run = worker[w].seen.run /\ new = Snapshot'
    OBVIOUS
  <2>1. worker[w].seen = Snapshot
    BY <1>4 DEF TaskOK, UpToDate
  <2>2. run' = new.run /\ attempts' = new.attempts
    BY <2>1, CommitFresh DEF Typed
  <2> QED BY <2>1, <2>2 DEF Snapshot, Snapshots
<1>7. run'.status = run.status /\ run'.failure = run.failure
  BY DEF Commit, FlushRun, Merge
<1>8. new.run.status = "running" /\ new.run.failure = "none"
  BY <1>4 DEF TaskOK, UpToDate, Recording, Advances
<1>9. TaskOK(t)'
  <2>1. Engaged(t)'
    BY <1>3, <1>4, <1>6, <1>7 DEF TaskOK, Engaged, Undecided, Advances
  <2>2. UpToDate(t)'
    BY <1>3, <1>5, <1>6, <1>7, <1>8, <1>4 DEF UpToDate, Kept, TaskOK
  <2>3. Staging(t)'
    BY <1>3, <1>4, <1>6, <1>7 DEF TaskOK, Staging, Advances
  <2>4. Covering(t)'
    BY <1>3, <1>4, <1>5
       DEF TaskOK, Engaged, Covering, Advances, Along, Recording, InHand, Recorded
  <2> QED BY <2>1, <2>2, <2>3, <2>4 DEF TaskOK
<1>10. t.pc \notin Resting
  BY <1>3 DEF Advances, StepsOf, Resting, EarlySteps, LateSteps, HandSteps, LastSteps
<1>11. run.status = "running" => run.progress.done \subseteq run'.progress.done
  BY <1>6
<1> QED BY <1>1, <1>2, <1>7, <1>9, <1>10, <1>11, Goes

-----------------------------------------------------------------------------
(* The helpers of the runners in the serial regime.                         *)

\* A task that moves without a change of the rows.
LEMMA MoveSerial ==
    ASSUME Typed, Serial, NEW w \in Workers, Working(w), worker[w].seen = Nothing,
           NEW q, Along(worker[w].job, worker[w].pc, q), Goto(w, q),
           UNCHANGED <<rows, issued, handler>>
    PROVE  Serial' /\ SerialStep
<1>1. worker[w] \in WorkerStates /\ worker \in [Workers -> WorkerStates]
  BY DEF Typed, Tasks
<1>2. TaskOK(worker[w])
  BY DEF Serial
<1>3. q \notin Resting
  BY DEF Along, StepsOf, Resting, EarlySteps, LateSteps, HandSteps, LastSteps
<1>4. PICK t : t = [worker[w] EXCEPT !.pc = q, !.seen = Nothing]
  OBVIOUS
<1>5. worker' = [worker EXCEPT ![w] = t]
  BY <1>1, <1>3, <1>4 DEF Goto, Resting
<1>6. /\ t.pc = q /\ t.seen = Nothing /\ t.job = worker[w].job /\ t.at = worker[w].at
      /\ t.todo = worker[w].todo /\ t.results = worker[w].results
  BY <1>1, <1>4 DEF WorkerStates
<1>7. TaskOK(t)
  <2>1. Engaged(t) /\ UpToDate(t)
    BY <1>2, <1>6 DEF TaskOK, Engaged, UpToDate, Along
  <2>2. Staging(t)
    BY <1>2, <1>6 DEF TaskOK, Staging, Along, Finished
  <2>3. Covering(t)
    BY <1>2, <1>6 DEF TaskOK, Engaged, Covering, Along, Recording, InHand, Recorded
  <2> QED BY <2>1, <2>2, <2>3 DEF TaskOK
<1>8. TaskOK(t)'
  BY <1>7, SameRows DEF rows
<1> QED BY <1>1, <1>3, <1>5, <1>6, <1>8, Goes DEF rows

\* A task that turns to failing the run.
LEMMA FailsSerial ==
    ASSUME Typed, Serial, NEW w \in Workers, Working(w),
           NEW c, c # "none", FailWith(w, c), UNCHANGED <<rows, issued, handler>>
    PROVE  Serial' /\ SerialStep
<1>1. worker[w] \in WorkerStates /\ worker \in [Workers -> WorkerStates]
  BY DEF Typed, Tasks
<1>2. TaskOK(worker[w])
  BY DEF Serial
<1>3. PICK t : t = [worker[w] EXCEPT !.pc = "fail", !.seen = Nothing, !.code = c]
  OBVIOUS
<1>4. worker' = [worker EXCEPT ![w] = t]
  BY <1>1, <1>3 DEF FailWith
<1>5. /\ t.pc = "fail" /\ t.seen = Nothing /\ t.job = worker[w].job /\ t.code = c
      /\ t.results = worker[w].results
  BY <1>1, <1>3 DEF WorkerStates
<1>6. TaskOK(t)
  BY <1>2, <1>5 DEF TaskOK, Engaged, UpToDate, Staging, Covering, StepsOf
<1>7. TaskOK(t)'
  BY <1>6, SameRows DEF rows
<1> QED BY <1>1, <1>4, <1>5, <1>7, Goes DEF rows, Resting

\* So does an exception.
LEMMA RaiseSerial ==
    ASSUME Typed, Serial, NEW w \in Workers, Working(w), Raise(w),
           UNCHANGED <<rows, issued, handler>>
    PROVE  Serial' /\ SerialStep
BY FailsSerial DEF Raise, ExceptionCode

\* A task that finds the run cancelled ends and writes nothing.
LEMMA LeavesSerial ==
    ASSUME Typed, Serial, NEW w \in Workers, Working(w), NEW exit \in Resting,
           Goto(w, exit), run.status # "running", UNCHANGED <<rows, issued, handler>>
    PROVE  Serial' /\ SerialStep
<1>1. worker[w] \in WorkerStates /\ worker \in [Workers -> WorkerStates]
  BY DEF Typed, Tasks
<1>2. run.status = "cancelled"
  BY DEF Serial, TaskOK, Engaged
<1>3. PICK t : t = worker'[w]
  OBVIOUS
<1>4. worker' = [worker EXCEPT ![w] = t] /\ t.pc \in Resting
  BY <1>1, <1>3 DEF Goto, IdleWorker, Resting, WorkerStates
<1>5. ReportCoversAttempts' /\ VerdictStep
  BY DEF Serial, ReportCoversAttempts, VerdictStep, Decided, rows
<1> QED BY <1>1, <1>2, <1>4, <1>5, Ends DEF rows

\* A session opens on a running run, or is left on a cancelled one.
LEMMA OpenSessionSerial ==
    ASSUME Typed, Serial, NEW w \in Workers, Working(w),
           NEW pc, pc \notin {"admit", "record", "mark_failed"}, NEW ok \in BOOLEAN,
           NEW exit \in Resting,
           run.status \in {"running", "cancelled"} => ok = (run.status = "running"),
           OpenSession(w, pc, ok, exit)
    PROVE  Serial' /\ SerialStep
<1>1. worker[w] \in WorkerStates /\ worker \in [Workers -> WorkerStates]
  BY DEF Typed, Tasks
<1>2. TaskOK(worker[w]) /\ run.status \in {"running", "cancelled"}
  BY DEF Serial, TaskOK, Engaged
<1>3. CASE ok
  <2>1. PICK t : t = [worker[w] EXCEPT !.seen = Snapshot]
    OBVIOUS
  <2>2. worker' = [worker EXCEPT ![w] = t]
    BY <1>1, <1>3, <2>1 DEF OpenSession
  <2>3. /\ t.pc = pc /\ t.seen = Snapshot /\ t.job = worker[w].job /\ t.at = worker[w].at
        /\ t.todo = worker[w].todo /\ t.results = worker[w].results /\ t.code = worker[w].code
        /\ worker[w].pc = pc
    BY <1>1, <2>1 DEF WorkerStates, OpenSession, At
  <2>4. TaskOK(t)
    <3>1. Engaged(t)
      BY <1>2, <2>3 DEF TaskOK, Engaged
    <3>2. UpToDate(t)
      <4>1. run.status = "running" /\ run.failure = "none"
        BY <1>2, <1>3 DEF TaskOK, Engaged, Undecided
      <4>2. Snapshot.run = run /\ Snapshot.attempts = attempts
        BY DEF Snapshot
      <4> QED BY <2>3, <4>1, <4>2 DEF UpToDate, Kept
    <3>3. Staging(t)
      BY <1>2, <2>3 DEF TaskOK, Staging
    <3>4. Covering(t)
      BY <1>2, <2>3 DEF TaskOK, Covering, Recording, InHand, Recorded
    <3> QED BY <3>1, <3>2, <3>3, <3>4 DEF TaskOK
  <2>5. TaskOK(t)'
    BY <2>4, SameRows DEF OpenSession, rows
  <2>6. t.pc \notin Resting
    BY <2>3 DEF Working, Resting
  <2> QED BY <1>1, <2>2, <2>5, <2>6, Goes DEF OpenSession, rows
<1>4. CASE ~ok
  BY <1>2, <1>4, LeavesSerial DEF OpenSession
<1> QED BY <1>3, <1>4

\* The commit of a stage that ends a session.
LEMMA StagedStepSerial ==
    ASSUME Typed, Serial, NEW w \in Workers, Working(w), NEW pc, InSession(w, pc),
           NEW stage \in PipelineStages, NEW finished \in SUBSET PipelineStages,
           NEW q, Advances(worker[w].job, pc, finished, q),
           CommitStep(w, Staged(w, stage, finished), q)
    PROVE  Serial' /\ SerialStep
<1> DEFINE new == Staged(w, stage, finished)
<1>1. worker[w].seen \in Snapshots /\ worker[w].seen # Nothing /\ worker[w].pc = pc
  BY InSessionType DEF Typed, InSession
<1>2. stage \in Stages /\ stage # "awaiting_strategy"
  BY DEF Stages, PipelineStages
<1>3. new \in Snapshots
  BY <1>1, <1>2, StagedType
<1>4. /\ new.attempts = worker[w].seen.attempts
      /\ new.run.status = worker[w].seen.run.status
      /\ new.run.failure = worker[w].seen.run.failure
      /\ new.run.stage = stage
      /\ new.run.progress.done = worker[w].seen.run.progress.done \cup finished
  BY <1>1, <1>2, StagedColumns
<1> HIDE DEF new
<1>5. Commit(worker[w].seen, new) /\ Goto(w, q)
  <2>1. Kept(worker[w].seen.attempts, attempts)
    BY <1>1 DEF Serial, TaskOK, UpToDate
  <2> QED BY <2>1, NotStale DEF CommitStep, new
<1>6. worker' = [worker EXCEPT ![w] = [worker[w] EXCEPT !.pc = q, !.seen = Nothing]]
  <2>1. q # "idle"
    BY DEF Advances, StepsOf, EarlySteps, LateSteps, HandSteps, LastSteps
  <2> QED BY <1>5, <2>1 DEF Goto, Typed, Tasks
<1>7. UNCHANGED <<report, issued, handler>>
  BY DEF CommitStep
<1> QED BY <1>1, <1>2, <1>3, <1>4, <1>5, <1>6, <1>7, StageCommitSerial

\* The commit of a stage after which the session goes on.
LEMMA StagedKeepSerial ==
    ASSUME Typed, Serial, NEW w \in Workers, Working(w), NEW pc, InSession(w, pc),
           NEW stage \in PipelineStages, NEW finished \in SUBSET PipelineStages,
           NEW q, Advances(worker[w].job, pc, finished, q), q \notin {"record", "mark_failed"},
           CommitAndKeep(w, Staged(w, stage, finished), q)
    PROVE  Serial' /\ SerialStep
<1> DEFINE new == Staged(w, stage, finished)
<1>1. worker[w].seen \in Snapshots /\ worker[w].seen # Nothing /\ worker[w].pc = pc
  BY InSessionType DEF Typed, InSession
<1>2. stage \in Stages /\ stage # "awaiting_strategy"
  BY DEF Stages, PipelineStages
<1>3. new \in Snapshots
  BY <1>1, <1>2, StagedType
<1>4. /\ new.attempts = worker[w].seen.attempts
      /\ new.run.status = worker[w].seen.run.status
      /\ new.run.failure = worker[w].seen.run.failure
      /\ new.run.stage = stage
      /\ new.run.progress.done = worker[w].seen.run.progress.done \cup finished
  BY <1>1, <1>2, StagedColumns
<1> HIDE DEF new
<1>5. /\ Commit(worker[w].seen, new)
      /\ worker' = [worker EXCEPT ![w] = [worker[w] EXCEPT !.pc = q, !.seen = new]]
      /\ UNCHANGED <<report, issued, handler>>
  BY DEF CommitAndKeep, new, Typed, Tasks
<1> QED BY <1>1, <1>2, <1>3, <1>4, <1>5, StageCommitSerial

\* A session that asks and then commits a stage.
LEMMA StageSessionSerial ==
    ASSUME Typed, Serial, NEW w \in Workers, Working(w),
           NEW pc, pc \notin {"admit", "record", "mark_failed"},
           NEW stage \in PipelineStages, NEW finished \in SUBSET PipelineStages,
           NEW q, InSession(w, pc) => Advances(worker[w].job, pc, finished, q),
           NEW exit \in Resting,
           StageSession(w, pc, Staged(w, stage, finished), q, exit)
    PROVE  Serial' /\ SerialStep
<1>1. CASE OpenSession(w, pc, ~RunCancelled, exit)
  BY <1>1, OpenSessionSerial DEF RunCancelled
<1>2. CASE InSession(w, pc) /\ CommitStep(w, Staged(w, stage, finished), q)
  BY <1>2, StagedStepSerial
<1> QED BY <1>1, <1>2 DEF StageSession

\* The session that starts an attempt.
LEMMA RepairingSerial ==
    ASSUME Typed, Serial, NEW w \in Workers, Working(w),
           NEW q, InSession(w, "repairing") => Advances(worker[w].job, "repairing", {}, q),
           NEW exit \in Resting,
           StageSession(w, "repairing", RepairingStage(w), q, exit)
    PROVE  Serial' /\ SerialStep
<1>1. CASE OpenSession(w, "repairing", ~RunCancelled, exit)
  BY <1>1, OpenSessionSerial DEF RunCancelled
<1>2. CASE InSession(w, "repairing") /\ CommitStep(w, RepairingStage(w), q)
  <2> DEFINE new == RepairingStage(w)
  <2>1. /\ worker[w].seen \in Snapshots /\ worker[w].seen # Nothing
        /\ worker[w].pc = "repairing" /\ worker[w].at \in Attempts \cup {Nothing}
    BY <1>2, InSessionType DEF Typed, Tasks, WorkerStates, InSession
  <2>2. new \in Snapshots
    BY <2>1, RepairingStageType
  <2>3. /\ new.attempts = worker[w].seen.attempts
        /\ new.run.status = worker[w].seen.run.status
        /\ new.run.failure = worker[w].seen.run.failure
        /\ new.run.stage # "awaiting_strategy"
        /\ new.run.progress.done = worker[w].seen.run.progress.done \cup {}
    BY <2>1, RepairingStageColumns
  <2> HIDE DEF new
  <2>4. Commit(worker[w].seen, new) /\ Goto(w, q)
    <3>1. Kept(worker[w].seen.attempts, attempts)
      BY <2>1 DEF Serial, TaskOK, UpToDate
    <3> QED BY <1>2, <3>1, NotStale DEF CommitStep, new
  <2>5. worker' = [worker EXCEPT ![w] = [worker[w] EXCEPT !.pc = q, !.seen = Nothing]]
    <3>1. q # "idle"
      BY <1>2 DEF Advances, StepsOf, EarlySteps, LateSteps, HandSteps, LastSteps
    <3> QED BY <2>4, <3>1 DEF Goto, Typed, Tasks
  <2>6. UNCHANGED <<report, issued, handler>> /\ Advances(worker[w].job, worker[w].pc, {}, q)
    BY <1>2, <2>1 DEF CommitStep
  <2> QED BY <2>1, <2>2, <2>3, <2>4, <2>5, <2>6, StageCommitSerial
<1> QED BY <1>1, <1>2 DEF StageSession

\* The end of a baseline by its columns.
LEMMA AwaitStrategyColumns ==
    ASSUME NEW w \in Workers, worker[w].seen \in Snapshots
    PROVE  /\ AwaitStrategy(w).run.status = worker[w].seen.run.status
           /\ AwaitStrategy(w).run.failure = worker[w].seen.run.failure
           /\ AwaitStrategy(w).run.stage = "awaiting_strategy"
           /\ AwaitStrategy(w).run.progress.evidence
           /\ AwaitStrategy(w).run.progress.done
                = worker[w].seen.run.progress.done \cup {"baseline_scanning"}
           /\ AwaitStrategy(w).attempts = RowsOf(Present(worker[w].seen.attempts), "queued")
<1> DEFINE staged == SetStage(worker[w].seen.run, "awaiting_strategy", {"baseline_scanning"})
<1>1. staged \in RunRow
  BY SetStageType DEF Snapshots, Stages, PipelineStages
<1>2. /\ staged.status = worker[w].seen.run.status
      /\ staged.failure = worker[w].seen.run.failure
      /\ staged.stage = "awaiting_strategy"
      /\ staged.progress.done = worker[w].seen.run.progress.done \cup {"baseline_scanning"}
  BY DEF SetStage, Snapshots, RunRow, Progress
<1> HIDE DEF staged
<1>3. /\ AwaitStrategy(w).run = [staged EXCEPT !.progress.evidence = TRUE, !.progress.current = Nothing]
      /\ AwaitStrategy(w).attempts = RowsOf(Present(worker[w].seen.attempts), "queued")
  BY DEF AwaitStrategy, staged
<1>4. /\ AwaitStrategy(w).run.status = staged.status
      /\ AwaitStrategy(w).run.failure = staged.failure
      /\ AwaitStrategy(w).run.stage = staged.stage
      /\ AwaitStrategy(w).run.progress.evidence
      /\ AwaitStrategy(w).run.progress.done = staged.progress.done
  BY <1>1, <1>3 DEF RunRow, Progress
<1> QED BY <1>2, <1>3, <1>4

\* A baseline hands its run to the user with both of its stages done.
LEMMA AwaitingSerial ==
    ASSUME Typed, Serial, NEW w \in Workers, Working(w), NEW exit \in Resting,
           StageSession(w, "awaiting", AwaitStrategy(w), exit, exit)
    PROVE  Serial' /\ SerialStep
<1>1. CASE OpenSession(w, "awaiting", ~RunCancelled, exit)
  BY <1>1, OpenSessionSerial DEF RunCancelled
<1>2. CASE InSession(w, "awaiting") /\ CommitStep(w, AwaitStrategy(w), exit)
  <2> DEFINE new == AwaitStrategy(w)
  <2>1. /\ worker[w].seen \in Snapshots /\ worker[w].seen # Nothing
        /\ worker[w].pc = "awaiting" /\ worker \in [Workers -> WorkerStates]
    BY <1>2, InSessionType DEF Typed, Tasks, InSession
  <2>2. TaskOK(worker[w])
    BY DEF Serial
  <2>3. new \in Snapshots
    BY <2>1, AwaitStrategyType
  <2>4. /\ new.run.status = worker[w].seen.run.status
        /\ new.run.failure = worker[w].seen.run.failure
        /\ new.run.stage = "awaiting_strategy"
        /\ new.run.progress.evidence
        /\ new.run.progress.done = worker[w].seen.run.progress.done \cup {"baseline_scanning"}
        /\ new.attempts = RowsOf(Present(worker[w].seen.attempts), "queued")
    BY <2>1, AwaitStrategyColumns
  <2> HIDE DEF new
  <2>5. Commit(worker[w].seen, new) /\ Goto(w, exit)
    <3>1. Kept(worker[w].seen.attempts, attempts)
      BY <2>1, <2>2 DEF TaskOK, UpToDate
    <3> QED BY <1>2, <3>1, NotStale DEF CommitStep, new
  <2>6. UNCHANGED <<report, issued, handler>>
    BY <1>2 DEF CommitStep
  <2>7. PICK t : t = worker'[w]
    OBVIOUS
  <2>8. worker' = [worker EXCEPT ![w] = t] /\ t.pc \in Resting
    BY <2>1, <2>5, <2>7 DEF Goto, IdleWorker, Resting, WorkerStates
  <2>9. run'.status = run.status /\ run'.failure = run.failure
    BY <2>4, <2>5 DEF Commit, FlushRun, Merge
  <2>10. Undecided /\ report' = Nothing /\ run.status \in {"running", "cancelled"}
    BY <2>2, <2>6 DEF TaskOK, Engaged, Undecided
  <2>11. CASE run.status = "running"
    <3>1. worker[w].seen = Snapshot
      BY <2>1, <2>2, <2>11 DEF TaskOK, UpToDate
    <3>2. run' = new.run /\ attempts' = new.attempts
      BY <2>3, <2>5, <3>1, CommitFresh DEF Typed
    <3>3. run.progress.done = {"baseline_testing"} /\ worker[w].seen.run = run
      <4>1. worker[w].job = "baseline"
        BY <2>1, <2>2 DEF TaskOK, Engaged, StepsOf, HandSteps, LastSteps
      <4>2. run.progress.done = {"baseline_testing"}
        BY <2>1, <2>2, <2>11, <4>1 DEF TaskOK, Staging, Finished, LateSteps
      <4> QED BY <3>1, <4>2 DEF Snapshot
    <3>4. \A a \in Present(attempts') : attempts'[a] = "queued"
      BY <2>4, <3>2 DEF Present, RowsOf
    <3> QED BY <2>1, <2>4, <2>6, <2>8, <2>9, <2>11, <3>2, <3>3, <3>4, Awaits
  <2>12. CASE run.status = "cancelled"
    <3>1. ReportCoversAttempts' /\ VerdictStep
      BY <2>6, <2>9, <2>10 DEF ReportCoversAttempts, VerdictStep, Decided
    <3> QED BY <2>1, <2>6, <2>8, <2>9, <2>12, <3>1, Ends
  <2> QED BY <2>10, <2>11, <2>12
<1> QED BY <1>1, <1>2 DEF StageSession

\* A tool or model call, whichever way it ends.
LEMMA ToolCallSerial ==
    ASSUME Typed, Serial, NEW w \in Workers, Working(w), NEW pc, NEW next, NEW codes,
           "none" \notin codes,
           At(w, pc) => \A q \in next : Along(worker[w].job, pc, q),
           ToolCall(w, pc, next, codes)
    PROVE  Serial' /\ SerialStep
<1>1. worker[w].seen = Nothing /\ worker[w].pc = pc /\ UNCHANGED <<rows, issued, handler>>
  BY DEF ToolCall, At
<1>2. ASSUME NEW q \in next, Goto(w, q) PROVE Serial' /\ SerialStep
  BY <1>1, <1>2, MoveSerial DEF At
<1>3. ASSUME NEW c \in codes, FailWith(w, c) PROVE Serial' /\ SerialStep
  BY <1>1, <1>3, FailsSerial
<1> QED BY <1>2, <1>3 DEF ToolCall

\* A copy, half done or done.
LEMMA FillDirectorySerial ==
    ASSUME Typed, Serial, NEW w \in Workers, Working(w), NEW pc, NEW dir, NEW source,
           NEW next, NEW codes, "none" \notin codes,
           At(w, pc) => \A q \in next : Along(worker[w].job, pc, q),
           FillDirectory(w, pc, dir, source, next, codes)
    PROVE  Serial' /\ SerialStep
<1>1. worker[w].seen = Nothing /\ worker[w].pc = pc /\ UNCHANGED <<rows, issued, handler>>
  BY DEF FillDirectory, At
<1>2. ASSUME NEW q \in next, Goto(w, q) PROVE Serial' /\ SerialStep
  BY <1>1, <1>2, MoveSerial DEF At
<1>3. ASSUME NEW c \in codes, FailWith(w, c) PROVE Serial' /\ SerialStep
  BY <1>1, <1>3, FailsSerial
<1> QED BY <1>2, <1>3 DEF FillDirectory

\* fail_run decides the run, unless it was cancelled before fail_run read it.
LEMMA FailRunSerial ==
    ASSUME Typed, Serial, NEW w \in Workers, Working(w), NEW exit \in Resting,
           FailRun(w, exit)
    PROVE  Serial' /\ SerialStep
<1>1. CASE OpenSession(w, "fail", ~RunCancelled, exit)
  BY <1>1, OpenSessionSerial DEF RunCancelled
<1>2. CASE InSession(w, "fail")
  <2> DEFINE new == FailedRun(worker[w].seen, worker[w].code)
  <2>1. /\ worker[w].seen \in Snapshots /\ worker[w].seen # Nothing
        /\ worker[w].pc = "fail" /\ worker \in [Workers -> WorkerStates]
    BY <1>2, InSessionType DEF Typed, Tasks, InSession
  <2>2. TaskOK(worker[w])
    BY DEF Serial
  <2>3. /\ worker[w].seen.run.status = "running" /\ worker[w].seen.run.failure = "none"
        /\ worker[w].code # "none" /\ run.status \in {"running", "cancelled"} /\ Undecided
    BY <2>1, <2>2 DEF TaskOK, Engaged, UpToDate, Recording
  <2>4. new.run.status = "failed" /\ new.run.failure = worker[w].code
    BY <2>1 DEF FailedRun, Snapshots, RunRow
  <2>5. ~OpenSession(w, "fail", ~RunCancelled, exit)
    BY <1>2 DEF OpenSession, InSession, At
  <2>6. ~StaleData(worker[w].seen.attempts, new.attempts)
    BY <2>1, <2>2, NotStale DEF TaskOK, UpToDate
  <2>7. Commit(worker[w].seen, new) /\ Goto(w, exit) /\ UNCHANGED <<report, handler>>
    BY <2>5, <2>6 DEF FailRun
  <2> HIDE DEF new
  <2>8. run'.status = "failed" /\ run'.failure = worker[w].code
    BY <2>3, <2>4, <2>7 DEF Commit, FlushRun, Merge
  <2>9. PICK t : t = worker'[w]
    OBVIOUS
  <2>10. worker' = [worker EXCEPT ![w] = t] /\ t.pc \in Resting
    BY <2>1, <2>7, <2>9 DEF Goto, IdleWorker, Resting, WorkerStates
  <2>11. ReportCoversAttempts'
    BY <2>3, <2>7 DEF ReportCoversAttempts, Undecided
  <2>12. VerdictStep
    <3>1. Decided = "none" /\ Decided' = "failed"
      BY <2>3, <2>7, <2>8 DEF Decided, Undecided
    <3> QED BY <2>3, <2>8, <3>1 DEF VerdictStep, Verdict!Next, Verdict!Decide
  <2> QED BY <2>1, <2>7, <2>8, <2>10, <2>11, <2>12, Ends
<1> QED BY <1>1, <1>2 DEF FailRun

\* The finally of a runner writes no row.
LEMMA FinallyCleanupSerial ==
    ASSUME Typed, Serial, NEW w \in Workers, FinallyCleanup(w)
    PROVE  Serial' /\ SerialStep
<1>1. worker \in [Workers -> WorkerStates]
  BY DEF Typed, Tasks
<1>2. ~Working(w) /\ ~Working(w)' /\ \A v \in Workers : v # w => worker'[v] = worker[v]
  <2>1. ~Working(w)
    BY DEF FinallyCleanup, Working, At
  <2>2. PICK q \in {"cleanup", "idle"} : Goto(w, q)
    BY DEF FinallyCleanup
  <2>3. CASE q = "idle"
    BY <1>1, <2>1, <2>2, <2>3 DEF Goto, Working, IdleWorker
  <2>4. CASE q = "cleanup"
    BY <1>1, <2>1, <2>2, <2>4 DEF Goto, Working, WorkerStates
  <2> QED BY <2>3, <2>4
<1>3. UNCHANGED <<run, attempts, report, issued, handler, crashes>>
  BY DEF FinallyCleanup, rows, bounds
<1>4. \A v \in Workers : (Working(v)' <=> Working(v)) /\ (Working(v) => worker'[v] = worker[v])
  BY <1>2 DEF Working
<1>5. OneRequest' /\ \A h \in Handlers : Asked(h)'
  BY <1>3 DEF Serial, OneRequest, Asked, Snapshot
<1> QED BY <1>3, <1>4, <1>5, Idles

\* save_report decides the run.
LEMMA SaveReportSerial ==
    ASSUME Typed, Serial, NEW w \in Workers, Working(w), NEW pc, InSession(w, pc),
           pc \notin {"record", "mark_failed"}, NEW exit \in Resting,
           NEW kept \in AttemptRows, NEW stagesDone, SaveReport(w, kept, stagesDone, exit),
           (/\ attempts' = FlushAttempts(worker[w].seen.attempts, kept)
            /\ report' = [results |-> worker[w].results])
              => ReportCoversAttempts'
    PROVE  Serial' /\ SerialStep
<1> DEFINE row == [worker[w].seen.run EXCEPT
              !.status = "completed", !.stage = "completed",
              !.progress = [listed |-> TRUE, done |-> stagesDone,
                            evidence |-> FALSE, current |-> Nothing]]
           new == [run |-> row, attempts |-> kept]
<1>1. /\ worker[w].seen \in Snapshots /\ worker[w].seen # Nothing /\ worker[w].pc = pc
      /\ worker \in [Workers -> WorkerStates] /\ worker[w] \in WorkerStates
  BY InSessionType DEF Typed, Tasks, InSession
<1>2. TaskOK(worker[w])
  BY DEF Serial
<1>3. /\ worker[w].seen.run.status = "running" /\ worker[w].seen.run.failure = "none"
      /\ run.status \in {"running", "cancelled"} /\ Undecided
  BY <1>1, <1>2 DEF TaskOK, Engaged, UpToDate, Recording
<1>4. CASE Raise(w) /\ UNCHANGED rows
  BY <1>4, RaiseSerial DEF SaveReport
<1>5. CASE /\ Commit(worker[w].seen, new)
           /\ report' = [results |-> worker[w].results]
           /\ Goto(w, exit)
  <2>1. row.status = "completed"
    BY <1>1 DEF Snapshots, RunRow
  <2>2. run'.status = "completed" /\ attempts' = FlushAttempts(worker[w].seen.attempts, kept)
    BY <1>3, <1>5, <2>1 DEF Commit, FlushRun, Merge
  <2>3. report' # Nothing
    BY <1>1, <1>5, StoreAssumption DEF ReportRow, WorkerStates
  <2>4. PICK t : t = worker'[w]
    OBVIOUS
  <2>5. worker' = [worker EXCEPT ![w] = t] /\ t.pc \in Resting
    BY <1>1, <1>5, <2>4 DEF Goto, IdleWorker, Resting, WorkerStates
  <2>6. VerdictStep
    <3>1. Decided = "none" /\ Decided' = "completed"
      BY <1>3, <2>3 DEF Decided, Undecided
    <3> QED BY <1>3, <2>2, <3>1 DEF VerdictStep, Verdict!Next, Verdict!Decide
  <2>7. UNCHANGED handler
    BY DEF SaveReport
  <2> QED BY <1>1, <1>5, <2>2, <2>5, <2>6, <2>7, Ends
<1> QED BY <1>4, <1>5 DEF SaveReport

\* The first session of a baseline.
LEMMA AdmitBaselineSerial ==
    ASSUME Typed, Serial, NEW w \in Workers, Working(w),
           NEW next, Along("baseline", "admit", next), NEW exit \in Resting,
           AdmitBaseline(w, next, exit)
    PROVE  Serial' /\ SerialStep
<1>1. CASE run.status = "running"
  BY <1>1, MoveSerial DEF AdmitBaseline, At
<1>2. CASE run.status # "running"
  BY <1>2, LeavesSerial DEF AdmitBaseline
<1> QED BY <1>1, <1>2

\* The first session of the repairs puts every attempt of the run on the list.
LEMMA AdmitRepairsSerial ==
    ASSUME Typed, Serial, NEW w \in Workers, Working(w), AdmitRepairs(w)
    PROVE  Serial' /\ SerialStep
<1>1. worker[w] \in WorkerStates /\ worker \in [Workers -> WorkerStates]
  BY DEF Typed, Tasks
<1>2. UNCHANGED <<rows, issued, handler>> /\ At(w, "admit") /\ worker[w].job = "repairs"
  BY DEF AdmitRepairs
<1>3. CASE run.status # "running" /\ Goto(w, "finally")
  BY <1>2, <1>3, LeavesSerial DEF Resting
<1>4. CASE Raise(w)
  BY <1>2, <1>4, RaiseSerial
<1>5. CASE worker' = [worker EXCEPT ![w].pc = "next", ![w].todo = Present(attempts)]
  <2>1. PICK t : t = [worker[w] EXCEPT !.pc = "next", !.todo = Present(attempts)]
    OBVIOUS
  <2>2. worker' = [worker EXCEPT ![w] = t]
    BY <1>1, <1>5, <2>1
  <2>3. /\ t.pc = "next" /\ t.seen = Nothing /\ t.job = "repairs"
        /\ t.todo = Present(attempts) /\ t.results = worker[w].results
    BY <1>1, <1>2, <2>1 DEF WorkerStates, At
  <2>4. TaskOK(worker[w]) /\ worker[w].results = {}
    BY <1>2 DEF Serial, TaskOK, Engaged, At
  <2>5. TaskOK(t)
    <3>1. Engaged(t) /\ UpToDate(t) /\ Staging(t)
      BY <2>3, <2>4 DEF TaskOK, Engaged, UpToDate, Staging, StepsOf
    <3>2. Covering(t)
      BY <2>3, <2>4 DEF Covering, Recording, InHand, Recorded, HandSteps, LastSteps
    <3> QED BY <3>1, <3>2 DEF TaskOK
  <2>6. TaskOK(t)'
    BY <1>2, <2>5, SameRows DEF rows
  <2> QED BY <1>1, <1>2, <2>2, <2>3, <2>6, Goes DEF Resting, rows
<1> QED BY <1>3, <1>4, <1>5 DEF AdmitRepairs

\* The loop takes an attempt off the list, or ends with none left.
LEMMA NextAttemptSerial ==
    ASSUME Typed, Serial, NEW w \in Workers, Working(w), NextAttempt(w)
    PROVE  Serial' /\ SerialStep
<1>1. worker[w] \in WorkerStates /\ worker \in [Workers -> WorkerStates]
  BY DEF Typed, Tasks
<1>2. /\ UNCHANGED <<rows, issued, handler>>
      /\ worker[w].pc = "next" /\ worker[w].seen = Nothing
  BY DEF NextAttempt, At
<1>3. TaskOK(worker[w]) /\ worker[w].job = "repairs"
  BY <1>2 DEF Serial, TaskOK, Engaged, StepsOf, EarlySteps, LateSteps
<1>4. /\ worker[w].todo \cup Recorded(worker[w]) = Present(attempts)
      /\ worker[w].todo \cap Recorded(worker[w]) = {}
      /\ \A r \in worker[w].results : attempts[r[1]] \in {r[2], "cancelled"}
  BY <1>2, <1>3 DEF TaskOK, Covering, InHand, HandSteps
<1>5. CASE worker[w].todo = {} /\ Goto(w, "reviewing")
  <2>1. PICK t : t = [worker[w] EXCEPT !.pc = "reviewing", !.seen = Nothing]
    OBVIOUS
  <2>2. worker' = [worker EXCEPT ![w] = t]
    BY <1>1, <1>5, <2>1 DEF Goto
  <2>3. /\ t.pc = "reviewing" /\ t.seen = Nothing /\ t.job = "repairs"
        /\ t.todo = {} /\ t.results = worker[w].results
    BY <1>1, <1>3, <1>5, <2>1 DEF WorkerStates
  <2>4. TaskOK(t)
    <3>1. Engaged(t) /\ UpToDate(t) /\ Staging(t)
      BY <1>3, <2>3 DEF TaskOK, Engaged, UpToDate, Staging, StepsOf, LastSteps
    <3>2. Covering(t)
      BY <1>4, <1>5, <2>3 DEF Covering, Recording, InHand, Recorded, HandSteps
    <3> QED BY <3>1, <3>2 DEF TaskOK
  <2>5. TaskOK(t)'
    BY <1>2, <2>4, SameRows DEF rows
  <2> QED BY <1>1, <1>2, <2>2, <2>3, <2>5, Goes DEF Resting, rows
<1>6. ASSUME NEW a \in worker[w].todo,
             worker' = [worker EXCEPT ![w].pc = "repairing", ![w].at = a, ![w].todo = @ \ {a}]
      PROVE  Serial' /\ SerialStep
  <2>1. PICK t : t = [worker[w] EXCEPT !.pc = "repairing", !.at = a, !.todo = @ \ {a}]
    OBVIOUS
  <2>2. worker' = [worker EXCEPT ![w] = t]
    BY <1>1, <1>6, <2>1
  <2>3. /\ t.pc = "repairing" /\ t.seen = Nothing /\ t.job = "repairs" /\ t.at = a
        /\ t.todo = worker[w].todo \ {a} /\ t.results = worker[w].results
    BY <1>1, <1>2, <1>3, <2>1 DEF WorkerStates
  <2>4. TaskOK(t)
    <3>1. Engaged(t) /\ UpToDate(t) /\ Staging(t)
      BY <1>3, <2>3 DEF TaskOK, Engaged, UpToDate, Staging, StepsOf, HandSteps
    <3>2. InHand(t) = {a} /\ Recorded(t) = Recorded(worker[w]) /\ ~Recording(t)
      BY <2>3 DEF InHand, HandSteps, Recorded, Recording
    <3>3. \A r \in t.results : r[1] # a /\ attempts[r[1]] \in {r[2], "cancelled"}
      BY <1>4, <2>3 DEF Recorded
    <3>4. Covering(t)
      BY <1>4, <2>3, <3>2, <3>3 DEF Covering, LastSteps
    <3> QED BY <3>1, <3>4 DEF TaskOK
  <2>5. TaskOK(t)'
    BY <1>2, <2>4, SameRows DEF rows
  <2> QED BY <1>1, <1>2, <2>2, <2>3, <2>5, Goes DEF Resting, rows
<1> QED BY <1>5, <1>6 DEF NextAttempt

\* The session that writes an outcome notes it in the results and then in the
\* row of its attempt.
LEMMA RecordOutcomeSerial ==
    ASSUME Typed, Serial, NEW w \in Workers, Working(w),
           NEW pc \in {"record", "mark_failed"}, NEW ok, run.status = "running" => ok,
           NEW outcome, outcome = OutcomeOf(pc), NEW new,
           InSession(w, pc) =>
               /\ new \in Snapshots
               /\ new.attempts = worker[w].seen.attempts
               /\ new.run.status = worker[w].seen.run.status
               /\ new.run.failure = worker[w].seen.run.failure
               /\ new.run.stage \in {worker[w].seen.run.stage} \cup PipelineStages
               /\ worker[w].seen.run.progress.done \subseteq new.run.progress.done,
           RecordOutcome(w, pc, ok, outcome, new)
    PROVE  Serial' /\ SerialStep
<1>1. worker[w] \in WorkerStates /\ worker \in [Workers -> WorkerStates]
  BY DEF Typed, Tasks
<1>2. TaskOK(worker[w]) /\ worker[w].pc = pc
  BY DEF Serial, RecordOutcome, At, InSession
<1>3. /\ worker[w].job = "repairs" /\ pc \in HandSteps /\ pc \notin LastSteps
      /\ outcome \in {"completed", "failed"}
  BY <1>2 DEF TaskOK, Engaged, StepsOf, EarlySteps, LateSteps, HandSteps, LastSteps, OutcomeOf
<1>4. /\ worker[w].todo \cup {worker[w].at} \cup Recorded(worker[w]) = Present(attempts)
      /\ worker[w].todo \cap ({worker[w].at} \cup Recorded(worker[w])) = {}
      /\ Recording(worker[w]) => <<worker[w].at, outcome>> \in worker[w].results
      /\ \A r \in worker[w].results :
            IF r[1] = worker[w].at THEN Recording(worker[w]) /\ r[2] = outcome
                                   ELSE attempts[r[1]] \in {r[2], "cancelled"}
  BY <1>2, <1>3 DEF TaskOK, Covering, InHand, HandSteps
<1>5. CASE At(w, pc)
  <2>1. UNCHANGED <<rows, issued, handler>>
    BY <1>5 DEF RecordOutcome, At, InSession
  <2>2. CASE ~ok /\ Goto(w, "finally")
    BY <2>1, <2>2, LeavesSerial DEF Resting
  <2>3. CASE Raise(w)
    BY <2>1, <2>3, RaiseSerial
  <2>4. CASE worker' = [worker EXCEPT ![w].seen = Snapshot,
                             ![w].results = @ \cup {<<worker[w].at, outcome>>}]
    <3>1. PICK t : t = [worker[w] EXCEPT !.seen = Snapshot,
                             !.results = @ \cup {<<worker[w].at, outcome>>}]
      OBVIOUS
    <3>2. worker' = [worker EXCEPT ![w] = t]
      BY <1>1, <2>4, <3>1
    <3>3. /\ t.pc = pc /\ t.seen = Snapshot /\ t.job = "repairs" /\ t.at = worker[w].at
          /\ t.todo = worker[w].todo /\ t.code = worker[w].code
          /\ t.results = worker[w].results \cup {<<worker[w].at, outcome>>}
      BY <1>1, <1>2, <1>3, <3>1 DEF WorkerStates
    <3>4. Snapshot # Nothing
      BY SnapshotType, StoreAssumption DEF Typed
    <3>5. ~Recording(worker[w])
      BY <1>5 DEF Recording, At
    <3>6. TaskOK(t)
      <4>1. Engaged(t) /\ Staging(t)
        BY <1>2, <1>3, <3>3 DEF TaskOK, Engaged, Staging
      <4>2. Recording(t)
        BY <3>3, <3>4 DEF Recording
      <4>3. UpToDate(t)
        <5>1. Snapshot.run = run /\ Snapshot.attempts = attempts
          BY DEF Snapshot
        <5> QED BY <1>2, <3>3, <4>2, <5>1 DEF TaskOK, Engaged, UpToDate, Undecided, Kept
      <4>4. InHand(t) = {worker[w].at}
            /\ Recorded(t) = Recorded(worker[w]) \cup {worker[w].at}
        <5>1. InHand(t) = {worker[w].at}
          BY <1>3, <3>3 DEF InHand
        <5>2. \A x : x \in Recorded(t) => x \in Recorded(worker[w]) \/ x = worker[w].at
          BY <3>3 DEF Recorded
        <5>3. \A x : x \in Recorded(worker[w]) => x \in Recorded(t)
          BY <3>3 DEF Recorded
        <5>4. worker[w].at \in Recorded(t)
          <6>1. <<worker[w].at, outcome>> \in t.results
            BY <3>3
          <6> QED BY <6>1 DEF Recorded
        <5> QED BY <5>1, <5>2, <5>3, <5>4
      <4>5. \A r \in t.results :
               IF r[1] = worker[w].at THEN r[2] = outcome
                                      ELSE attempts[r[1]] \in {r[2], "cancelled"}
        BY <1>4, <3>3, <3>5
      <4>6. Covering(t)
        BY <1>3, <1>4, <3>3, <4>2, <4>4, <4>5 DEF Covering
      <4> QED BY <4>1, <4>3, <4>6 DEF TaskOK
    <3>7. TaskOK(t)'
      BY <2>1, <3>6, SameRows DEF rows
    <3> QED BY <1>1, <2>1, <3>2, <3>3, <3>7, Goes DEF Resting, rows
  <2> QED BY <1>5, <2>2, <2>3, <2>4 DEF RecordOutcome, At, InSession
<1>6. CASE InSession(w, pc)
  <2> DEFINE rec == [new EXCEPT !.attempts[worker[w].at] = outcome]
  <2>1. worker[w].seen \in Snapshots /\ worker[w].seen # Nothing /\ Recording(worker[w])
    BY <1>3, <1>6, InSessionType DEF Typed, InSession, Recording
  <2>2. /\ new \in Snapshots
        /\ new.attempts = worker[w].seen.attempts
        /\ new.run.status = worker[w].seen.run.status
        /\ new.run.failure = worker[w].seen.run.failure
        /\ new.run.stage \in {worker[w].seen.run.stage} \cup PipelineStages
        /\ worker[w].seen.run.progress.done \subseteq new.run.progress.done
    BY <1>6
  <2>3. worker[w].at \in Present(attempts) /\ worker[w].at \in Attempts
    BY <1>4 DEF Present
  <2>4. /\ rec \in Snapshots /\ rec.run = new.run
        /\ rec.attempts = [worker[w].seen.attempts EXCEPT ![worker[w].at] = outcome]
    BY <1>3, <2>2 DEF Snapshots, AttemptRows, JobStatus
  <2>5. Kept(worker[w].seen.attempts, attempts)
    BY <1>2, <2>1 DEF TaskOK, UpToDate
  <2>6. /\ Commit(worker[w].seen, rec) /\ Goto(w, "next")
        /\ UNCHANGED <<report, issued, handler>>
    <3>1. CommitStep(w, rec, "next")
      BY <1>6 DEF RecordOutcome, At, InSession
    <3> QED BY <2>5, <3>1, NotStale DEF CommitStep
  <2> HIDE DEF rec
  <2>7. \A a \in Attempts :
           IF a = worker[w].at THEN attempts'[a] \in {outcome, "cancelled"}
                               ELSE attempts'[a] = attempts[a]
    <3>1. worker[w].seen.attempts \in AttemptRows
      BY <2>1 DEF Snapshots
    <3>2. \A a \in Attempts : attempts'[a] =
             IF rec.attempts[a] = worker[w].seen.attempts[a] THEN attempts[a] ELSE rec.attempts[a]
      BY <2>6 DEF Commit, FlushAttempts, Merge
    <3>3. \A a \in Attempts :
             rec.attempts[a] = IF a = worker[w].at THEN outcome ELSE worker[w].seen.attempts[a]
      BY <2>4, <3>1 DEF AttemptRows
    <3> QED BY <2>5, <3>2, <3>3 DEF Kept
  <2>8. Present(attempts') = Present(attempts)
    BY <1>3, <2>3, <2>7 DEF Present
  <2>9. /\ run.status = "running" => run' = new.run /\ run = worker[w].seen.run
        /\ run'.status = run.status /\ run'.failure = run.failure
    <3>1. run'.status = run.status /\ run'.failure = run.failure
      BY <2>2, <2>4, <2>6 DEF Commit, FlushRun, Merge
    <3>2. ASSUME run.status = "running" PROVE run' = new.run /\ run = worker[w].seen.run
      <4>1. worker[w].seen = Snapshot
        BY <1>2, <2>1, <3>2 DEF TaskOK, UpToDate
      <4>2. run' = rec.run
        BY <2>4, <2>6, <4>1, CommitFresh DEF Typed
      <4> QED BY <2>4, <4>1, <4>2 DEF Snapshot
    <3> QED BY <3>1, <3>2
  <2>10. PICK t : t = [worker[w] EXCEPT !.pc = "next", !.seen = Nothing]
    OBVIOUS
  <2>11. worker' = [worker EXCEPT ![w] = t]
    BY <1>1, <2>6, <2>10 DEF Goto
  <2>12. /\ t.pc = "next" /\ t.seen = Nothing /\ t.job = "repairs"
         /\ t.todo = worker[w].todo /\ t.results = worker[w].results
    BY <1>1, <1>3, <2>10 DEF WorkerStates
  <2>13. TaskOK(t)'
    <3>1. Engaged(t)'
      <4>1. "awaiting_strategy" \notin PipelineStages
        BY DEF PipelineStages
      <4> QED BY <1>2, <2>2, <2>6, <2>9, <2>12, <4>1
              DEF TaskOK, Engaged, Undecided, StepsOf
    <3>2. UpToDate(t)' /\ Staging(t)'
      BY <2>12 DEF UpToDate, Staging
    <3>3. InHand(t) = {} /\ Recorded(t) = Recorded(worker[w]) /\ ~Recording(t)
      BY <2>12 DEF InHand, HandSteps, Recorded, Recording
    <3>4. worker[w].at \in Recorded(worker[w])
      BY <1>4, <2>1 DEF Recorded
    <3>5. \A r \in t.results : attempts'[r[1]] \in {r[2], "cancelled"}
      <4> SUFFICES ASSUME NEW r \in t.results PROVE attempts'[r[1]] \in {r[2], "cancelled"}
        OBVIOUS
      <4>1. r \in worker[w].results /\ r[1] \in Attempts
        BY <1>1, <2>12 DEF WorkerStates, Results
      <4> QED BY <1>4, <2>7, <4>1
    <3>6. Covering(t)'
      <4>1. /\ t.todo \cup Recorded(t) = Present(attempts')
            /\ t.todo \cap Recorded(t) = {}
        BY <1>4, <2>8, <2>12, <3>3, <3>4
      <4>2. InHand(t)' = {} /\ Recorded(t)' = Recorded(t) /\ ~Recording(t)' /\ t.pc \notin LastSteps
        BY <2>12, <3>3 DEF InHand, Recorded, Recording, LastSteps
      <4> QED BY <3>5, <4>1, <4>2 DEF Covering
    <3> QED BY <3>1, <3>2, <3>6 DEF TaskOK
  <2> QED BY <1>1, <2>2, <2>6, <2>9, <2>11, <2>12, <2>13, Goes DEF Resting
<1> QED BY <1>5, <1>6 DEF RecordOutcome

\* The final session commits twice, and then the report of every attempt.
LEMMA FinalSessionSerial ==
    ASSUME Typed, Serial, NEW w \in Workers, Working(w),
           NEW finished \in SUBSET PipelineStages, FinalSession(w, finished)
    PROVE  Serial' /\ SerialStep
<1>1. CASE OpenSession(w, "reviewing", ~RunCancelled, "finally")
  BY <1>1, OpenSessionSerial DEF RunCancelled, Resting
<1>2. TaskOK(worker[w])
  BY DEF Serial
<1>3. ASSUME worker[w].pc \in LastSteps PROVE worker[w].job = "repairs"
  BY <1>2, <1>3 DEF TaskOK, Engaged, StepsOf, LastSteps, EarlySteps, LateSteps
<1>4. /\ "reviewing" \in PipelineStages /\ "reporting" \in PipelineStages
      /\ {"reviewing"} \in SUBSET PipelineStages /\ PipelineStages \in SUBSET PipelineStages
  BY DEF PipelineStages
<1>5. /\ Advances("repairs", "reviewing", finished, "reporting")
      /\ Advances("repairs", "reporting", {"reviewing"}, "saving")
  BY DEF Advances, Along, StepsOf, HandSteps, LastSteps
<1>6. CASE InSession(w, "reviewing") /\ CommitAndKeep(w, Staged(w, "reviewing", finished), "reporting")
  BY <1>3, <1>4, <1>5, <1>6, StagedKeepSerial DEF InSession, LastSteps
<1>7. CASE InSession(w, "reporting") /\ CommitAndKeep(w, Staged(w, "reporting", {"reviewing"}), "saving")
  BY <1>3, <1>4, <1>5, <1>7, StagedKeepSerial DEF InSession, LastSteps
<1>8. CASE InSession(w, "saving") /\ SaveReport(w, worker[w].seen.attempts, PipelineStages, "finally")
  <2>1. worker[w].seen \in Snapshots /\ worker[w].seen.attempts \in AttemptRows
    BY <1>8, InSessionType DEF Typed, Snapshots
  <2>2. /\ Recorded(worker[w]) = Present(attempts)
        /\ \A r \in worker[w].results : attempts[r[1]] \in {r[2], "cancelled"}
    <3>1. worker[w].pc = "saving" /\ worker[w].job = "repairs"
      BY <1>3, <1>8 DEF InSession, LastSteps
    <3> QED BY <1>2, <3>1 DEF TaskOK, Covering, InHand, HandSteps, LastSteps
  <2>3. (/\ attempts' = FlushAttempts(worker[w].seen.attempts, worker[w].seen.attempts)
         /\ report' = [results |-> worker[w].results])
           => ReportCoversAttempts'
    <3> SUFFICES ASSUME attempts' = FlushAttempts(worker[w].seen.attempts, worker[w].seen.attempts),
                        report' = [results |-> worker[w].results]
                 PROVE  ReportCoversAttempts'
      OBVIOUS
    <3>1. attempts' = attempts
      BY DEF FlushAttempts, Merge, Typed, Rows, AttemptRows
    <3>2. report'.results = worker[w].results
      OBVIOUS
    <3> QED BY <2>2, <3>1, <3>2 DEF ReportCoversAttempts, Recorded
  <2>4. "finally" \in Resting
    BY DEF Resting
  <2> QED BY <1>8, <2>1, <2>3, <2>4, SaveReportSerial
<1> QED BY <1>1, <1>6, <1>7, <1>8 DEF FinalSession

\* The row that records a repaired attempt, by its columns.
LEMMA RecordedColumns ==
    ASSUME Tasks, NEW w \in Workers, NEW pc, InSession(w, pc)
    PROVE  LET new == Staged(w, "repaired_scanning", {"repaired_scanning"}) IN
           /\ new \in Snapshots
           /\ new.attempts = worker[w].seen.attempts
           /\ new.run.status = worker[w].seen.run.status
           /\ new.run.failure = worker[w].seen.run.failure
           /\ new.run.stage \in {worker[w].seen.run.stage} \cup PipelineStages
           /\ worker[w].seen.run.progress.done \subseteq new.run.progress.done
<1>1. worker[w].seen \in Snapshots
  BY InSessionType
<1>2. PICK stage, finished : stage = "repaired_scanning" /\ finished = {"repaired_scanning"}
  OBVIOUS
<1>3. stage \in Stages /\ stage \in PipelineStages /\ finished \in SUBSET PipelineStages
  BY <1>2 DEF Stages, PipelineStages
<1>4. Staged(w, stage, finished) \in Snapshots
  BY <1>1, <1>3, StagedType
<1> QED BY <1>1, <1>2, <1>3, <1>4, StagedColumns

\* A baseline without a finding drops the attempts and reports none.
LEMMA CleanReportSerial ==
    ASSUME Typed, Serial, NEW w \in Workers, Working(w), InSession(w, "clean"),
           NEW stagesDone, SaveReport(w, RowsOf({}, "absent"), stagesDone, "finally")
    PROVE  Serial' /\ SerialStep
<1>1. /\ worker[w].seen \in Snapshots /\ worker[w].seen # Nothing
      /\ worker[w].pc = "clean"
  BY InSessionType DEF Typed, InSession
<1>2. TaskOK(worker[w])
  BY DEF Serial
<1>3. worker[w].job = "baseline"
  BY <1>1, <1>2 DEF TaskOK, Engaged, StepsOf, HandSteps, LastSteps
<1>4. worker[w].results = {} /\ Kept(worker[w].seen.attempts, attempts)
  BY <1>1, <1>2, <1>3 DEF TaskOK, Staging, UpToDate
<1>5. RowsOf({}, "absent") \in AttemptRows
  BY RowsOfType
<1>6. ASSUME attempts' = FlushAttempts(worker[w].seen.attempts, RowsOf({}, "absent")),
             report' = [results |-> worker[w].results]
      PROVE  ReportCoversAttempts'
  <2>1. \A a \in Attempts : attempts'[a] = "absent"
    BY <1>4, <1>6 DEF FlushAttempts, Merge, RowsOf, Kept
  <2>2. Present(attempts') = {} /\ report'.results = {}
    BY <1>4, <1>6, <2>1 DEF Present
  <2> QED BY <2>2 DEF ReportCoversAttempts, Present
<1>7. "clean" \notin {"record", "mark_failed"} /\ "finally" \in Resting
  BY DEF Resting
<1> QED BY <1>5, <1>6, <1>7, SaveReportSerial

\* Which task a step belongs to.
LEMMA JobOfStep ==
    ASSUME Serial, NEW w \in Workers, Working(w)
    PROVE  /\ worker[w].job \in {"baseline", "repairs"}
           /\ worker[w].pc \in {"load", "generate", "smoke", "testing", "pytest", "scanning",
                               "bandit", "semgrep", "clean", "awaiting"}
                => worker[w].job = "baseline"
           /\ worker[w].pc \in {"repairing", "repair", "mark_failed", "repaired_testing",
                               "repaired_pytest", "repaired_smoke", "repaired_scanning",
                               "repaired_bandit", "repaired_semgrep", "record"}
                => worker[w].job = "repairs"
BY DEF Serial, TaskOK, Engaged, StepsOf, EarlySteps, LateSteps, HandSteps, LastSteps

\* The literals the sessions of every mode pass.
LEMMA SerialLiterals ==
    /\ {"idle", "finally"} \subseteq Resting
    /\ {"baseline_testing", "baseline_scanning", "repaired_testing", "repaired_scanning"}
         \subseteq PipelineStages
    /\ {} \in SUBSET PipelineStages /\ {"baseline_testing"} \in SUBSET PipelineStages
    /\ {"repairing"} \in SUBSET PipelineStages /\ {"repaired_testing"} \in SUBSET PipelineStages
    /\ {"repaired_scanning"} \in SUBSET PipelineStages
    /\ \A w : ExceptionCode(w) # "none"
BY DEF Resting, PipelineStages, ExceptionCode

-----------------------------------------------------------------------------
(* The endpoints in the serial regime.                                      *)

\* A request arrives only when no other is being served, and reads the rows.
LEMMA ReceiveSerial ==
    ASSUME MaxOverlaps = 0, Typed, Serial, NEW h \in Handlers,
           NEW pc \in {"start", "configure", "cancel", "cleanup"}, NEW count,
           pc = "start" => run.status = "queued",
           pc = "configure" => run.status = "running" /\ run.stage = "awaiting_strategy",
           pc = "cancel" => run.status \in {"queued", "running"},
           Receive(h, pc, count)
    PROVE  Serial' /\ SerialStep
<1>1. \A g \in Handlers : handler[g].pc = "idle"
  BY DEF Receive, Typed, Others
<1>2. /\ handler' = [handler EXCEPT ![h] = [pc |-> pc, seen |-> Snapshot, count |-> count]]
      /\ UNCHANGED <<run, attempts, report, issued, worker, crashes>>
  BY DEF Receive, rows
<1>3. /\ \A g \in Handlers : g # h => handler'[g] = handler[g]
      /\ handler'[h].pc = pc /\ handler'[h].seen = Snapshot
  BY <1>2 DEF Typed, Requests
<1>4. OneRequest'
  BY <1>1, <1>3 DEF OneRequest
<1>5. \A g \in Handlers : Asked(g)'
  <2>1. \A g \in Handlers : g # h => Asked(g)'
    BY <1>1, <1>3 DEF Asked
  <2>2. Asked(h)'
    <3>1. Snapshot' = Snapshot /\ Snapshot.run = run
      BY <1>2 DEF Snapshot
    <3> QED BY <1>2, <1>3, <3>1 DEF Asked
  <2> QED BY <2>1, <2>2
<1> QED BY <1>2, <1>4, <1>5, Idles DEF Working

\* Once a request has answered, nobody is being served.
LEMMA AnswerSerial ==
    ASSUME Serial, NEW h \in Handlers, handler[h].pc # "idle",
           \A g \in Handlers : g # h => handler'[g] = handler[g],
           handler'[h].pc \in {"idle", "cleanup"}
    PROVE  OneRequest' /\ \A g \in Handlers : Asked(g)'
<1>1. \A g \in Handlers : g # h => handler'[g].pc = "idle"
  BY DEF Serial, OneRequest
<1> QED BY <1>1 DEF OneRequest, Asked

\* A task is scheduled on a run nobody works on.
LEMMA SpawnSerial ==
    ASSUME Typed, Serial, \A v \in Workers : ~Working(v),
           OneRequest', \A g \in Handlers : Asked(g)',
           NEW w \in Workers, NEW job \in {"baseline", "repairs"}, Spawn(w, job),
           UNCHANGED report, Undecided', run'.status = "running",
           run'.stage # "awaiting_strategy",
           job = "baseline" => issued' = 0 /\ run'.progress.done = {}
    PROVE  Serial'
<1>1. worker \in [Workers -> WorkerStates]
  BY DEF Typed, Tasks
<1>2. PICK t : t = [IdleWorker EXCEPT !.pc = "admit", !.job = job]
  OBVIOUS
<1>3. worker'[w] = t /\ \A v \in Workers : v # w => worker'[v] = worker[v]
  BY <1>1, <1>2 DEF Spawn
<1>4. t.pc = "admit" /\ t.job = job /\ t.seen = Nothing /\ t.results = {}
  BY <1>2 DEF IdleWorker
<1>5. TaskOK(t)'
  <2>1. Engaged(t)'
    BY <1>4 DEF Engaged, StepsOf
  <2>2. UpToDate(t)' /\ Staging(t)' /\ Covering(t)'
    BY <1>4 DEF UpToDate, Staging, Covering, Finished, LateSteps
  <2> QED BY <2>1, <2>2 DEF TaskOK
<1>6. \A v \in Workers : Working(v)' => v = w
  BY <1>3 DEF Working
<1>7. Working(w)'
  BY <1>3, <1>4 DEF Working
<1>8. \A v \in Workers : Working(v)' => TaskOK(worker[v])'
  <2>1. \A v \in Workers : Working(v)' => worker'[v] = t
    BY <1>3, <1>6
  <2> QED BY <1>5, <2>1 DEF TaskOK, Engaged, UpToDate, Staging, Covering, Recording, InHand,
                            Recorded, Snapshot, Undecided
<1> QED BY <1>6, <1>7, <1>8 DEF Serial, OneTaskAtATime, Undecided, AwaitingIsReady,
           RunningIsOwned, ReportCoversAttempts

\* start_run starts a run that is still queued.
LEMMA StartCommitSerial ==
    ASSUME Typed, Serial, NEW h \in Handlers, StartCommit(h)
    PROVE  Serial' /\ SerialStep
<1> DEFINE new == Started(handler[h].seen)
<1>1. /\ run.status = "queued" /\ handler[h].seen = Snapshot
      /\ \A v \in Workers : ~Working(v)
      /\ issued = 0 /\ Undecided
  BY DEF Serial, Asked, StartCommit
<1>2. handler[h].seen \in Snapshots /\ handler[h].seen.attempts = attempts
      /\ handler[h].seen.run = run
  BY <1>1, SnapshotType DEF Typed, Snapshot
<1>3. new \in Snapshots
  BY <1>2, StartedType
<1>4. /\ new.run.status = "running" /\ new.run.stage = "baseline_testing"
      /\ new.run.progress.done = {} /\ new.run.failure = run.failure
  BY <1>2 DEF Started, Snapshots, RunRow
<1>5. Kept(handler[h].seen.attempts, attempts)
  BY <1>2 DEF Kept
<1>6. /\ Commit(handler[h].seen, new) /\ UNCHANGED <<report, issued>>
      /\ \E w \in Workers : Spawn(w, "baseline")
      /\ Answer(h)
  BY <1>5, NotStale DEF StartCommit
<1> HIDE DEF new
<1>7. run' = new.run
  BY <1>1, <1>3, <1>6, CommitFresh DEF Typed
<1>8. Undecided'
  BY <1>1, <1>4, <1>6, <1>7 DEF Undecided
<1>9. OneRequest' /\ \A g \in Handlers : Asked(g)'
  <2>1. handler' = [handler EXCEPT ![h] = IdleHandler] /\ IdleHandler.pc = "idle"
    BY <1>6 DEF Answer, IdleHandler
  <2>2. /\ \A g \in Handlers : g # h => handler'[g] = handler[g]
        /\ handler'[h].pc = "idle" /\ handler[h].pc # "idle"
    BY <2>1 DEF StartCommit, Typed, Requests
  <2> QED BY <2>2, AnswerSerial
<1>10. Serial'
  BY <1>1, <1>4, <1>6, <1>7, <1>8, <1>9, SpawnSerial
<1>11. SerialStep
  <2>1. Decided = "none" /\ Decided' = "none"
    BY <1>1, <1>8 DEF Decided, Undecided
  <2> QED BY <1>1, <1>4, <1>7, <2>1 DEF SerialStep, VerdictStep, Verdict!Next, Verdict!Start
<1> QED BY <1>10, <1>11

\* configure_strategies schedules the repairs of a run that awaits them.
LEMMA ConfigureCommitSerial ==
    ASSUME Typed, Serial, NEW h \in Handlers, ConfigureCommit(h)
    PROVE  Serial' /\ SerialStep
<1> DEFINE new == Configured(handler[h].seen, issued + 1, handler[h].count)
<1>1. /\ run.status = "running" /\ run.stage = "awaiting_strategy"
      /\ handler[h].seen = Snapshot /\ Undecided
      /\ \A v \in Workers : ~Working(v)
  BY DEF Serial, Asked, ConfigureCommit, AwaitingIsReady
<1>2. handler[h].seen \in Snapshots /\ handler[h].seen.run = run
  BY <1>1, SnapshotType DEF Typed, Snapshot
<1>3. issued + 1 \in 1..MaxBatches /\ handler[h].count \in 0..MaxStrategies
  BY StoreAssumption DEF ConfigureCommit, Typed, Others, Requests, HandlerStates
<1>4. new \in Snapshots
  BY <1>2, <1>3, ConfiguredType
<1>5. /\ new.run.status = "running" /\ new.run.stage = "repairing"
      /\ new.run.progress.done = run.progress.done /\ new.run.failure = run.failure
  BY <1>1, <1>2 DEF Configured, Snapshots, RunRow, Progress
<1>6. /\ Commit(handler[h].seen, new) /\ UNCHANGED report
      /\ \E w \in Workers : Spawn(w, "repairs")
      /\ Answer(h)
  BY DEF ConfigureCommit
<1> HIDE DEF new
<1>7. run' = new.run
  BY <1>1, <1>4, <1>6, CommitFresh DEF Typed
<1>8. Undecided'
  BY <1>1, <1>5, <1>6, <1>7 DEF Undecided
<1>9. OneRequest' /\ \A g \in Handlers : Asked(g)'
  <2>1. handler' = [handler EXCEPT ![h] = IdleHandler] /\ IdleHandler.pc = "idle"
    BY <1>6 DEF Answer, IdleHandler
  <2>2. /\ \A g \in Handlers : g # h => handler'[g] = handler[g]
        /\ handler'[h].pc = "idle" /\ handler[h].pc # "idle"
    BY <2>1 DEF ConfigureCommit, Typed, Requests
  <2> QED BY <2>2, AnswerSerial
<1>10. Serial'
  BY <1>1, <1>5, <1>6, <1>7, <1>8, <1>9, SpawnSerial
<1>11. SerialStep
  <2>1. Decided = "none" /\ Decided' = "none"
    BY <1>1, <1>8 DEF Decided, Undecided
  <2> QED BY <1>1, <1>5, <1>7, <2>1 DEF SerialStep, VerdictStep
<1> QED BY <1>10, <1>11

\* cancel_run withdraws the run under whoever works on it: no attempt
\* disappears, and every session that is open has read a run without a verdict.
LEMMA CancelCommitSerial ==
    ASSUME Typed, Serial, NEW h \in Handlers, CancelCommit(h)
    PROVE  Serial' /\ SerialStep
<1> DEFINE seen == handler[h].seen
           new == Cancelled(seen)
<1>1. handler[h].pc = "cancel" /\ seen \in Snapshots /\ seen.run.status \in {"queued", "running"}
  BY DEF CancelCommit, Serial, Asked, Typed, Requests, Holding
<1>2. UNCHANGED <<report, issued, worker, crashes>>
  <2>1. UNCHANGED <<issued, worker, bounds>>
    BY DEF CancelCommit
  <2>2. UNCHANGED report
    BY DEF CancelCommit, rows
  <2> QED BY <2>1, <2>2 DEF bounds
<1>3. /\ \A g \in Handlers : g # h => handler'[g] = handler[g]
      /\ handler'[h].pc \in {"idle", "cleanup"}
  <2>1. PICK r \in {IdleHandler, [IdleHandler EXCEPT !.pc = "cleanup"]} :
           handler' = [handler EXCEPT ![h] = r]
    BY DEF CancelCommit, Answer
  <2>2. r.pc \in {"idle", "cleanup"}
    BY DEF IdleHandler
  <2> QED BY <2>1, <2>2 DEF Typed, Requests
<1>4. OneRequest' /\ \A g \in Handlers : Asked(g)'
  BY <1>1, <1>3, AnswerSerial
<1>5. \A v \in Workers : (Working(v)' <=> Working(v)) /\ worker'[v] = worker[v]
  BY <1>2 DEF Working
<1>6. CASE UNCHANGED rows
  BY <1>2, <1>4, <1>5, <1>6, Idles DEF rows
<1>7. CASE ~StaleData(seen.attempts, new.attempts) /\ Commit(seen, new)
  <2>1. new.run.status = "cancelled" /\ new.run.failure = seen.run.failure
    BY <1>1 DEF Cancelled, Snapshots, RunRow
  <2>2. run'.status = "cancelled" /\ run'.failure = run.failure
    BY <1>1, <1>7, <2>1 DEF Commit, FlushRun, Merge
  <2>3. \A a \in Attempts :
           new.attempts[a] = IF seen.attempts[a] \in {"queued", "running"} THEN "cancelled"
                             ELSE seen.attempts[a]
    BY DEF Cancelled
  <2>4. \A a \in Attempts :
           attempts'[a] = IF new.attempts[a] = seen.attempts[a] THEN attempts[a]
                          ELSE new.attempts[a]
    BY <1>7 DEF Commit, FlushAttempts, Merge
  <2> HIDE DEF seen, new
  <2>5. Kept(attempts, attempts')
    BY <1>7, <2>3, <2>4 DEF Kept, StaleData
  <2>6. Present(attempts') = Present(attempts)
    BY <2>5 DEF Present, Kept
  <2>7. \A v \in Workers : Working(v)' => TaskOK(worker[v])'
    <3> SUFFICES ASSUME NEW v \in Workers, Working(v)' PROVE TaskOK(worker[v])'
      OBVIOUS
    <3>1. PICK t : t = worker[v]
      OBVIOUS
    <3>2. TaskOK(t) /\ t \in WorkerStates
      BY <1>5, <3>1 DEF Serial, Typed, Tasks
    <3>3. TaskOK(t)'
      <4>1. Engaged(t)' /\ Staging(t)'
        BY <1>2, <2>2, <3>2 DEF TaskOK, Engaged, Staging, Undecided
      <4>2. UpToDate(t)'
        BY <2>2, <2>5, <3>2 DEF TaskOK, UpToDate, Kept, Recording
      <4>3. Covering(t)'
        <5>1. \A r \in t.results : r[1] \in Attempts
          BY <3>2 DEF WorkerStates, Results
        <5> QED BY <2>5, <2>6, <3>2, <5>1 DEF TaskOK, Covering, Kept, Recording, InHand, Recorded
      <4> QED BY <4>1, <4>2, <4>3 DEF TaskOK
    <3> QED BY <1>5, <3>1, <3>3
  <2>8. ReportCoversAttempts'
    <3> SUFFICES ASSUME report # Nothing PROVE ReportCoversAttempts'
      BY <1>2 DEF ReportCoversAttempts
    <3>1. \A r \in report.results : r[1] \in Attempts
      BY DEF Typed, Rows, ReportRow, Results
    <3> QED BY <1>2, <2>5, <2>6, <3>1 DEF Serial, ReportCoversAttempts, Kept
  <2>9. Serial'
    BY <1>2, <1>4, <1>5, <2>2, <2>7, <2>8
       DEF Serial, OneTaskAtATime, AwaitingIsReady, RunningIsOwned
  <2>10. SerialStep
    <3>1. Decided' = Decided
      BY <1>2, <2>2 DEF Decided
    <3> QED BY <2>2, <3>1 DEF SerialStep, VerdictStep, Verdict!Next, Verdict!Withdraw
  <2> QED BY <2>9, <2>10
<1> QED BY <1>6, <1>7 DEF CancelCommit

\* The second half of a cancellation removes a directory only.
LEMMA CancelCleanupSerial ==
    ASSUME Typed, Serial, NEW h \in Handlers, CancelCleanup(h)
    PROVE  Serial' /\ SerialStep
<1>1. OneRequest' /\ \A g \in Handlers : Asked(g)'
  <2>1. handler' = [handler EXCEPT ![h] = IdleHandler] /\ IdleHandler.pc = "idle"
    BY DEF CancelCleanup, Answer, IdleHandler
  <2>2. /\ \A g \in Handlers : g # h => handler'[g] = handler[g]
        /\ handler'[h].pc = "idle" /\ handler[h].pc # "idle"
    BY <2>1 DEF CancelCleanup, Typed, Requests
  <2> QED BY <2>2, AnswerSerial
<1>2. UNCHANGED <<run, attempts, report, issued, worker, crashes>>
  BY DEF CancelCleanup, rows, bounds
<1> QED BY <1>1, <1>2, Idles DEF Working

\* Every step of a request.
LEMMA HandlerSerial ==
    ASSUME MaxOverlaps = 0, Typed, Serial, HandlerNext PROVE Serial' /\ SerialStep
<1>1. PICK h \in Handlers : StartRead(h) \/ ConfigureRead(h) \/ CancelRead(h) \/ HandlerStep(h)
  BY DEF HandlerNext
<1>2. CASE StartRead(h)
  BY <1>2, ReceiveSerial DEF StartRead
<1>3. CASE ConfigureRead(h)
  BY <1>3, ReceiveSerial DEF ConfigureRead
<1>4. CASE CancelRead(h)
  BY <1>4, ReceiveSerial DEF CancelRead
<1>5. CASE HandlerStep(h)
  BY <1>5, StartCommitSerial, ConfigureCommitSerial, CancelCommitSerial, CancelCleanupSerial
     DEF HandlerStep
<1> QED BY <1>1, <1>2, <1>3, <1>4, <1>5

\* A restart leaves no task and no request.
LEMMA CrashSerial == ASSUME Typed, Serial, Crash PROVE Serial' /\ SerialStep
<1>1. /\ \A w \in Workers : ~Working(w)'
      /\ \A h \in Handlers : handler'[h].pc = "idle"
  BY DEF Crash, Working, IdleWorker, IdleHandler
<1>2. UNCHANGED <<run, attempts, report, issued>> /\ crashes' # 0
  BY DEF Crash, rows, Typed, Others
<1>3. Serial'
  BY <1>1, <1>2 DEF Serial, OneTaskAtATime, OneRequest, Asked, Undecided, AwaitingIsReady,
     RunningIsOwned, ReportCoversAttempts
<1> QED BY <1>2, <1>3 DEF SerialStep, VerdictStep, Decided

\* Nothing happens.
LEMMA StutterSerial == ASSUME Serial, UNCHANGED vars PROVE Serial' /\ SerialStep
<1>1. UNCHANGED <<run, attempts, report, issued, crashes, worker, handler>>
  BY DEF vars, rows, bounds
<1>2. OneRequest' /\ \A h \in Handlers : Asked(h)'
  BY <1>1 DEF Serial, OneRequest, Asked, Snapshot
<1> QED BY <1>1, <1>2, Idles DEF Working

\* A run is created queued, with nobody at work on it.
LEMMA InitSerial == Init => Serial /\ Verdict!Init
<1> SUFFICES ASSUME Init PROVE Serial /\ Verdict!Init
  OBVIOUS
<1>1. /\ run.status = "queued" /\ run.failure = "none" /\ report = Nothing /\ issued = 0
      /\ \A w \in Workers : ~Working(w)
      /\ \A h \in Handlers : handler[h].pc = "idle"
  BY DEF Init, Created, Working, IdleWorker, IdleHandler
<1>2. Serial
  BY <1>1 DEF Serial, OneTaskAtATime, OneRequest, Asked, Undecided, AwaitingIsReady,
     RunningIsOwned, ReportCoversAttempts
<1>3. Verdict!Init
  BY <1>1 DEF Verdict!Init, Decided
<1> QED BY <1>2, <1>3

-----------------------------------------------------------------------------
(* Where a step leaves its task, and what it costs.                         *)

\* No other task moves.
Alone(w) == \A v \in Workers \ {w} : worker'[v] = worker[v]

\* A task is left at one of these steps, with no session open.
Lands(w, steps) ==
    /\ Alone(w)
    /\ worker'[w].pc \in steps
    /\ worker'[w].seen = Nothing
    /\ worker'[w].pc # "idle" => worker'[w].job = worker[w].job

\* A task goes where it is told to.
LEMMA GotoLands == ASSUME Tasks, NEW w \in Workers, NEW p, Goto(w, p) PROVE Lands(w, {p})
BY DEF Goto, Lands, Alone, Tasks, WorkerStates, IdleWorker

\* A task that fails says so.
LEMMA FailLands ==
    ASSUME Tasks, NEW w \in Workers, NEW c, FailWith(w, c) PROVE Lands(w, {"fail"})
BY DEF FailWith, Lands, Alone, Tasks, WorkerStates

\* A tool call is the one step that can cost a cancelled run anything.
LEMMA ToolLands ==
    ASSUME Tasks, NEW w \in Workers, NEW pc, NEW next, NEW codes, ToolCall(w, pc, next, codes)
    PROVE  /\ At(w, pc)
           /\ Lands(w, next \cup {"fail"})
           /\ overrun' = overrun + (IF RunCancelled THEN 1 ELSE 0)
           /\ UNCHANGED run
<1>1. ASSUME NEW p \in next, Goto(w, p) PROVE Lands(w, next \cup {"fail"})
  BY <1>1, GotoLands DEF Lands
<1>2. ASSUME NEW c \in codes, FailWith(w, c) PROVE Lands(w, next \cup {"fail"})
  BY <1>2, FailLands DEF Lands
<1> QED BY <1>1, <1>2 DEF ToolCall, rows

\* A directory that is filled costs nothing.
LEMMA FillLands ==
    ASSUME Tasks, NEW w \in Workers, NEW pc, NEW dir, NEW source, NEW next, NEW codes,
           FillDirectory(w, pc, dir, source, next, codes)
    PROVE  At(w, pc) /\ Lands(w, next \cup {"fail"}) /\ UNCHANGED <<overrun, run>>
<1>1. ASSUME NEW p \in next, Goto(w, p) PROVE Lands(w, next \cup {"fail"})
  BY <1>1, GotoLands DEF Lands
<1>2. ASSUME NEW c \in codes, FailWith(w, c) PROVE Lands(w, next \cup {"fail"})
  BY <1>2, FailLands DEF Lands
<1> QED BY <1>1, <1>2 DEF FillDirectory, rows

\* A session opens where the task stands, or the task leaves.
LEMMA OpenLands ==
    ASSUME Tasks, NEW w \in Workers, NEW pc, NEW ok \in BOOLEAN, NEW exit,
           OpenSession(w, pc, ok, exit)
    PROVE  /\ At(w, pc)
           /\ Alone(w)
           /\ UNCHANGED <<overrun, run>>
           /\ \/ ok /\ worker'[w].pc = pc /\ worker'[w].job = worker[w].job
              \/ ~ok /\ Lands(w, {exit})
<1>1. CASE ok
  BY <1>1 DEF OpenSession, At, Alone, Tasks, WorkerStates, rows
<1>2. CASE ~ok
  BY <1>2, GotoLands DEF OpenSession, Lands, rows
<1> QED BY <1>1, <1>2

\* The commit that ends a session.
LEMMA CommitLands ==
    ASSUME Tasks, NEW w \in Workers, NEW new, NEW q, CommitStep(w, new, q)
    PROVE  Lands(w, {q, "fail"}) /\ UNCHANGED overrun
<1>1. CASE Raise(w)
  BY <1>1, FailLands DEF Raise, Lands, CommitStep
<1>2. CASE Goto(w, q)
  BY <1>2, GotoLands DEF Lands, CommitStep
<1> QED BY <1>1, <1>2 DEF CommitStep

\* A commit in the middle of a session.
LEMMA KeepLands ==
    ASSUME Tasks, NEW w \in Workers, NEW new, NEW q, CommitAndKeep(w, new, q)
    PROVE  /\ worker'[w].pc = q /\ worker'[w].job = worker[w].job
           /\ Alone(w)
           /\ UNCHANGED overrun
BY DEF CommitAndKeep, Alone, Tasks, WorkerStates

\* A session that asks, and then commits.
LEMMA StageLands ==
    ASSUME Tasks, NEW w \in Workers, NEW pc, NEW new, NEW q, NEW exit,
           StageSession(w, pc, new, q, exit)
    PROVE  /\ worker[w].pc = pc
           /\ Alone(w)
           /\ UNCHANGED overrun
           /\ \/ /\ At(w, pc) /\ ~RunCancelled /\ worker'[w].pc = pc
                 /\ worker'[w].job = worker[w].job /\ UNCHANGED run
              \/ At(w, pc) /\ Lands(w, {exit})
              \/ InSession(w, pc) /\ Lands(w, {q, "fail"})
<1>1. CASE OpenSession(w, pc, ~RunCancelled, exit)
  BY <1>1, OpenLands DEF At, Lands
<1>2. CASE InSession(w, pc) /\ CommitStep(w, new, q)
  BY <1>2, CommitLands DEF InSession, Lands
<1> QED BY <1>1, <1>2 DEF StageSession

\* The report is saved, or the insertion fails.
LEMMA SaveLands ==
    ASSUME Tasks, NEW w \in Workers, NEW kept, NEW stagesDone, NEW exit,
           SaveReport(w, kept, stagesDone, exit)
    PROVE  Lands(w, {exit, "fail"}) /\ UNCHANGED overrun
<1>1. CASE Raise(w)
  BY <1>1, FailLands DEF Raise, Lands, SaveReport
<1>2. CASE Goto(w, exit)
  BY <1>2, GotoLands DEF Lands, SaveReport
<1> QED BY <1>1, <1>2 DEF SaveReport

\* The outcome of an attempt is recorded, or the task leaves.
LEMMA RecordLands ==
    ASSUME Tasks, NEW w \in Workers, NEW pc, NEW ok \in BOOLEAN, NEW outcome, NEW new,
           RecordOutcome(w, pc, ok, outcome, new)
    PROVE  /\ worker[w].pc = pc
           /\ worker'[w].pc \in {pc, "finally", "fail", "next"}
           /\ Alone(w)
           /\ UNCHANGED overrun
<1>1. worker[w].pc = pc /\ UNCHANGED overrun
  BY DEF RecordOutcome, At, InSession, CommitStep
<1>2. CASE Goto(w, "finally")
  BY <1>1, <1>2, GotoLands DEF Lands
<1>3. CASE Raise(w)
  BY <1>1, <1>3, FailLands DEF Raise, Lands
<1>4. CASE worker' = [worker EXCEPT ![w].seen = Snapshot,
                        ![w].results = @ \cup {<<worker[w].at, outcome>>}]
  BY <1>1, <1>4 DEF Tasks, Alone, WorkerStates
<1>5. CASE InSession(w, pc) /\ CommitStep(w, [new EXCEPT !.attempts[worker[w].at] = outcome], "next")
  BY <1>1, <1>5, CommitLands DEF Lands
<1> QED BY <1>2, <1>3, <1>4, <1>5 DEF RecordOutcome

\* The final session goes through its three commits.
LEMMA FinalLands ==
    ASSUME Tasks, NEW w \in Workers, NEW finished, FinalSession(w, finished)
    PROVE  /\ worker[w].pc \in {"reviewing", "reporting", "saving"}
           /\ worker'[w].pc \in {"reviewing", "reporting", "saving", "finally", "fail"}
           /\ Alone(w)
           /\ UNCHANGED overrun
<1>1. CASE OpenSession(w, "reviewing", ~RunCancelled, "finally")
  BY <1>1, OpenLands DEF At, Lands
<1>2. CASE InSession(w, "reviewing") /\ CommitAndKeep(w, Staged(w, "reviewing", finished), "reporting")
  BY <1>2, KeepLands DEF InSession
<1>3. CASE InSession(w, "reporting") /\ CommitAndKeep(w, Staged(w, "reporting", {"reviewing"}), "saving")
  BY <1>3, KeepLands DEF InSession
<1>4. CASE InSession(w, "saving") /\ SaveReport(w, worker[w].seen.attempts, PipelineStages, "finally")
  BY <1>4, SaveLands DEF InSession, Lands
<1> QED BY <1>1, <1>2, <1>3, <1>4 DEF FinalSession

\* fail_run leaves the task failing or at its exit.
LEMMA FailRunLands ==
    ASSUME Tasks, NEW w \in Workers, NEW exit, FailRun(w, exit)
    PROVE  /\ worker[w].pc = "fail"
           /\ worker'[w].pc \in {"fail", exit}
           /\ Alone(w)
           /\ UNCHANGED <<overrun, workdir, issued>>
<1>1. CASE OpenSession(w, "fail", ~RunCancelled, exit)
  BY <1>1, OpenLands DEF At, Lands, OpenSession
<1>2. CASE InSession(w, "fail") /\ Goto(w, exit)
  BY <1>2, GotoLands DEF InSession, Lands, FailRun, OpenSession, At
<1>3. CASE InSession(w, "fail") /\ Raise(w)
  BY <1>3, FailLands DEF InSession, Raise, Lands, FailRun, OpenSession, At
<1> QED BY <1>1, <1>2, <1>3 DEF FailRun

\* The first session of a repair task.
LEMMA AdmitRepairsLands ==
    ASSUME Tasks, NEW w \in Workers, AdmitRepairs(w)
    PROVE  /\ worker[w].pc = "admit"
           /\ worker'[w].pc \in {"finally", "fail", "next"}
           /\ Alone(w)
           /\ UNCHANGED overrun
<1>1. CASE Goto(w, "finally")
  BY <1>1, GotoLands DEF Lands, AdmitRepairs, At
<1>2. CASE Raise(w)
  BY <1>2, FailLands DEF Raise, Lands, AdmitRepairs, At
<1>3. CASE worker' = [worker EXCEPT ![w].pc = "next", ![w].todo = Present(attempts)]
  BY <1>3 DEF AdmitRepairs, At, Alone, Tasks, WorkerStates
<1> QED BY <1>1, <1>2, <1>3 DEF AdmitRepairs

\* The loop over the attempts opens no session of its own.
LEMMA NextAttemptLands ==
    ASSUME Tasks, NEW w \in Workers, NextAttempt(w)
    PROVE  /\ worker[w].pc = "next"
           /\ worker'[w].pc \in {"reviewing", "repairing"}
           /\ worker'[w].seen = Nothing
           /\ Alone(w)
           /\ UNCHANGED overrun
<1>1. CASE Goto(w, "reviewing")
  BY <1>1, GotoLands DEF Lands, NextAttempt, At
<1>2. ASSUME NEW a, worker' = [worker EXCEPT ![w].pc = "repairing", ![w].at = a,
                                 ![w].todo = @ \ {a}]
      PROVE  worker'[w].pc = "repairing" /\ worker'[w].seen = worker[w].seen /\ Alone(w)
  BY <1>2 DEF Alone, Tasks, WorkerStates
<1> QED BY <1>1, <1>2 DEF NextAttempt, At

\* A "finally" costs nothing, and its task works no more.
LEMMA FinallyRests ==
    ASSUME Tasks, NEW w \in Workers, FinallyCleanup(w)
    PROVE  /\ UNCHANGED <<run, overrun>>
           /\ \A v \in Workers : worker'[v] = worker[v] \/ ~Working(v)'
<1>1. \E p \in {"cleanup", "idle"} : Goto(w, p)
  BY DEF FinallyCleanup
<1>2. Lands(w, {"cleanup", "idle"})
  BY <1>1, GotoLands DEF Lands
<1> QED BY <1>2 DEF FinallyCleanup, Lands, Alone, Working, rows

\* A request costs a cancelled run nothing: it schedules a task or leaves the
\* tasks alone.
LEMMA HandlerSpares ==
    ASSUME Typed, HandlerNext
    PROVE  /\ UNCHANGED overrun
           /\ \A v \in Workers : \/ worker'[v] = worker[v]
                                 \/ worker[v].pc = "idle" /\ worker'[v].pc = "admit"
           /\ issued' # issued => \E v \in Workers : worker'[v].pc = "admit"
<1>1. ASSUME NEW w \in Workers, NEW job, Spawn(w, job)
      PROVE  /\ \A v \in Workers : \/ worker'[v] = worker[v]
                                   \/ worker[v].pc = "idle" /\ worker'[v].pc = "admit"
             /\ worker'[w].pc = "admit"
  BY <1>1 DEF Spawn, Typed, Tasks, IdleWorker
<1>2. PICK h \in Handlers : \/ StartRead(h) \/ ConfigureRead(h) \/ CancelRead(h)
                            \/ HandlerStep(h)
  BY DEF HandlerNext
<1>3. CASE StartCommit(h)
  BY <1>1, <1>3 DEF StartCommit, bounds
<1>4. CASE ConfigureCommit(h)
  BY <1>1, <1>4 DEF ConfigureCommit, bounds
<1>5. CASE CancelCommit(h) \/ CancelCleanup(h)
  BY <1>5 DEF CancelCommit, CancelCleanup, bounds
<1>6. CASE StartRead(h) \/ ConfigureRead(h) \/ CancelRead(h)
  BY <1>6 DEF StartRead, ConfigureRead, CancelRead, Receive
<1> QED BY <1>2, <1>3, <1>4, <1>5, <1>6 DEF HandlerStep

-----------------------------------------------------------------------------
(* What a cancelled run can still cost.                                     *)

\* Tool and model calls a task may still make on a run that is cancelled now,
\* at most: a generated program is run after the model's answer, Semgrep after
\* Bandit, and a session that has asked goes on to its tools.
Left(t) ==
    IF \/ t.pc \in {"generate", "repair", "bandit", "repaired_bandit"}
       \/ t.pc = "copy" /\ t.job = "repairs"
       \/ t.pc \in {"repairing", "scanning", "repaired_testing", "repaired_scanning"}
             /\ t.seen # Nothing
    THEN 2
    ELSE IF \/ t.pc \in {"write", "smoke", "repaired_smoke", "pytest", "repaired_pytest",
                         "semgrep", "repaired_semgrep"}
            \/ t.pc = "testing" /\ t.seen # Nothing
         THEN 1 ELSE 0

\* What was spent and what is still to come never exceed two calls.
Cost ==
    /\ overrun <= 2
    /\ run.status \in {"queued", "running"} => overrun = 0
    /\ \A w \in Workers : Working(w) => overrun + Left(worker[w]) <= 2

\* On a running run a step is free; on a cancelled one it pays for itself.
Spends(w) ==
    /\ Alone(w)
    /\ run.status = "running" => overrun' = overrun
    /\ run.status = "cancelled" =>
          overrun' + Left(worker'[w]) <= overrun + Left(worker[w])

\* A cancelled run is not put back to work.
LEMMA StaysOver ==
    ASSUME SerialStep
    PROVE  run'.status \in {"queued", "running"} => run.status \in {"queued", "running"}
BY DEF SerialStep, VerdictStep, Verdict!Next, Verdict!Start, Verdict!Decide, Verdict!Withdraw

\* A task that pays for its step stays within the two calls.
LEMMA TaskCosts ==
    ASSUME Typed, Serial, Cost, SerialStep, overrun' \in Nat,
           NEW w \in Workers, Working(w), Spends(w)
    PROVE  Cost'
<1>1. run.status \in {"running", "cancelled"}
  BY DEF Serial, TaskOK, Engaged
<1>2. \A v \in Workers \ {w} : worker'[v] = worker[v]
  BY DEF Spends, Alone
<1>3. \A v \in Workers \ {w} : ~Working(v)'
  BY <1>2 DEF Serial, OneTaskAtATime, Working
<1>4. Left(worker[w]) \in 0..2 /\ Left(worker'[w]) \in 0..2
  BY DEF Left
<1>5. overrun \in Nat
  BY DEF Typed, Others
<1> QED BY <1>1, <1>3, <1>4, <1>5, StaysOver DEF Cost, Spends, Working

\* A request makes nothing dearer.
LEMMA RequestCosts == ASSUME Typed, Cost, SerialStep, HandlerNext PROVE Cost'
<1>1. /\ UNCHANGED overrun
      /\ \A v \in Workers : \/ worker'[v] = worker[v]
                            \/ worker[v].pc = "idle" /\ worker'[v].pc = "admit"
  BY HandlerSpares
<1>2. overrun \in Nat
  BY DEF Typed, Others
<1> QED BY <1>1, <1>2, StaysOver DEF Cost, Left, Working

\* Nor does a "finally", a restart or no step at all.
LEMMA RestCosts ==
    ASSUME Typed, Cost, (\E w \in Workers : FinallyCleanup(w)) \/ Crash \/ UNCHANGED vars
    PROVE  Cost'
<1>1. ASSUME NEW w \in Workers, FinallyCleanup(w) PROVE Cost'
  <2>1. UNCHANGED <<run, overrun>>
    BY <1>1 DEF FinallyCleanup, rows
  <2>2. \A v \in Workers : Working(v)' => worker'[v] = worker[v]
    BY <1>1, FinallyRests DEF Typed, Working
  <2> QED BY <2>1, <2>2 DEF Cost, Working
<1>2. CASE Crash
  BY <1>2 DEF Crash, Cost, rows, Working, IdleWorker
<1>3. CASE UNCHANGED vars
  BY <1>3 DEF vars, rows, Cost, Working
<1> QED BY <1>1, <1>2, <1>3

\* A run that was just created owes nothing.
LEMMA CostInit == ASSUME Init PROVE Cost
BY DEF Init, Cost, Working, IdleWorker

-----------------------------------------------------------------------------
(* Who will remove the work directory.                                      *)

\* A task that has not ended, or a cancellation about to clean up.
Reclaiming == \/ \E w \in Workers : worker[w].pc # "idle"
              \/ \E h \in Handlers : handler[h].pc = "cleanup"
Reclaimed == run.status \in Terminal /\ crashes = 0 /\ workdir # {} => Reclaiming

\* What a step must do for Reclaimed to stay true.
ReclaimStep == \/ Reclaiming' \/ workdir' = {} \/ run'.status \notin Terminal
               \/ crashes' # 0
               \/ ~Reclaiming /\ UNCHANGED <<run, workdir, issued, crashes>>

\* No request drops a run whose directory someone was going to remove.
LEMMA HandlerReclaims == ASSUME Typed, HandlerNext PROVE ReclaimStep
<1>1. PICK h \in Handlers : \/ StartRead(h) \/ ConfigureRead(h) \/ CancelRead(h)
                            \/ HandlerStep(h)
  BY DEF HandlerNext
<1>2. ASSUME NEW w \in Workers, NEW job, Spawn(w, job) PROVE Reclaiming'
  BY <1>2 DEF Spawn, Typed, Tasks, IdleWorker, Reclaiming
<1>3. ASSUME handler[h].pc # "cleanup", \A g \in Handlers \ {h} : handler'[g] = handler[g],
             UNCHANGED <<run, workdir, issued, worker, crashes>>
      PROVE  ReclaimStep
  BY <1>3 DEF ReclaimStep, Reclaiming
<1>4. CASE StartCommit(h)
  <2>1. \A g \in Handlers \ {h} : handler'[g] = handler[g]
    BY <1>4 DEF StartCommit, Answer, Typed, Requests
  <2> QED BY <1>2, <1>3, <1>4, <2>1 DEF StartCommit, rows, bounds, ReclaimStep
<1>5. CASE ConfigureCommit(h)
  BY <1>2, <1>5 DEF ConfigureCommit, ReclaimStep
<1>6. CASE CancelCommit(h)
  <2>1. CASE Answer(h) /\ UNCHANGED rows
    <3>1. \A g \in Handlers \ {h} : handler'[g] = handler[g]
      BY <2>1 DEF Answer, Typed, Requests
    <3> QED BY <1>3, <1>6, <2>1, <3>1 DEF CancelCommit, rows, bounds
  <2>2. CASE handler' = [handler EXCEPT ![h] = [IdleHandler EXCEPT !.pc = "cleanup"]]
    BY <2>2 DEF Typed, Requests, IdleHandler, ReclaimStep, Reclaiming
  <2> QED BY <1>6, <2>1, <2>2 DEF CancelCommit
<1>7. CASE CancelCleanup(h)
  BY <1>7 DEF CancelCleanup, CleanupRun, ReclaimStep
<1>8. CASE StartRead(h) \/ ConfigureRead(h) \/ CancelRead(h)
  <2>1. /\ handler[h].pc = "idle"
        /\ \A g \in Handlers \ {h} : handler'[g] = handler[g]
        /\ UNCHANGED <<run, workdir, issued, worker, crashes>>
    BY <1>8 DEF StartRead, ConfigureRead, CancelRead, Receive, Typed, Requests, rows
  <2> QED BY <1>3, <2>1
<1> QED BY <1>1, <1>4, <1>5, <1>6, <1>7, <1>8 DEF HandlerStep

\* The "finally" of a runner gives up only a run that is not over.
LEMMA FinallyReclaims ==
    ASSUME Typed, NEW w \in Workers, FinallyCleanup(w) PROVE ReclaimStep
<1>1. CASE At(w, "finally") /\ run.status \in Terminal
  <2>1. Goto(w, "cleanup")
    BY <1>1 DEF FinallyCleanup, At
  <2>2. worker'[w].pc = "cleanup"
    BY <2>1, GotoLands DEF Typed, Lands
  <2> QED BY <2>2 DEF ReclaimStep, Reclaiming
<1>2. CASE At(w, "finally") /\ run.status \notin Terminal
  BY <1>2 DEF FinallyCleanup, At, rows, ReclaimStep
<1>3. CASE At(w, "cleanup")
  BY <1>3 DEF FinallyCleanup, At, CleanupRun, ReclaimStep
<1> QED BY <1>1, <1>2, <1>3 DEF FinallyCleanup

\* After a restart nothing is promised, and no step at all changes nothing.
LEMMA RestReclaims == ASSUME Typed, Crash \/ UNCHANGED vars PROVE ReclaimStep
<1>1. CASE Crash
  BY <1>1 DEF Crash, Typed, Others, ReclaimStep
<1>2. CASE UNCHANGED vars
  BY <1>2 DEF vars, rows, bounds, ReclaimStep, Reclaiming
<1> QED BY <1>1, <1>2

=============================================================================
