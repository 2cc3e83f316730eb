------------------------------ MODULE RunStore ------------------------------
(***************************************************************************)
(* The database rows of ONE run, the work directory of that run, and the   *)
(* way the backend's SQLAlchemy sessions read and write them.              *)
(*                                                                         *)
(* Every handler and every runner opens a session, reads the rows, decides *)
(* on what it read, and commits later.  SELECTs run outside a transaction, *)
(* a commit is atomic and writes only the columns whose value differs from *)
(* the one the session holds, and objects do not expire at a commit        *)
(* (expire_on_commit=False).  A session is therefore two or more steps:    *)
(* one that takes a Snapshot and one per commit, and anything may happen   *)
(* in between.                                                             *)
(*                                                                         *)
(* A strategy is abstracted to its position in the selection it came with: *)
(* an attempt is <<batch, position>>, batch 0 being the attempts created   *)
(* with the run and batch k those of the k-th accepted configuration.      *)
(***************************************************************************)
EXTENDS Naturals, FiniteSets

CONSTANTS
    Handlers,      \* request threads that may serve this run's endpoints
    Workers,       \* slots for background tasks of this run
    Nothing,       \* Python's None, and "no session is open"
    MaxStrategies, \* strategies one selection can name (schemas.py: 3)
    MaxBatches,    \* bound on accepted configurations
    MaxOverlaps,   \* bound on overlapping requests; 0: one at a time
    MaxCrashes     \* bound on process restarts

VARIABLES
    run,       \* the row of runs
    attempts,  \* the rows of strategy_attempts: their status, or "absent"
    report,    \* the row of run_reports: Nothing or the results it lists
    workdir,   \* the entries of work_root/run_id
    issued,    \* batches of attempt ids handed out so far
    handler,   \* what each request thread is doing
    worker,    \* what each background task is doing
    overrun,   \* tool and model calls that ended on a cancelled run (history)
    overlaps,  \* requests that arrived while another was being served
    crashes    \* restarts so far

rows == <<run, attempts, report>>
bounds == <<overlaps, crashes>>
vars == <<rows, workdir, issued, handler, worker, overrun, bounds>>

-----------------------------------------------------------------------------
(* Data.                                                                    *)

JobStatus == {"queued", "running", "completed", "failed", "cancelled"}
Terminal == {"completed", "failed", "cancelled"}
PipelineStages == {"baseline_testing", "baseline_scanning", "repairing",
                   "repaired_testing", "repaired_scanning", "reviewing", "reporting"}
Stages == PipelineStages \cup {"queued", "awaiting_strategy"} \cup Terminal

Attempts == (0..MaxBatches) \X (1..MaxStrategies)
Batch(b, n) == {b} \X (1..n)
BaselineDir == <<0, 0>>

FailureCodes == {"none", "baseline_failed", "repair_pipeline_failed",
    "upload_source_failed", "invalid_python_syntax", "baseline_scan_incomplete",
    "repaired_scan_incomplete", "generation_failed", "generation_invalid_response"}

\* progress_json: listed is whether it has the key completed_stages, evidence
\* whether it has the baseline_* keys the repair phase reads.
Progress == [listed : BOOLEAN, done : SUBSET PipelineStages,
             evidence : BOOLEAN, current : Attempts \cup {Nothing}]
\* manifest is the strategy_ids column of the manifest, as the attempts it names.
RunRow == [status : JobStatus, stage : Stages, progress : Progress,
           failure : FailureCodes, manifest : SUBSET Attempts]
AttemptRows == [Attempts -> JobStatus \cup {"absent"}]
Results == SUBSET (Attempts \X {"completed", "failed"})
ReportRow == [results : Results]
Snapshots == [run : RunRow, attempts : AttemptRows]

ASSUME StoreAssumption ==
    /\ MaxStrategies \in Nat \ {0}
    /\ MaxBatches \in Nat
    /\ MaxOverlaps \in Nat
    /\ MaxCrashes \in Nat
    /\ Nothing \notin Snapshots
    /\ Nothing \notin ReportRow
    /\ Nothing \notin Attempts

RowsOf(batch, status) == [a \in Attempts |-> IF a \in batch THEN status ELSE "absent"]
Present(rs) == {a \in Attempts : rs[a] # "absent"}

-----------------------------------------------------------------------------
(* Sessions.                                                                *)

Snapshot == [run |-> run, attempts |-> attempts]

\* A column is written only when the session changed it.
Merge(seen, new, current) == IF new = seen THEN current ELSE new

FlushRun(seen, new) ==
    [status   |-> Merge(seen.status, new.status, run.status),
     stage    |-> Merge(seen.stage, new.stage, run.stage),
     progress |-> Merge(seen.progress, new.progress, run.progress),
     failure  |-> Merge(seen.failure, new.failure, run.failure),
     manifest |-> Merge(seen.manifest, new.manifest, run.manifest)]
FlushAttempts(seen, new) ==
    [a \in Attempts |-> Merge(seen[a], new[a], attempts[a])]

\* An UPDATE of a row another session has deleted raises StaleDataError and
\* rolls the transaction back.
StaleData(seen, new) ==
    \E a \in Attempts : /\ new[a] \notin {seen[a], "absent"}
                        /\ seen[a] # "absent"
                        /\ attempts[a] = "absent"

\* The rows after a commit of new by a session that read seen.
Commit(seen, new) ==
    /\ run' = FlushRun(seen.run, new.run)
    /\ attempts' = FlushAttempts(seen.attempts, new.attempts)

-----------------------------------------------------------------------------
(* runner_support.py                                                        *)

RunCancelled == run.status = "cancelled"
\* rmtree(ignore_errors=True), taken as succeeding: an error of the file system
\* would leave what is there, and no one would learn of it.
CleanupRun == workdir' = {}

\* Mutant: the status column is forgotten.
FailedRunKeepsStatus(seen, code) ==
    [run |-> [seen.run EXCEPT !.stage = "failed", !.failure = code],
     attempts |-> [a \in Attempts |->
         IF seen.attempts[a] \in {"absent", "completed"} THEN seen.attempts[a]
         ELSE "failed"]]

\* fail_run: the rows it commits.
FailedRun(seen, code) ==
    [run |-> [seen.run EXCEPT !.status = "failed", !.stage = "failed", !.failure = code],
     attempts |-> [a \in Attempts |->
         IF seen.attempts[a] \in {"absent", "completed"} THEN seen.attempts[a]
         ELSE "failed"]]

-----------------------------------------------------------------------------
(* State of the threads.                                                    *)

WorkerSteps == {"idle", "admit", "copy", "load", "generate", "write", "smoke",
    "testing", "pytest", "scanning", "bandit", "semgrep", "awaiting", "clean",
    "next", "repairing", "repair", "mark_failed", "repaired_testing",
    "repaired_pytest", "repaired_smoke", "repaired_scanning", "repaired_bandit",
    "repaired_semgrep", "record", "reviewing", "reporting", "saving", "fail",
    "finally", "cleanup"}

\* job is the half of the pipeline, seen the open session's snapshot, at and
\* todo the attempt in hand and those left, results the list a report gets.
WorkerStates == [pc : WorkerSteps, job : {"none", "baseline", "repairs"},
                 seen : Snapshots \cup {Nothing}, code : FailureCodes,
                 todo : SUBSET Attempts, at : Attempts \cup {Nothing},
                 results : Results]
IdleWorker == [pc |-> "idle", job |-> "none", seen |-> Nothing, code |-> "none",
               todo |-> {}, at |-> Nothing, results |-> {}]

HandlerStates == [pc : {"idle", "start", "configure", "cancel", "cleanup"},
                  seen : Snapshots \cup {Nothing}, count : 0..MaxStrategies]
IdleHandler == [pc |-> "idle", seen |-> Nothing, count |-> 0]

=============================================================================
