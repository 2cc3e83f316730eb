----------------------------- MODULE RunSafety ------------------------------
(***************************************************************************)
(* What must hold of a run whatever its mode: stated once over the rows,   *)
(* the tasks and the work directory, checked for each of the runners.      *)
(***************************************************************************)
EXTENDS RunApi

\* A task that may still write a row of the run, as opposed to one in its
\* "finally" or finished.
Working(w) == worker[w].pc \notin {"idle", "finally", "cleanup"}
Quiet == /\ \A w \in Workers : worker[w].pc = "idle"
         /\ \A h \in Handlers : handler[h].pc = "idle"

\* Every variable has its type (models.py, enums.py).
TypeOK ==
    /\ run \in RunRow
    /\ attempts \in AttemptRows
    /\ report \in ReportRow \cup {Nothing}
    /\ workdir \in SUBSET (Attempts \cup {BaselineDir})
    /\ issued \in 0..MaxBatches
    /\ handler \in [Handlers -> HandlerStates]
    /\ worker \in [Workers -> WorkerStates]
    /\ overrun \in Nat
    /\ overlaps \in 0..MaxOverlaps
    /\ crashes \in 0..MaxCrashes

-----------------------------------------------------------------------------
(* Under overlapping requests.                                              *)

\* A run a client sees as completed has a report to fetch (load_report would
\* answer 404): no interleaving completes a run without saving one, and none
\* loses one.
CompletedHasReport == run.status = "completed" => report # Nothing

\* Nothing puts a run back in the queue, so its source is executed only on
\* behalf of starts that were accepted while it was queued.
NeverRequeued == [][run.status # "queued" => run.status' # "queued"]_vars

-----------------------------------------------------------------------------
(* One request at a time.                                                   *)

\* At most one background task works on a run: a repair task is scheduled
\* only once the baseline task has written its last row.
OneTaskAtATime ==
    \A v, w \in Workers : Working(v) /\ Working(w) => v = w

\* While the process lives, a run that says it is running and does not wait
\* for its user is being worked on: nobody polls a run no task will finish.
RunningIsOwned ==
    run.status = "running" /\ run.stage # "awaiting_strategy" /\ crashes = 0
        => \E w \in Workers : Working(w)

\* A run that waits for a strategy is ready for one: the evidence the repair
\* phase reads is stored, both baseline stages are done, its attempts are
\* queued, and no task is about to write over what the user configures.
AwaitingIsReady ==
    run.status = "running" /\ run.stage = "awaiting_strategy"
        => /\ run.progress.evidence
           /\ run.progress.done = {"baseline_testing", "baseline_scanning"}
           /\ \A a \in Present(attempts) : attempts[a] = "queued"
           /\ \A w \in Workers : ~Working(w)

\* A finished stage stays finished for whoever polls: no session of a task or
\* of a request rewrites progress_json from a copy older than the row.
ProgressOnlyGrows ==
    [][run.status = "running" /\ run'.status = "running"
         => run.progress.done \subseteq run'.progress.done]_vars

\* A cancellation stops the work within two calls of a tool or the model.  No
\* one asks about it between Bandit and Semgrep, nor between the model's answer
\* and the smoke run of what it wrote; before any third call someone does.
CancelStopsWork == overrun <= 2

\* The report lists exactly the attempts the run has, and a row differs from
\* its result only when a cancellation came in between.
ReportCoversAttempts ==
    report # Nothing =>
        /\ {r[1] : r \in report.results} = Present(attempts)
        /\ \A r \in report.results : attempts[r[1]] \in {r[2], "cancelled"}

\* A report and a failure exclude each other: the runner decides once.
Decided == IF report # Nothing THEN "completed"
           ELSE IF run.failure # "none" THEN "failed" ELSE "none"
Verdict == INSTANCE RunVerdict
             WITH Verdicts <- {"completed", "failed"},
                  status <- run.status, verdict <- Decided

\* The rows implement the verdict protocol.
ImplementsVerdict == Verdict!Spec

\* Liveness, while the process lives.  A running run comes to its user or to an end:
\* no error path of a task leaves it running for ever.
EventuallySettles ==
    run.status = "running"
        ~> run.status # "running" \/ run.stage = "awaiting_strategy" \/ crashes > 0

\* A cancellation ends the work on a run: its tasks all finish.
CancelEndsWork == RunCancelled ~> \A w \in Workers : worker[w].pc = "idle"

-----------------------------------------------------------------------------
(* What the tests and documents say of cancellation and of one-shot          *)
(* transitions; the code does not keep it in every interleaving.             *)

\* A cancelled run stays cancelled (test_run_lifecycle.py:34 and 40-43).
CancelIsFinal == [][RunCancelled => run.status' = "cancelled"]_vars

\* Nothing is left of a cancelled run on disk (test_run_lifecycle.py:38).
CancelledLeavesNothing == RunCancelled /\ Quiet => workdir = {}

\* A run is started once (test_benchmark_pipeline.py:96).
StartedOnce ==
    Cardinality({w \in Workers : Working(w) /\ worker[w].job = "baseline"}) <= 1

=============================================================================
