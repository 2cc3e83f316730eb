----------------------------- MODULE RunWorker ------------------------------
(***************************************************************************)
(* What the background tasks of the three modes are built from: the        *)
(* helpers of runner_support.py, save_report, and the sessions the runners *)
(* share.  A task is one thread; each of its sessions and each of its      *)
(* calls to a tool is a step, and the rows may change between any two.     *)
(***************************************************************************)
EXTENDS RunStore

At(w, pc) == worker[w].pc = pc /\ worker[w].seen = Nothing
InSession(w, pc) == worker[w].pc = pc /\ worker[w].seen # Nothing

\* The step a task takes next; a finished task leaves nothing behind.
Goto(w, pc) ==
    worker' = [worker EXCEPT ![w] =
        IF pc = "idle" THEN IdleWorker ELSE [@ EXCEPT !.pc = pc, !.seen = Nothing]]

\* The task BackgroundTasks runs after the response, in a free slot.
Spawn(w, job) ==
    /\ worker[w].pc = "idle"
    /\ worker' = [worker EXCEPT ![w] = [IdleWorker EXCEPT !.pc = "admit", !.job = job]]

\* The code of the runner's outermost "except Exception".
ExceptionCode(w) ==
    IF worker[w].job = "baseline" THEN "baseline_failed" ELSE "repair_pipeline_failed"
FailWith(w, code) ==
    worker' = [worker EXCEPT ![w].pc = "fail", ![w].seen = Nothing, ![w].code = code]
Raise(w) == FailWith(w, ExceptionCode(w))

-----------------------------------------------------------------------------
(* Sessions.                                                                *)

\* A session reads, and is left by "return" when ok does not hold.
OpenSession(w, pc, ok, exit) ==
    /\ At(w, pc)
    /\ IF ok THEN worker' = [worker EXCEPT ![w].seen = Snapshot]
             ELSE Goto(w, exit)
    /\ UNCHANGED <<rows, workdir, issued, handler, overrun, bounds>>

\* The commit that ends a session.
CommitStep(w, new, next) ==
    /\ IF StaleData(worker[w].seen.attempts, new.attempts)
       THEN Raise(w) /\ UNCHANGED <<run, attempts>>
       ELSE Commit(worker[w].seen, new) /\ Goto(w, next)
    /\ UNCHANGED <<report, workdir, issued, handler, overrun, bounds>>

\* A commit after which the session stays open: its objects keep the values
\* it committed and are not read again.
CommitAndKeep(w, new, next) ==
    /\ Commit(worker[w].seen, new)
    /\ worker' = [worker EXCEPT ![w].pc = next, ![w].seen = new]
    /\ UNCHANGED <<report, workdir, issued, handler, overrun, bounds>>

\* Mutant: the list of finished stages is rebuilt at every stage.
SetStageOverwrites(row, stage, finished) ==
    [row EXCEPT !.stage = stage, !.progress.listed = TRUE, !.progress.done = finished]

\* set_stage: the columns it writes; the caller commits them.
SetStage(row, stage, finished) ==
    [row EXCEPT !.stage = stage,
                !.progress.listed = TRUE,
                !.progress.done = @ \cup finished]
Staged(w, stage, finished) ==
    [worker[w].seen EXCEPT !.run = SetStage(@, stage, finished)]

\* Mutant: run_cancelled is not asked.
StageSessionUnasked(w, pc, new, next, exit) ==
    \/ OpenSession(w, pc, TRUE, exit)
    \/ InSession(w, pc) /\ CommitStep(w, new, next)

\* A session that asks run_cancelled and then commits a stage.
StageSession(w, pc, new, next, exit) ==
    \/ OpenSession(w, pc, ~RunCancelled, exit)
    \/ InSession(w, pc) /\ CommitStep(w, new, next)

-----------------------------------------------------------------------------
(* Calls that touch no row.                                                 *)

\* A call of an analysis tool or of the model: it ends in a step of next, or the
\* run fails with one of codes.
ToolCall(w, pc, next, codes) ==
    /\ At(w, pc)
    /\ \/ \E p \in next : Goto(w, p)
       \/ \E c \in codes : FailWith(w, c)
    /\ overrun' = overrun + (IF RunCancelled THEN 1 ELSE 0)
    /\ UNCHANGED <<rows, workdir, issued, handler, bounds>>

\* A directory of the run is filled.  It must not exist yet; the call may stop
\* half way, and fails then with one of codes.
FillDirectory(w, pc, dir, source, next, codes) ==
    /\ At(w, pc)
    /\ \/ /\ dir \notin workdir
          /\ source \subseteq workdir
          /\ workdir' = workdir \cup {dir}
          /\ \E p \in next : Goto(w, p)
       \/ /\ workdir' \in {workdir, workdir \cup {dir}}
          /\ \E c \in codes : FailWith(w, c)
    /\ UNCHANGED <<rows, issued, handler, overrun, bounds>>

-----------------------------------------------------------------------------
(* The ends of a task.                                                      *)

\* Mutant: fail_run tries again until the run is no longer cancelled.
FailRunRetries(w, exit) ==
    \/ OpenSession(w, "fail", ~RunCancelled, "fail")
    \/ /\ InSession(w, "fail")
       /\ Commit(worker[w].seen, FailedRun(worker[w].seen, worker[w].code))
       /\ Goto(w, exit)
       /\ UNCHANGED <<report, workdir, issued, handler, overrun, bounds>>

\* fail_run: no write when the run it reads is cancelled, otherwise a commit.
\* An exception out of fail_run is caught only when the runner called it
\* inside its try.
FailRun(w, exit) ==
    \/ OpenSession(w, "fail", ~RunCancelled, exit)
    \/ /\ InSession(w, "fail")
       /\ LET new == FailedRun(worker[w].seen, worker[w].code) IN
          IF StaleData(worker[w].seen.attempts, new.attempts)
          THEN /\ IF worker[w].code \in {ExceptionCode(w), "upload_source_failed"}
                  THEN Goto(w, exit) ELSE Raise(w)
               /\ UNCHANGED <<run, attempts>>
          ELSE Commit(worker[w].seen, new) /\ Goto(w, exit)
       /\ UNCHANGED <<report, workdir, issued, handler, overrun, bounds>>

\* Mutant: only a completed run counts as terminal.
FinallyCleanupOfSuccess(w) ==
    \/ /\ At(w, "finally")
       /\ Goto(w, IF run.status = "completed" THEN "cleanup" ELSE "idle")
       /\ UNCHANGED <<rows, workdir, issued, handler, overrun, bounds>>
    \/ /\ At(w, "cleanup")
       /\ CleanupRun
       /\ Goto(w, "idle")
       /\ UNCHANGED <<rows, issued, handler, overrun, bounds>>

\* The "finally" of a runner: read the status, then remove the work directory
\* when it was terminal.
FinallyCleanup(w) ==
    \/ /\ At(w, "finally")
       /\ Goto(w, IF run.status \in Terminal THEN "cleanup" ELSE "idle")
       /\ UNCHANGED <<rows, workdir, issued, handler, overrun, bounds>>
    \/ /\ At(w, "cleanup")
       /\ CleanupRun
       /\ Goto(w, "idle")
       /\ UNCHANGED <<rows, issued, handler, overrun, bounds>>

\* Mutant: the run is completed in a transaction of its own, before the evidence.
SaveReportInTwo(w, kept, stagesDone, exit) ==
    LET completed == [worker[w].seen.run EXCEPT
              !.status = "completed", !.stage = "completed",
              !.progress = [listed |-> TRUE, done |-> stagesDone,
                            evidence |-> FALSE, current |-> Nothing]]
    IN  /\ Commit(worker[w].seen, [run |-> completed, attempts |-> kept])
        /\ \/ report' = [results |-> worker[w].results] /\ Goto(w, exit)
           \/ UNCHANGED report /\ Raise(w)
        /\ UNCHANGED <<workdir, issued, handler, overrun, bounds>>

\* save_report: replaces the evidence and the report, completes the run and
\* replaces progress_json, in one transaction.  Inserting the evidence can
\* violate a primary key (two findings with one id), which rolls it all back.
\* kept: the attempts the session leaves.
SaveReport(w, kept, stagesDone, exit) ==
    LET completed == [worker[w].seen.run EXCEPT
              !.status = "completed", !.stage = "completed",
              !.progress = [listed |-> TRUE, done |-> stagesDone,
                            evidence |-> FALSE, current |-> Nothing]]
    IN  /\ \/ /\ Commit(worker[w].seen, [run |-> completed, attempts |-> kept])
              /\ report' = [results |-> worker[w].results]
              /\ Goto(w, exit)
           \/ Raise(w) /\ UNCHANGED rows
        /\ UNCHANGED <<workdir, issued, handler, overrun, bounds>>

-----------------------------------------------------------------------------
(* Sessions every runner has.                                               *)

\* The first session of a baseline task: RUNNING or nothing.
AdmitBaseline(w, next, exit) ==
    /\ At(w, "admit")
    /\ worker[w].job = "baseline"
    /\ Goto(w, IF run.status = "running" THEN next ELSE exit)
    /\ UNCHANGED <<rows, workdir, issued, handler, overrun, bounds>>

\* Mutant: the attempts stay RUNNING.
AwaitStrategyForgetsAttempts(w) ==
    LET seen == worker[w].seen IN
    [run |-> [SetStage(seen.run, "awaiting_strategy", {"baseline_scanning"})
                EXCEPT !.progress.evidence = TRUE, !.progress.current = Nothing],
     attempts |-> seen.attempts]

\* Mutant: the run is queued instead of its attempts.
AwaitStrategyQueuesRun(w) ==
    LET seen == worker[w].seen IN
    [run |-> [SetStage(seen.run, "awaiting_strategy", {"baseline_scanning"})
                EXCEPT !.status = "queued", !.progress.evidence = TRUE],
     attempts |-> seen.attempts]

\* The last session of a baseline task: evidence stored, attempts QUEUED.
AwaitStrategy(w) ==
    LET seen == worker[w].seen IN
    [run |-> [SetStage(seen.run, "awaiting_strategy", {"baseline_scanning"})
                EXCEPT !.progress.evidence = TRUE, !.progress.current = Nothing],
     attempts |-> RowsOf(Present(seen.attempts), "queued")]

\* The first session of a repair task also reads the baseline evidence (a
\* KeyError when it is missing) and the attempts.
AdmitRepairs(w) ==
    /\ At(w, "admit")
    /\ worker[w].job = "repairs"
    /\ \/ run.status # "running" /\ Goto(w, "finally")
       \/ run.status = "running" /\ ~run.progress.evidence /\ Raise(w)
       \/ /\ run.status = "running"
          /\ run.progress.evidence
          /\ worker' = [worker EXCEPT ![w].pc = "next", ![w].todo = Present(attempts)]
    /\ UNCHANGED <<rows, workdir, issued, handler, overrun, bounds>>

\* The loop over the attempts, in the order of their ordinals.
NextAttempt(w) ==
    /\ At(w, "next")
    /\ \/ worker[w].todo = {} /\ Goto(w, "reviewing")
       \/ \E a \in worker[w].todo :
             /\ \A b \in worker[w].todo : a[2] <= b[2]
             /\ worker' = [worker EXCEPT ![w].pc = "repairing", ![w].at = a,
                                         ![w].todo = @ \ {a}]
    /\ UNCHANGED <<rows, workdir, issued, handler, overrun, bounds>>

\* Every attempt starts by naming itself in the progress.
RepairingStage(w) ==
    [Staged(w, "repairing", {}) EXCEPT !.run.progress.current = worker[w].at]

\* The session that writes the outcome of an attempt.  Its row may be gone: a
\* StopIteration.
RecordOutcome(w, pc, ok, outcome, new) ==
    \/ /\ At(w, pc)
       /\ \/ ~ok /\ Goto(w, "finally")
          \/ ok /\ worker[w].at \notin Present(attempts) /\ Raise(w)
          \/ /\ ok
             /\ worker[w].at \in Present(attempts)
             /\ worker' = [worker EXCEPT ![w].seen = Snapshot,
                             ![w].results = @ \cup {<<worker[w].at, outcome>>}]
       /\ UNCHANGED <<rows, workdir, issued, handler, overrun, bounds>>
    \/ /\ InSession(w, pc)
       /\ CommitStep(w, [new EXCEPT !.attempts[worker[w].at] = outcome], "next")

\* The final session asks once whether the run was cancelled and commits three
\* times on what it read then.
FinalSession(w, finished) ==
    \/ OpenSession(w, "reviewing", ~RunCancelled, "finally")
    \/ InSession(w, "reviewing") /\ CommitAndKeep(w, Staged(w, "reviewing", finished), "reporting")
    \/ InSession(w, "reporting") /\ CommitAndKeep(w, Staged(w, "reporting", {"reviewing"}), "saving")
    \/ InSession(w, "saving") /\ SaveReport(w, worker[w].seen.attempts, PipelineStages, "finally")

=============================================================================
