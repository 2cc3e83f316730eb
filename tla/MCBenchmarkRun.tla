--------------------------- MODULE MCBenchmarkRun ---------------------------
EXTENDS BenchmarkRun, TLC

\* Threads are interchangeable.  Not for liveness.
Interchangeable == Permutations(Workers) \cup Permutations(Handlers)

-----------------------------------------------------------------------------
(* The view of the overlapping requests: what a later step, or a property   *)
(* checked of them, can still tell apart.  It leaves out the columns no one *)
(* reads and the locals a thread does not use again.                        *)

LiveRow(row) == [row EXCEPT !.failure = "none", !.manifest = {}]

\* Only these sessions of a task write an attempt.
WritesAttempts == {"record", "awaiting", "fail"}
HasAttempt == WorkerSteps \ {"next", "reviewing", "reporting", "saving", "fail",
                             "finally", "cleanup"}
LiveTask(t) ==
    <<t.pc, t.job,
      IF t.seen = Nothing THEN Nothing ELSE LiveRow(t.seen.run),
      IF t.seen # Nothing /\ t.pc \in WritesAttempts THEN t.seen.attempts ELSE Nothing,
      IF t.pc \in {"fail", "finally", "cleanup"} THEN {} ELSE t.todo,
      IF t.pc \in HasAttempt THEN t.at ELSE Nothing>>

\* cancel_run writes both its columns whatever it read, except for the stage
\* of a run whose stage is "cancelled" already.
LiveRequest(r) ==
    <<r.pc, r.count,
      IF r.seen = Nothing THEN Nothing ELSE r.seen.attempts,
      IF r.seen = Nothing THEN Nothing
      ELSE IF r.pc = "cancel" THEN r.seen.run.stage = "cancelled"
      ELSE LiveRow(r.seen.run)>>

Live == <<LiveRow(run), attempts, report = Nothing, workdir, issued,
          [h \in Handlers |-> LiveRequest(handler[h])],
          [w \in Workers |-> LiveTask(worker[w])], bounds>>
=============================================================================
