------------------------------- MODULE RunApi -------------------------------
(***************************************************************************)
(* The endpoints of services.py and main.py that change one run: start,    *)
(* strategies and cancel.  A request is served by a thread of its own: it  *)
(* reads the rows, answers 409 when the guard fails (no step here: nothing *)
(* changes), and otherwise commits in a later step.  Creation is Init; the *)
(* read endpoints change nothing.                                          *)
(***************************************************************************)
EXTENDS RunWorker

-----------------------------------------------------------------------------

\* create_run: the row as it is first committed, with n attempts.
Created(n) ==
    [status |-> "queued", stage |-> "queued",
     progress |-> [listed |-> FALSE, done |-> {}, evidence |-> FALSE,
                   current |-> Nothing],
     failure |-> "none", manifest |-> Batch(0, n)]

Init ==
    /\ \E n \in 1..MaxStrategies :
          /\ run = Created(n)
          /\ attempts = RowsOf(Batch(0, n), "queued")
    /\ report = Nothing
    /\ workdir = {}
    /\ issued = 0
    /\ handler = [h \in Handlers |-> IdleHandler]
    /\ worker = [w \in Workers |-> IdleWorker]
    /\ overrun = 0
    /\ overlaps = 0
    /\ crashes = 0

\* A request arrives: the thread reads the rows.
Receive(h, pc, count) ==
    /\ handler[h].pc = "idle"
    /\ IF \A g \in Handlers : handler[g].pc = "idle"
       THEN UNCHANGED overlaps
       ELSE overlaps < MaxOverlaps /\ overlaps' = overlaps + 1
    /\ handler' = [handler EXCEPT ![h] =
                     [pc |-> pc, seen |-> Snapshot, count |-> count]]
    /\ UNCHANGED <<rows, workdir, issued, worker, overrun, crashes>>

Answer(h) == handler' = [handler EXCEPT ![h] = IdleHandler]

\* Mutant: start_run refuses a running run only.
StartReadUnlessRunning(h) == run.status # "running" /\ Receive(h, "start", 0)

\* start_run
StartRead(h) == run.status = "queued" /\ Receive(h, "start", 0)

Started(seen) ==
    [run |-> [seen.run EXCEPT !.status = "running", !.stage = "baseline_testing",
                !.progress = [listed |-> TRUE, done |-> {}, evidence |-> FALSE,
                              current |-> Nothing]],
     attempts |-> RowsOf(Present(seen.attempts), "running")]

\* A commit that fails is answered with 500 and schedules nothing.
StartCommit(h) ==
    /\ handler[h].pc = "start"
    /\ LET seen == handler[h].seen
           new == Started(seen) IN
       IF StaleData(seen.attempts, new.attempts)
       THEN UNCHANGED <<rows, worker>>
       ELSE /\ Commit(seen, new)
            /\ UNCHANGED report
            /\ \E w \in Workers : Spawn(w, "baseline")
    /\ Answer(h)
    /\ UNCHANGED <<workdir, issued, overrun, bounds>>

\* Mutant: the stage is not checked.
ConfigureReadAtAnyStage(h) ==
    /\ run.status = "running"
    /\ issued < MaxBatches
    /\ \E n \in 1..MaxStrategies : Receive(h, "configure", n)

\* configure_strategies
ConfigureRead(h) ==
    /\ run.status = "running"
    /\ run.stage = "awaiting_strategy"
    /\ issued < MaxBatches
    /\ \E n \in 1..MaxStrategies : Receive(h, "configure", n)

\* The rows it read are deleted, n new ones inserted, the manifest rewritten.
Configured(seen, b, n) ==
    [run |-> [seen.run EXCEPT !.stage = "repairing", !.manifest = Batch(b, n),
                !.progress.current = <<b, 1>>],
     attempts |-> RowsOf(Batch(b, n), "running")]

ConfigureCommit(h) ==
    /\ handler[h].pc = "configure"
    /\ issued < MaxBatches
    /\ issued' = issued + 1
    /\ Commit(handler[h].seen,
              Configured(handler[h].seen, issued + 1, handler[h].count))
    /\ \E w \in Workers : Spawn(w, "repairs")
    /\ Answer(h)
    /\ UNCHANGED <<report, workdir, overrun, bounds>>

\* cancel_run.  A run already cancelled is left as it is; the endpoint then
\* removes the work directory all the same.
CancelRead(h) ==
    \/ RunCancelled /\ Receive(h, "cleanup", 0)
    \/ run.status \in {"queued", "running"} /\ Receive(h, "cancel", 0)

\* Mutant: another spelling for the stage.
CancelledMisspelt(seen) ==
    [run |-> [seen.run EXCEPT !.status = "cancelled", !.stage = "canceled"],
     attempts |-> seen.attempts]

Cancelled(seen) ==
    [run |-> [seen.run EXCEPT !.status = "cancelled", !.stage = "cancelled"],
     attempts |-> [a \in Attempts |->
         IF seen.attempts[a] \in {"queued", "running"} THEN "cancelled"
         ELSE seen.attempts[a]]]

CancelCommit(h) ==
    /\ handler[h].pc = "cancel"
    /\ LET seen == handler[h].seen
           new == Cancelled(seen) IN
       IF StaleData(seen.attempts, new.attempts)
       THEN Answer(h) /\ UNCHANGED rows
       ELSE /\ Commit(seen, new)
            /\ UNCHANGED report
            /\ handler' = [handler EXCEPT ![h] = [IdleHandler EXCEPT !.pc = "cleanup"]]
    /\ UNCHANGED <<workdir, issued, worker, overrun, bounds>>

\* main.cancel: cleanup_run once cancel_run has returned.
CancelCleanup(h) ==
    /\ handler[h].pc = "cleanup"
    /\ CleanupRun
    /\ Answer(h)
    /\ UNCHANGED <<rows, issued, worker, overrun, bounds>>

HandlerStep(h) == \/ StartCommit(h) \/ ConfigureCommit(h)
                  \/ CancelCommit(h) \/ CancelCleanup(h)
HandlerNext == \E h \in Handlers : \/ StartRead(h) \/ ConfigureRead(h) \/ CancelRead(h)
                                   \/ HandlerStep(h)

\* The process stops: its threads are gone, the database and the work
\* directory stay, and create_app resumes nothing.
Crash ==
    /\ crashes < MaxCrashes
    /\ crashes' = crashes + 1
    /\ handler' = [h \in Handlers |-> IdleHandler]
    /\ worker' = [w \in Workers |-> IdleWorker]
    /\ UNCHANGED <<rows, workdir, issued, overrun, overlaps>>

=============================================================================
