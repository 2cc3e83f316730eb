------------------------------- MODULE LiveRun -------------------------------
(***************************************************************************)
(* useLiveRun.ts: the hook that starts a run, follows it and shows it, over *)
(* the calls of api/client.ts.  The browser runs one callback at a time;   *)
(* what lies between two awaits is one step, and the answers to different  *)
(* calls come in any order.  generation is compared before an answer is    *)
(* used.                                                                   *)
(*                                                                         *)
(* The backend is a row per run and the requests on it, which read and     *)
(* commit in two steps; what the runners do on the way to their verdicts   *)
(* is in BenchmarkRun, UploadRun and CustomRun.  A call fails when it is   *)
(* not executed, or when its answer is lost or the browser gives it up.    *)
(* That every call is answered or fails is an assumption about the         *)
(* network: client.ts sets no timeout.                                     *)
(***************************************************************************)
EXTENDS Naturals, FiniteSets

CONSTANTS
    Runs,                  \* identifiers create_run hands out
    Modes,                 \* the modes of the runs the user starts
    Nothing,               \* null
    MaxTransientFailures,  \* MAX_TRANSIENT_FAILURES
    MaxFaults,             \* bound on calls that fail
    MaxCommands,           \* bound on strategies and cancel calls
    MaxResets              \* bound on reset calls

VARIABLES
    backend,          \* the row of each run at the backend
    late,             \* runs whose start call the browser gave up and may yet be served
    opened,           \* runs start_run has read as queued and not committed
    start,            \* createAndStart of each run
    poll,             \* the newest polling loop
    sent,             \* the configure and cancel calls in flight
    settled,          \* the dependencies the effect last ran for
    generation,
    requested, runId, progress, report, error, terminalMessage, busy,
    faults, commands, resets

state == <<requested, runId, progress, report, error, terminalMessage, busy>>
loops == <<poll, settled>>
bounds == <<faults, commands, resets>>
vars == <<backend, late, opened, start, loops, sent, generation, state, bounds>>

ASSUME LiveRunAssumption ==
    /\ Nothing \notin Runs
    /\ Modes \subseteq {"benchmark", "custom_prompt", "upload"}
    /\ MaxTransientFailures \in Nat \ {0}
    /\ MaxFaults \in Nat
    /\ MaxCommands \in Nat
    /\ MaxResets \in Nat

JobStatus == {"none", "queued", "running", "completed", "failed", "cancelled"}
RunStage == {"queued", "baseline", "awaiting", "repairing", "completed", "failed", "cancelled"}

\* A row, how far its runners are, whatever its stage says, how many of them
\* are at work, and the last verdict one gave.
Rows == [status : JobStatus, stage : RunStage,
         phase : {"none", "baseline", "awaiting", "repairing", "twice"}, tasks : Nat,
         verdict : {"none", "completed", "failed"}]
NoRow == [status |-> "none", stage |-> "queued", phase |-> "none", tasks |-> 0,
          verdict |-> "none"]

\* The calls of createAndStart, then how it returned.
\* "overtaken" is a run taken back while its start call was about to commit.
Calls == {"uploading", "creating", "starting", "reconciling", "reconciled",
          "withdrawing", "cancelling"}
Returns == {"shown", "superseded", "failed", "unconfirmed", "withdrawn", "overtaken"}
Starts == [pc : {"idle"} \cup Calls \cup Returns,
           mode : Modes \cup {Nothing}, operation : Nat, seen : JobStatus]
NotStarted == [pc |-> "idle", mode |-> Nothing, operation |-> 0, seen |-> "none"]

RunProgress == [run : Runs, status : JobStatus, stage : RunStage]
RunReport == [run : Runs, clean : BOOLEAN]
Polls == [pc : {"off", "asking", "answered", "fetching", "waiting", "stopped"},
          run : Runs \cup {Nothing}, operation : Nat, active : BOOLEAN,
          failures : Nat, answer : RunProgress \cup {Nothing}]
NoPoll == [pc |-> "off", run |-> Nothing, operation |-> 0, active |-> FALSE,
           failures |-> 0, answer |-> Nothing]
Errors == [from : {"start", "poll", "command"}, of : Runs]
ASSUME NothingIsNull == Nothing \notin RunProgress \cup RunReport \cup Errors

\* The n-th call of the user, and whether someone waits for its answer.
Commands == [n : Nat, call : {"configure", "cancel"}, run : Runs,
             pc : {"sent", "admitted", "accepted", "refused"}, heard : BOOLEAN]

Init ==
    /\ backend = [r \in Runs |-> NoRow]
    /\ late = {}
    /\ opened = {}
    /\ start = [r \in Runs |-> NotStarted]
    /\ poll = NoPoll
    /\ sent = {}
    /\ settled = <<Nothing, Nothing>>
    /\ generation = 0
    /\ requested = FALSE
    /\ runId = Nothing
    /\ progress = Nothing
    /\ report = Nothing
    /\ error = Nothing
    /\ terminalMessage = Nothing
    /\ busy = FALSE
    /\ faults = 0
    /\ commands = 0
    /\ resets = 0

-----------------------------------------------------------------------------
(* The backend.                                                             *)

\* What the baseline found waits for the user's strategies, or did.
Analyzed(row) == row.phase \in {"awaiting", "repairing", "twice"}

\* A runner that has not read the cancellation writes its stage over it.
SetStage(r) ==
    /\ backend[r].tasks > 0
    /\ backend[r].status # "running"
    /\ backend' = [backend EXCEPT ![r].stage =
                      IF backend[r].phase = "baseline" THEN "baseline" ELSE "repairing"]
    /\ UNCHANGED <<late, opened, start, loops, sent, generation, state, bounds>>

\* A baseline with findings (a benchmark's with or without) waits for the
\* user.  set_stage leaves the status alone, a cancelled run's too.
AwaitStrategy(r) ==
    /\ backend[r].tasks > 0
    /\ backend[r].phase = "baseline"
    /\ backend' = [backend EXCEPT ![r].stage = "awaiting", ![r].phase = "awaiting",
                                  ![r].tasks = 0]
    /\ UNCHANGED <<late, opened, start, loops, sent, generation, state, bounds>>

\* The verdict of a runner at work, which lands on a cancelled run too.  A
\* baseline completes a run only when it is clean and not a benchmark's.
Decide(r) ==
    /\ backend[r].tasks > 0
    /\ \E v \in {"completed", "failed"} :
          /\ v = "completed" /\ backend[r].phase = "baseline" => start[r].mode # "benchmark"
          /\ backend' = [backend EXCEPT ![r].status = v, ![r].stage = v, ![r].verdict = v,
                                        ![r].tasks = @ - 1]
    /\ UNCHANGED <<late, opened, start, loops, sent, generation, state, bounds>>

\* What cancel_run commits.
Cancelled(r) == [backend EXCEPT ![r].status = "cancelled", ![r].stage = "cancelled"]

Shown(r) == [run |-> r, status |-> backend[r].status, stage |-> backend[r].stage]

\* A call of the browser fails.
Fault == faults < MaxFaults /\ faults' = faults + 1 /\ UNCHANGED <<commands, resets>>

-----------------------------------------------------------------------------
(* Starting a run.                                                          *)

\* Mutant: the effect does not depend on the run.
RenderedByReport == settled[1] = IF report = Nothing THEN Nothing ELSE report.run

\* The user acts on what has been rendered, and effects run before that.
Rendered == settled = <<IF report = Nothing THEN Nothing ELSE report.run, runId>>

\* The identifier of the next run is not for the user to choose.
Unused == CHOOSE r \in Runs : start[r].pc = "idle"

\* Mutant: the report of the run before stays.
PrepareStartKeepsReport(r, mode, pc) ==
    /\ Rendered
    /\ start[r].pc = "idle"
    /\ r = Unused
    /\ generation' = generation + 1
    /\ start' = [start EXCEPT ![r] =
                   [pc |-> pc, mode |-> mode, operation |-> generation', seen |-> "none"]]
    /\ requested' = TRUE
    /\ busy' = TRUE
    /\ runId' = Nothing
    /\ progress' = Nothing
    /\ error' = Nothing
    /\ terminalMessage' = Nothing
    /\ UNCHANGED <<backend, late, opened, loops, sent, report, bounds>>

\* prepareStart and the first call of the operation.
PrepareStart(r, mode, pc) ==
    /\ Rendered
    /\ start[r].pc = "idle"
    /\ r = Unused
    /\ generation' = generation + 1
    /\ start' = [start EXCEPT ![r] =
                   [pc |-> pc, mode |-> mode, operation |-> generation', seen |-> "none"]]
    /\ requested' = TRUE
    /\ busy' = TRUE
    /\ runId' = Nothing
    /\ progress' = Nothing
    /\ report' = Nothing
    /\ error' = Nothing
    /\ terminalMessage' = Nothing
    /\ UNCHANGED <<backend, late, opened, loops, sent, bounds>>

\* startBenchmark, startCustomPrompt and startUpload, which sends its source first.
Start(r, mode) ==
    mode \in Modes /\ PrepareStart(r, mode, IF mode = "upload" THEN "uploading" ELSE "creating")

\* generation.current === operation
Current(r) == start[r].operation = generation

Goes(r, pc) == start' = [start EXCEPT ![r].pc = pc, ![r].seen = "none"]

\* Mutant: the message is not set.
ReturnErrorSilently(r, pc) ==
    /\ Goes(r, pc)
    /\ busy' = IF Current(r) THEN FALSE ELSE busy
    /\ UNCHANGED <<requested, runId, progress, report, error, terminalMessage>>

\* A catch block: the message is the newest operation's, or nobody's.
ReturnError(r, pc) ==
    /\ Goes(r, pc)
    /\ IF Current(r)
       THEN /\ error' = [from |-> "start", of |-> r]
            /\ busy' = FALSE
       ELSE UNCHANGED <<error, busy>>
    /\ UNCHANGED <<requested, runId, progress, report, terminalMessage>>

UploadFails(r) ==
    /\ start[r].pc = "uploading"
    /\ Fault
    /\ ReturnError(r, "failed")
    /\ UNCHANGED <<backend, late, opened, loops, sent, generation>>

UploadAnswered(r) ==
    /\ start[r].pc = "uploading"
    /\ Goes(r, IF Current(r) THEN "creating" ELSE "superseded")
    /\ UNCHANGED <<backend, late, opened, loops, sent, generation, state, bounds>>

CreateServed(r) ==
    /\ start[r].pc = "creating"
    /\ backend[r].status = "none"
    /\ backend' = [backend EXCEPT ![r].status = "queued"]
    /\ UNCHANGED <<late, opened, start, loops, sent, generation, state, bounds>>

\* Mutant: the operation is not compared.
CreateFailsUnasked(r) ==
    /\ start[r].pc = "creating"
    /\ Fault
    /\ Goes(r, "failed")
    /\ error' = [from |-> "start", of |-> r]
    /\ busy' = FALSE
    /\ UNCHANGED <<requested, runId, progress, report, terminalMessage>>
    /\ UNCHANGED <<backend, late, opened, loops, sent, generation>>

CreateFails(r) ==
    /\ start[r].pc = "creating"
    /\ Fault
    /\ ReturnError(r, "failed")
    /\ UNCHANGED <<backend, late, opened, loops, sent, generation>>

CreateAnswered(r) ==
    /\ start[r].pc = "creating"
    /\ backend[r].status = "queued"
    /\ Goes(r, IF Current(r) THEN "starting" ELSE "superseded")
    /\ UNCHANGED <<backend, late, opened, loops, sent, generation, state, bounds>>

\* start_run reads the run, also after the browser stopped waiting for it ...
StartRead(r) ==
    /\ start[r].pc = "starting" \/ r \in late
    /\ r \notin opened
    /\ backend[r].status = "queued"
    /\ late' = late \ {r}
    /\ opened' = opened \cup {r}
    /\ UNCHANGED <<backend, start, loops, sent, generation, state, bounds>>

\* ... and commits without looking again: over a cancellation, if one came.
StartCommit(r) ==
    /\ r \in opened
    /\ opened' = opened \ {r}
    /\ backend' = [backend EXCEPT ![r].status = "running", ![r].stage = "baseline",
                                  ![r].phase = "baseline", ![r].tasks = 1]
    /\ UNCHANGED <<late, start, loops, sent, generation, state, bounds>>

StartFails(r) ==
    /\ start[r].pc = "starting"
    /\ Fault
    /\ late' \in {late} \cup (IF backend[r].status = "queued" /\ r \notin opened
                              THEN {late \cup {r}} ELSE {})
    /\ Goes(r, "reconciling")
    /\ UNCHANGED <<backend, opened, loops, sent, generation, state>>

StartAnswered(r) ==
    /\ start[r].pc = "starting"
    /\ backend[r].status # "queued"
    /\ IF Current(r)
       THEN /\ Goes(r, "shown")
            /\ runId' = r
            /\ progress' = [run |-> r, status |-> "running", stage |-> "baseline"]
       ELSE Goes(r, "superseded") /\ UNCHANGED <<runId, progress>>
    /\ UNCHANGED <<requested, report, error, terminalMessage, busy>>
    /\ UNCHANGED <<backend, late, opened, loops, sent, generation, bounds>>

\* The start call failed: getRun tells whether it was executed.
ReconcileServed(r) ==
    /\ start[r].pc = "reconciling"
    /\ start' = [start EXCEPT ![r].pc = "reconciled", ![r].seen = backend[r].status]
    /\ UNCHANGED <<backend, late, opened, loops, sent, generation, state, bounds>>

\* Mutant: a queued run is reported as not started, and left.
ReconcileLeavesQueued(r) ==
    /\ start[r].pc = "reconciled"
    /\ IF Current(r) /\ start[r].seen \in {"running", "completed"}
       THEN /\ Goes(r, "shown")
            /\ runId' = r
            /\ error' = Nothing
            /\ UNCHANGED <<requested, progress, report, terminalMessage, busy>>
       ELSE ReturnError(r, IF start[r].seen = "running" THEN "superseded" ELSE "withdrawn")
    /\ UNCHANGED <<backend, late, opened, loops, sent, generation, bounds>>

ReconcileAnswered(r) ==
    /\ start[r].pc = "reconciled"
    /\ IF Current(r) /\ start[r].seen \in {"running", "completed"}
       THEN /\ Goes(r, "shown")
            /\ runId' = r
            /\ error' = Nothing
            /\ UNCHANGED <<requested, progress, report, terminalMessage, busy>>
       ELSE IF start[r].seen = "queued"
       THEN Goes(r, "withdrawing") /\ UNCHANGED state
       ELSE ReturnError(r, IF start[r].seen = "running" THEN "superseded" ELSE "failed")
    /\ UNCHANGED <<backend, late, opened, loops, sent, generation, bounds>>

\* The withdrawal is over; a start call that has read the run is not.
Withdrawn(r) == ReturnError(r, IF r \in opened THEN "overtaken" ELSE "withdrawn")

\* cancelRun of a run that was queued when the browser read it: it is refused
\* for one that is decided, and has nothing to do for a cancelled one.
WithdrawRead(r) ==
    /\ start[r].pc = "withdrawing"
    /\ IF backend[r].status \in {"queued", "running"}
       THEN Goes(r, "cancelling") /\ UNCHANGED state
       ELSE Withdrawn(r)
    /\ UNCHANGED <<backend, late, opened, loops, sent, generation, bounds>>

WithdrawCommit(r) ==
    /\ start[r].pc = "cancelling"
    /\ backend' = Cancelled(r)
    /\ Withdrawn(r)
    /\ UNCHANGED <<late, opened, loops, sent, generation, bounds>>

\* The inner catch keeps the error of the start call.  A cancel call that was
\* executed may lose its answer.
ReconcileFails(r) ==
    /\ start[r].pc \in {"reconciling", "reconciled", "withdrawing", "cancelling"}
    /\ Fault
    /\ ReturnError(r, "unconfirmed")
    /\ backend' \in {backend} \cup (IF start[r].pc = "cancelling" THEN {Cancelled(r)} ELSE {})
    /\ UNCHANGED <<late, opened, loops, sent, generation>>

-----------------------------------------------------------------------------
(* Following a run.                                                         *)

\* The cleanup: the timer is cleared, a call in flight is answered to no one.
Cleaned == IF poll.pc \in {"asking", "answered", "fetching"}
           THEN [poll EXCEPT !.active = FALSE] ELSE NoPoll

\* The polling effect, after the cleanup of the one before it.
Effect ==
    /\ ~Rendered
    /\ settled' = <<IF report = Nothing THEN Nothing ELSE report.run, runId>>
    /\ IF runId = Nothing \/ (report # Nothing /\ report.run = runId)
       THEN /\ poll' = Cleaned
            /\ UNCHANGED generation
       ELSE /\ generation' = generation + 1
            /\ poll' = [NoPoll EXCEPT !.pc = "asking", !.run = runId,
                                      !.operation = generation', !.active = TRUE]
    /\ UNCHANGED <<backend, late, opened, start, sent, state, bounds>>

\* Mutant: a loop that was stopped but not renumbered still counts.
IsCurrentAlways == TRUE

IsCurrent == poll.active /\ poll.operation = generation

PollServed ==
    /\ poll.pc = "asking"
    /\ poll' = [poll EXCEPT !.pc = "answered", !.answer = Shown(poll.run)]
    /\ UNCHANGED <<backend, late, opened, start, settled, sent, generation, state, bounds>>

Continues(pc) == poll' = [poll EXCEPT !.pc = pc, !.failures = 0, !.answer = Nothing]

\* getProgress answered.
PollAnswered ==
    /\ poll.pc = "answered"
    /\ IF ~IsCurrent
       THEN poll' = NoPoll /\ UNCHANGED state
       ELSE /\ progress' = poll.answer
            /\ error' = Nothing
            /\ \/ /\ poll.answer.status \in {"completed", "failed"}
                  /\ Continues("fetching")
                  /\ UNCHANGED <<terminalMessage, busy>>
               \/ /\ poll.answer.status = "cancelled"
                  /\ poll' = NoPoll
                  /\ terminalMessage' = poll.run
                  /\ busy' = FALSE
               \/ /\ poll.answer.status \in {"queued", "running"}
                  /\ Continues("waiting")
                  /\ busy' = TRUE
                  /\ UNCHANGED terminalMessage
            /\ UNCHANGED <<requested, runId, report>>
    /\ UNCHANGED <<backend, late, opened, start, settled, sent, generation, bounds>>

\* getReport of a completed run, getRun of a failed one.
FetchAnswered ==
    /\ poll.pc = "fetching"
    /\ poll' = NoPoll
    /\ IF ~IsCurrent
       THEN UNCHANGED state
       ELSE /\ busy' = FALSE
            /\ IF progress.status = "completed"
               THEN /\ report' = [run |-> poll.run,
                                  clean |-> ~Analyzed(backend[poll.run])]
                    /\ UNCHANGED terminalMessage
               ELSE terminalMessage' = poll.run /\ UNCHANGED report
            /\ UNCHANGED <<requested, runId, progress, error>>
    /\ UNCHANGED <<backend, late, opened, start, settled, sent, generation, bounds>>

\* Mutant: the polling never gives up.
PollFailsForever ==
    /\ poll.pc \in {"asking", "answered", "fetching"}
    /\ Fault
    /\ IF ~IsCurrent
       THEN poll' = NoPoll /\ UNCHANGED state
       ELSE /\ error' = [from |-> "poll", of |-> poll.run]
            /\ poll' = [poll EXCEPT !.pc = "waiting", !.failures = @ + 1, !.answer = Nothing]
            /\ UNCHANGED <<requested, runId, progress, report, terminalMessage, busy>>
    /\ UNCHANGED <<backend, late, opened, start, settled, sent, generation>>

\* One of the calls of a round failed: try again later, or give up.
PollFails ==
    /\ poll.pc \in {"asking", "answered", "fetching"}
    /\ Fault
    /\ IF ~IsCurrent
       THEN poll' = NoPoll /\ UNCHANGED state
       ELSE /\ error' = [from |-> "poll", of |-> poll.run]
            /\ IF poll.failures + 1 < MaxTransientFailures
               THEN /\ poll' = [poll EXCEPT !.pc = "waiting", !.failures = @ + 1,
                                            !.answer = Nothing]
                    /\ UNCHANGED busy
               ELSE /\ poll' = [poll EXCEPT !.pc = "stopped", !.failures = @ + 1,
                                            !.answer = Nothing]
                    /\ busy' = FALSE
            /\ UNCHANGED <<requested, runId, progress, report, terminalMessage>>
    /\ UNCHANGED <<backend, late, opened, start, settled, sent, generation>>

\* The timer; the cleanup clears it.
Timer ==
    /\ poll.pc = "waiting"
    /\ poll.active
    /\ poll' = [poll EXCEPT !.pc = "asking"]
    /\ UNCHANGED <<backend, late, opened, start, settled, sent, generation, state, bounds>>

-----------------------------------------------------------------------------
(* Commands of the user.                                                    *)

Send(call) ==
    /\ Rendered
    /\ runId # Nothing
    /\ commands < MaxCommands
    /\ commands' = commands + 1
    /\ sent' = sent \cup {[n |-> commands', call |-> call, run |-> runId,
                           pc |-> "sent", heard |-> TRUE]}
    /\ UNCHANGED <<faults, resets>>

Configure ==
    /\ Send("configure")
    /\ error' = Nothing
    /\ terminalMessage' = Nothing
    /\ busy' = TRUE
    /\ UNCHANGED <<requested, runId, progress, report>>
    /\ UNCHANGED <<backend, late, opened, start, loops, generation>>

\* Without a run it does nothing at all.
Cancel ==
    /\ Send("cancel")
    /\ UNCHANGED <<backend, late, opened, start, loops, generation, state>>

Ready(r) == backend[r].status = "running" /\ backend[r].stage = "awaiting"

\* The call c of the user is now at pc.
Now(c, pc) == sent' = (sent \ {c}) \cup {[c EXCEPT !.pc = pc]}

\* configure_strategies and cancel_run read the run ...
CommandRead(c) ==
    /\ c.pc = "sent"
    /\ \/ /\ c.call = "configure"
          /\ Now(c, IF Ready(c.run) THEN "admitted" ELSE "refused")
       \/ /\ c.call = "cancel"
          /\ Now(c, CASE backend[c.run].status \in {"queued", "running"} -> "admitted"
                      [] backend[c.run].status = "cancelled" -> "accepted"
                      [] OTHER -> "refused")
    /\ UNCHANGED <<backend, late, opened, start, loops, generation, state, bounds>>

\* The strategies of a run, and a runner that repairs it if it is running: a
\* second one when they are chosen twice.
Configured(r) ==
    LET row == backend[r] IN
    IF row.status # "running" THEN [backend EXCEPT ![r].stage = "repairing"]
    ELSE [backend EXCEPT ![r] =
            [row EXCEPT !.stage = "repairing", !.tasks = @ + 1,
                        !.phase = IF row.phase = "awaiting" THEN "repairing" ELSE "twice"]]

\* ... and commit without looking again.
CommandCommit(c) ==
    /\ c.pc = "admitted"
    /\ Now(c, "accepted")
    /\ backend' = IF c.call = "cancel" THEN Cancelled(c.run) ELSE Configured(c.run)
    /\ UNCHANGED <<late, opened, start, loops, generation, state, bounds>>

\* Mutant: the spinner is left on.
CommandErrorStaysBusy(c) ==
    /\ error' = [from |-> "command", of |-> c.run]
    /\ UNCHANGED <<requested, runId, progress, report, terminalMessage, busy>>

\* The catch block of configure and cancel compares nothing.
CommandError(c) ==
    /\ error' = [from |-> "command", of |-> c.run]
    /\ busy' = FALSE
    /\ UNCHANGED <<requested, runId, progress, report, terminalMessage>>

CommandAnswered(c) ==
    /\ c.pc \in {"accepted", "refused"}
    /\ sent' = sent \ {c}
    /\ IF c.pc = "refused" /\ c.heard THEN CommandError(c) ELSE UNCHANGED state
    /\ UNCHANGED <<backend, late, opened, start, loops, generation, bounds>>

\* Not executed, its answer lost, or given up and still to be executed.
CommandFails(c) ==
    /\ c.heard
    /\ Fault
    /\ \/ sent' = sent \ {c}
       \/ /\ c.pc \in {"sent", "admitted"}
          /\ sent' = (sent \ {c}) \cup {[c EXCEPT !.heard = FALSE]}
    /\ CommandError(c)
    /\ UNCHANGED <<backend, late, opened, start, loops, generation>>

ResetState ==
    /\ requested' = FALSE
    /\ runId' = Nothing
    /\ progress' = Nothing
    /\ report' = Nothing
    /\ error' = Nothing
    /\ terminalMessage' = Nothing
    /\ busy' = FALSE

\* Mutant: the calls in flight are not superseded.
ResetKeepsGeneration ==
    /\ resets < MaxResets
    /\ resets' = resets + 1
    /\ ResetState
    /\ UNCHANGED <<backend, late, opened, start, loops, sent, generation, faults, commands>>

Reset ==
    /\ resets < MaxResets
    /\ resets' = resets + 1
    /\ generation' = generation + 1
    /\ ResetState
    /\ UNCHANGED <<backend, late, opened, start, loops, sent, faults, commands>>

-----------------------------------------------------------------------------

\* What happens without the user: the backend, the network, the browser.
BackendStep(r) == SetStage(r) \/ AwaitStrategy(r) \/ Decide(r)

StartStep(r) == \/ UploadAnswered(r) \/ CreateServed(r) \/ CreateAnswered(r)
                \/ StartRead(r) \/ StartCommit(r) \/ StartAnswered(r)
                \/ ReconcileServed(r) \/ ReconcileAnswered(r)
                \/ WithdrawRead(r) \/ WithdrawCommit(r)

PollStep == PollServed \/ PollAnswered \/ FetchAnswered \/ Timer

CommandStep(c) == CommandRead(c) \/ CommandCommit(c) \/ CommandAnswered(c)

CallFails == \/ PollFails
             \/ \E c \in sent : CommandFails(c)
             \/ \E r \in Runs : \/ UploadFails(r) \/ CreateFails(r)
                                \/ StartFails(r) \/ ReconcileFails(r)

SystemStep == \/ PollStep \/ CallFails
              \/ \E c \in sent : CommandStep(c)
              \/ \E r \in Runs : BackendStep(r) \/ StartStep(r)

UserStep == \/ Configure \/ Cancel \/ Reset
            \/ \E r \in Runs, mode \in Modes : Start(r, mode)

Next == SystemStep \/ Effect \/ UserStep

Spec == Init /\ [][Next]_vars

Decided(r) == r # Nothing /\ backend[r].verdict # "none"

InFlight(r) == start[r].pc \in Calls

\* What waits for an effect, a backend at work on a running run (UploadRun's
\* liveness) or an answer someone waits for.
Served ==
    \/ Effect
    \/ \E c \in sent : c.heard /\ CommandStep(c)
    \/ \E r \in Runs : \/ (backend[r].status = "running" /\ BackendStep(r))
                      \/ (InFlight(r) /\ StartStep(r))

\* There are finitely many such steps, so that each is taken in the end, and the
\* loop is not starved.  That a call someone waits for settles, answered or
\* failed, is assumed; one that was given up need not be executed.
Fairness == WF_vars(Served) /\ WF_vars(PollStep)
FairSpec == Spec /\ Fairness

-----------------------------------------------------------------------------

\* What the variables range over.
TypeOK ==
    /\ backend \in [Runs -> Rows]
    /\ late \subseteq Runs
    /\ opened \subseteq Runs
    /\ start \in [Runs -> Starts]
    /\ poll \in Polls
    /\ poll.pc # "off" => poll.run \in Runs
    /\ poll.pc = "waiting" => poll.failures < MaxTransientFailures
    /\ sent \subseteq Commands
    /\ settled \in (Runs \cup {Nothing}) \X (Runs \cup {Nothing})
    /\ generation \in Nat
    /\ requested \in BOOLEAN
    /\ runId \in Runs \cup {Nothing}
    /\ progress \in RunProgress \cup {Nothing}
    /\ report \in RunReport \cup {Nothing}
    /\ error \in Errors \cup {Nothing}
    /\ terminalMessage \in Runs \cup {Nothing}
    /\ busy \in BOOLEAN
    /\ faults \in Nat /\ commands \in Nat /\ resets \in Nat

\* The run completed; what two runners that repair it at once make of it in
\* the end is not said.
Finished(row) == row.verdict = "completed" \/ row.phase = "twice"

\* Whatever was started, superseded, lost or answered late: the progress, the
\* report, the end and the errors on the screen are those of the run being
\* followed or of the newest start.
ShownIsCurrent ==
    /\ progress # Nothing => progress.run = runId
    /\ report # Nothing => report.run = runId
    /\ terminalMessage # Nothing => terminalMessage = runId
    /\ error # Nothing /\ error.from = "poll" => error.of = runId
    /\ error # Nothing /\ error.from = "start" =>
          /\ runId = Nothing
          /\ \A r \in Runs : start[r].operation <= start[error.of].operation

\* A report is shown beside a completed run, of a verdict the backend keeps,
\* unless the strategies were chosen twice and two runners repaired the run.
ReportIsFinal ==
    report # Nothing =>
        /\ Finished(backend[report.run])
        /\ progress # Nothing /\ progress.status = "completed"

\* A start in flight looks idle only after the failure of a command sent for
\* an earlier run, which no one compares with the generation.
PendingIsBusy ==
    (\E r \in Runs : InFlight(r) /\ Current(r)) /\ ~busy =>
        error # Nothing /\ error.from = "command"

\* An idle hook that was asked for a run shows why, or what became of it, or
\* is about to ask the backend.
IdleIsExplained ==
    requested /\ ~busy =>
        \/ error # Nothing \/ terminalMessage # Nothing \/ report # Nothing
        \/ ~Rendered
        \/ poll.pc \in {"asking", "answered", "fetching"} /\ IsCurrent

\* A start reported as failed leaves no run working behind the user's back, and
\* a run taken back stays so even when its start call is executed late.  Except
\* a run taken back between the read and the commit of its start call, which
\* nothing stops from committing ("overtaken").
FailedStartIsNotRunning ==
    \A r \in Runs : start[r].pc \in {"failed", "withdrawn"} => backend[r].status # "running"

\* The spinner is off, and a run that is decided is shown as decided; or the run
\* waits for the user's strategies; or MAX_TRANSIENT_FAILURES calls in a row
\* failed and polling was given up, which the hook never takes up again.
AtRest ==
    \/ /\ ~busy
       /\ Decided(runId) =>
             \/ report # Nothing
             \/ progress # Nothing /\ progress.status \in {"failed", "cancelled"}
    \/ runId # Nothing /\ Ready(runId)
    \/ poll.pc = "stopped"

\* Whatever fails once, is superseded or comes late, if every call settles the
\* hook comes to rest: it does not poll for ever, lose its timer, keep the
\* spinner of a call that is over, or miss the verdict of the run it follows
\* while it polls.
ComesToRest == []<>AtRest
=============================================================================
