# SecureEval in TLA+

SecureEval runs a Python program (a built-in benchmark, an upload, or one a
model generates from a prompt) through tests and scanners, lets the user choose
repair strategies, has a model repair it once per strategy, evaluates every
repair and stores a report. A FastAPI backend keeps everything in SQLite and a
work directory; a React client polls it.

The modules here model the control of the backend (which thread reads and
commits what, in which order, and what may happen in between), of the client
(which answer is used for what, what a screen offers and what a refresh makes of
it) and of the scripts that verify both together. TLC checks them on small
instances; the TLA+ proof system proves the theorems for every value of the
constants. Paths below are relative
to the repository; `app/` is `backend/app/`.

## 1. The system

### Components

| component | code | state | operations |
|---|---|---|---|
| Run rows | `app/models.py`, `app/runner_support.py` | `runs` (status, stage, progress_json, failure, manifest), `strategy_attempts`, `run_reports` | `set_stage`, `fail_run`, `run_cancelled`, `cleanup_run` |
| Run API | `app/services.py`, `app/main.py` | none between requests | create, start, strategies, cancel; get, progress, report only read |
| Benchmark runner | `app/runner.py` | its local variables, the work directory | `execute_baseline`, `execute_repairs` |
| Upload runner | `app/upload_runner.py` | same | `execute_upload_baseline`, `execute_upload_repairs` |
| Custom runner | `app/custom_runner.py` | same | `execute_custom_baseline`, `execute_custom_repairs` |
| Report store | `app/reports.py` | report, findings, tests, calls, metrics rows | `save_report`, `load_report` |
| Upload service, artifact store | `app/uploads/service.py`, `store.py` | `upload_artifacts`, one directory per source | accept, reject, expire, delete; bound by `create_run` |
| Upload validation | `app/uploads/validation.py` | none | `validate_source` |
| LLM client | `app/llm/`, `generated_code.py`, `repairs.py` | none | `complete` (two tries), `repair_source` |
| Docker executor | `app/sandbox/` | containers, active executions | `execute`, `cancel` |
| Tool adapters | `app/tools/` | child processes | run with a timeout |
| Scoring | `app/scoring.py` | none | scores and ranking |
| Manifests, catalogue, schemas | `app/manifests.py`, `benchmarks.py`, `schemas.py` | none | pure |
| Live run hook | `frontend/src/useLiveRun.ts`, `api/client.ts` | run id, progress, report, error, terminal message, busy, generation; the newest polling loop | three starts, poll, reconcile, configure, cancel, reset |
| Screens and navigation | `frontend/src/App.tsx`, `screens/`, `components/Shell.tsx` | screen, mode, task, prompt, categories, strategies | the buttons of eight screens, the sections |
| Session persistence | `App.tsx:43-147`, `1961-1987` | one item of sessionStorage | save, restore, forget |
| API contracts | `frontend/src/contracts/api-v1.ts` | none | types, path builders |
| Verification scripts | `frontend/scripts/verify-real-*.mjs`, `verify-responsive-layout.mjs` | a temporary directory, a backend process, the port | set up, check, take down |
| Simulated demo screens | `App.tsx:863-1944`, `LiveScreens.tsx` | drafts, timers | never rendered |
| Development server plugins, contract tests | `frontend/vite.config.ts`, `*.contract-test.ts` | none of the program's | |

### How they interact

* Every endpoint is a `def` (a thread of its own) except `POST /uploads`, an
  `async def` that does not await between its cleanup and its commit and so
  holds the event loop. A start and a configuration schedule the runner as a
  background task, which is another thread.
* Threads share the rows and the work directory and nothing else. No row is
  locked and no transaction spans a read and the commit that follows from it:
  `SELECT`s run outside a transaction, a commit writes the columns that differ
  from what the session read. The only guarded write is the claim of an upload.
* Cancellation is a status: `cancel_run` commits it and removes the work
  directory; a task finds out when it next asks `run_cancelled`.
* An upload is two things changed by different calls: a directory and a row.
* A restart runs `cleanup_expired_uploads` and resumes no run.
* The API client gives a call no timeout: it settles when the browser says so.
* The hook and the API share nothing but calls. A start is up to three of them
  (upload, create, start) and two more when the last one failed (read the run,
  cancel it if it is still queued); a loop polls one or two at a time; strategies
  and cancel are one each. One callback runs at a time, what lies between two
  awaits is one step, and answers of different calls come in any order.
* Starts, the polling effect and `reset` each take a new number from one
  counter, `generation`; an answer is used if the counter has not moved since.
  `configure` and `cancel` do not look at it.
* The screens read the hook's state after each commit and call its operations;
  the effects of a commit (poll, save, skip to the results) run before the next
  click. What a refresh finds is what the save effect wrote last.
* The scripts start a backend each on the same port and talk to whoever answers
  there.

### What is hard, and what makes each part correct

`PROJECT.json` lists each hazard with its line. In short:

* **Runs.** Two tasks and several requests work on the same rows from
  snapshots. Correct means: a completed run has its report; a running run has a
  task or waits for its user; what waits is ready; stages, finished stages,
  attempts and report agree; a failure of one step is the failure of what the
  code says it is; every run comes to an end and its directory is reclaimed;
  a cancellation stops the work and stays.
* **Uploads.** Retention deletes what creations are about to use. Correct
  means: one run per upload; a usable row has its directory; a deleted one has
  none; nothing is orphaned; a run in progress keeps its source.
* **Live run hook.** Answers arrive late and out of order; a start call that
  failed may be executed all the same, even after the run was read as queued.
  Correct means: what is shown belongs to the run followed or to the newest
  start; a start reported as failed leaves nothing at work; an idle hook says
  why; a decided run is shown; no spinner outlives the calls it stands for.
* **Screens.** Every screen assumes a past: a run that was started, a baseline
  that ended, a report. Correct means that no path of buttons, answers,
  failures, section changes and refreshes reaches a screen without it, and that
  a refresh comes back to where it was.
* **Scripts.** Processes outlive scripts and share a port. Correct means: no
  directory is removed under a running backend, a script that passes leaves
  nothing behind, and it has checked its own backend.
* **LLM client, tools.** Timeouts and retries; every outcome becomes a status.
* **Scoring, validation.** Boundaries: zero findings, zero tests, limits.

## 2. Modules

```
RunStore    rows, sessions, snapshots, commits; fail_run; types of the threads
  RunWorker   helpers and sessions the three runners share; save_report
    RunApi      Init (create_run), start, configure, cancel, restart
      RunSafety   TypeOK and the properties common to the modes
        BenchmarkRun   runner.py         -> MCBenchmarkRun
        UploadRun      upload_runner.py  -> MCUploadRun
        CustomRun      custom_runner.py  -> MCCustomRun
RunVerdict  abstract specification, instantiated by RunSafety
UploadArtifacts  uploads and their runs  -> MCUploadArtifacts
LiveRun     useLiveRun.ts over the API's calls  -> MCLiveRun
  DemoApp     App.tsx, screens, session           -> MCDemoApp
VerifyScripts  frontend/scripts

RunProofs -> BenchmarkRunProofs, UploadRunProofs, CustomRunProofs
UploadArtifactsProofs
LiveRunProofs -> DemoAppProofs
VerifyScriptsProofs
```

**RunStore** is one run: its row (`run`), its attempts' rows (`attempts`), its
report, its work directory, and what each request thread (`handler`) and
background task (`worker`) is doing. A session takes a `Snapshot` in one step
and ends with `Commit(seen, new)` in a later one; `Merge` writes the columns the
session changed and leaves the others as they are *now*, which is what lets a
task store a stage under a cancelled status. `StaleData` is the exception of an
UPDATE whose row another session deleted.

**RunWorker** names the steps runners are built from. `StageSession` is "ask
`run_cancelled`, then `set_stage`"; `ToolCall` one tool or model call (Bandit and
Semgrep are two, with no question about cancellation between them);
`FillDirectory` a `copytree` or an `open(..., "x")`; `RecordOutcome` the session
that writes an attempt's result; `FinalSession` the one that asks once and
commits three times; `FailRun` and `FinallyCleanup` the ends of a task.
`CommitAndKeep` is a commit after which the session goes on with the objects it
has (`expire_on_commit=False`).

**BenchmarkRun, UploadRun, CustomRun** have one action per session or call of
the two functions of their runner, under the names of the stages. Their
differences are the code's: the benchmark's baseline has no `finally`; an upload
without findings completes in its baseline; a failed upload repair is an
attempt's failure and the next one is tried; the custom runner records outcomes
without asking about cancellation.

**RunVerdict** is what the lifecycle promises with the pipeline removed: started
once, one verdict ever, and a withdrawal that neither waits for the verdict nor
is waited for. `RunSafety!Verdict` maps a row to it: the verdict is `completed`
when there is a report and `failed` when there is a failure code.

**UploadArtifacts** has the event loop as one actor (`loop`: startup cleanup,
then one upload at a time, each with its own cleanup), a `creator` thread per
concurrent `create_run`, and the rows and directories. `CleanupScan` reads the
rows, `CleanupArtifact` decides on each and deletes its directory,
`CleanupCommit` writes the rows: three kinds of step, with claims, ends of runs,
expiries and a stop of the process in between. Time is a bit per row.

**LiveRun** is the hook. `start` holds one record per run: which call of
`createAndStart` it awaits (`pc`), the generation it took (`operation`) and what
reconciliation read (`seen`); a run is named when its start is clicked, the
identifier `create_run` will hand out, which is not the user's to choose
(`Unused`). `poll` is the newest polling loop, `sent` the strategies and cancel
calls in flight (any number: nothing keeps the user from a second one),
`settled` the dependencies the effect last ran for (`Rendered` says it need not
run). `backend` has each run's row, how far its runners are (`phase`), how many
of them are at work (`tasks`) and the last verdict one gave. The requests that
change a row are served in two steps, as in `RunApi`: `StartRead` and
`StartCommit`, `CommandRead` and `CommandCommit`, `WithdrawRead` and
`WithdrawCommit`; what was read may be false when it is committed. A start call
that has read and not committed is in `opened`, one the browser gave up and the
backend may still execute in `late`, and a command given up stays in `sent`
unheard. After the service comes the answer (`...Answered`), or the call fails
(`...Fails`) before or after it was served. A start commits over a cancellation
that came in between: such a run is `overtaken`. Strategies chosen twice put two
runners to work (`phase` is `twice`), and a runner's verdict lands on a
cancelled run. The other variables are the hook's `useState` cells under their
own names.

**DemoApp** is `App` over `LiveRun`: each `UserStep` of the hook happens through
the button that calls it, under the conditions the screen renders that button
with. `Effects` is what React runs after a commit, in order; a button needs
`Settled`, the state in which they have run. `Reload` is a refresh at any
moment, also between a commit and its effects: it keeps `backend`, `late` and
`stored`, and takes the rest from `LoadDemoSession`, whose three corrections in a
row are `RestoredScreen`. The prompt is one of six kinds, because the code
compares what is left of it after `trim` with 20, and a refresh cuts it at 1,000
before it trims: `padded` is long enough, and not once it is cut. `BaselineReady`
is the stage `awaiting_strategy` and nothing more, as in the screens.

**VerifyScripts** runs scripts one after another: each has a kind, a step of its
`try` or `finally`, its directory and its backend process. `Bind` and `Exit` are
the processes' own steps, with the port taken by at most one of them.

### Abstractions

* A strategy is its position in the selection; an attempt is
  `<<batch, position>>`. Sources, findings, test output, messages, hashes and
  timestamps are left out; `progress_json` is the set of finished stages, the
  current attempt and whether the evidence is there.
* A session's reads of `runs` and `strategy_attempts` are one snapshot; the two
  SELECTs behind it are not interleaved with other commits.
* Requests answered 409 and endpoints that only read change nothing and are no
  steps. The run is created by `Init`; nothing deletes a run.
* The exceptions of a tool or model call are a choice in every `ToolCall`; the
  codes `generation_<status>` are one code. A "database is locked" error is one
  of the exceptions of `save_report` only.
* A removal fails, if it does, in the cleanup (`CleanupRaises`), not in the undo
  of `accept_upload`. Audit rows are left out.
* `cleanup_run` is `rmtree(ignore_errors=True)` and is taken as succeeding: a file
  the operating system does not let go is left without a word, and the
  properties about work directories say nothing of that.
* In UploadArtifacts the life of a run is *active* or *terminal*.
* In LiveRun a failed call is one that was not executed, whose answer was
  lost or which is executed later; HTTP errors of a command are the answer
  `refused`. That every call settles is assumed (see Liveness). Which strategies, the
  prompt, the source and the words of a message are left out; an error is where
  it came from and the run it is about. A report says only whether the run
  completed clean.
* In DemoApp the drafts inside one screen (the highlighted task, the pasted
  source and the name of its file) are left out, and a browser that refuses to
  store. A command that a refresh finds in flight goes on unheard; of a start
  only the start call does (`late`, `opened`), and a withdrawal it finds in
  flight is taken as not executed. The "Repair with AI" that the results screen
  would offer for an upload without AI evidence (`App.tsx:2177`) is left out: this
  backend's reports never lead there.
* In VerifyScripts a group of page assertions passes or throws; it passes only
  with a backend that suits the script. The preview server and the browser end
  with their script.

## 3. Checks

Where there are workers, every run uses two slots: baseline and repairs are the
only tasks an accepted protocol can have at once, and two suffice for every pair
of tasks (a commit that schedules a third waits for a slot, which only the
overlapping runs can meet). A run, a page and a script may simply end, so
deadlock is not checked.

| run | instance | states | shows |
|---|---|---|---|
| `BenchmarkRun` | 1 request at a time, 2 strategies, 1 configuration, 1 restart | 12 k | safety, refinement of RunVerdict |
| `UploadRun` | the same, fair | 67 k | report, cancellation, directory, every run settles |
| `CustomRun` | the same, fair | 81 k | a cancellation stops and ends the work |
| `BenchmarkOverlap` | 2 requests overlapping, 1 strategy, 2 configurations, no restart | 1.4 M | what survives double starts, double configurations and crossing requests |
| `UploadArtifacts` | 3 uploads, 2 runs, 2 creators, 2 races, 2 stops | 31 k | rows, directories, claims |
| `LiveRun` | 2 uploaded runs, any 3 of 2 failed calls, 1 command and 1 reset, give-up after 2, fair | 0.9 M | what the hook shows, what a failed start leaves, and that it comes to rest |
| `DemoApp` | 2 runs of any mode, any 2 of 2 faults (failed call or refresh), 1 command and 1 section change, give-up after 2 | 0.5 M | no screen without its past, refreshes come back |
| `VerifyScripts` | 2 scripts of any kind, either platform | 236 k | directories, processes, the port |
| `CancelOverwritten` | violation | | a cancelled run becomes completed or failed |
| `CancelLeavesDirectory` | violation | | a cancelled benchmark baseline leaves its directory |
| `DoubleStart` | violation | | two baseline tasks on one run |
| `ArtifactLost` | violation | | an active run loses its source to a cleanup |

**Properties of a run** (`RunSafety` unless noted). `OneTaskAtATime`: a repair
task starts only when the baseline task has written its last row.
`RunningIsOwned`: a running run has a task or awaits its user.
`AwaitingIsReady`: what waits for a strategy has its evidence, both stages,
queued attempts and no task about to write. `ProgressOnlyGrows`: no session
loses a stage that was finished. `ReportCoversAttempts`: the report lists
exactly the attempts the run has, with the outcomes of their rows.
`CancelStopsWork` (a history variable, `overrun`, counts): after a cancellation
at most two tool or model calls end, in every mode. No runner asks between
Bandit and Semgrep, the custom runner does not between the model's answer and
the smoke run, and a session that asked just before the cancellation goes on to
its call; before any third call each of them has asked. `RepairedRunIsReclaimed`
(while the process lives) / `FinishedRunIsReclaimed`: nothing is left in the
work directory. `CompletedHasReport`, `NeverRequeued`: under any interleaving.
`ImplementsVerdict`: the refinement. Each is checked in the mode whose code puts
it most at risk: the report and the exits where attempts fail one by one, the
cancellation where outcomes are recorded without asking.

**Properties of the client.** `ShownIsCurrent`: progress, report, end and errors
are those of the run followed or of the newest start. `ReportIsFinal`: a report
stands beside a progress that says completed, of a run that completed, or whose
strategies were chosen twice: what two runners make of it is not said.
`PendingIsBusy`: a start in flight looks busy, except after the failure of a
command of an earlier run. `IdleIsExplained`: a hook that is not busy has
something to say or is about to ask. `FailedStartIsNotRunning`: no start
reported as failed leaves a run at work, though its call be executed late;
except a run whose start call had read it when it was taken back and commits
afterwards, which `start_run` does not prevent (`overtaken`). `ComesToRest`:
again and again the spinner is off and a decided run is shown as decided, or the
run awaits its strategies, or four failures in a row ended the polling, which
the hook never takes up again. `RunIsOfThisWorkflow`, `NoDeadScreen`,
`RepairsFollowBaseline`, `ResultsAreFinal` (chosen twice excepted, as in
`ReportIsFinal`): what each screen takes for granted. `WaitingScreenWaits`: the
two waiting screens that are given the hook's messages, an upload's baseline and
the repairs, have one to show, the report or a poll under way when the spinner
is off. `RefreshKeepsPlace`: a refresh of a settled page keeps run, mode and
screen, or goes to the setup: of an upload whose run was not known yet, or of a
prompt that is too short once it is cut and trimmed.

**Properties of the scripts.** `RemovedRootIsUnused`: the upload script removes
its directory only when its backend is gone. `failures` records, per script, a
`taskkill` and an `rm` that failed. `PassedLeavesNothing`: a script that passes
leaves its directory only if its `rm` failed, and its backend only if its
`taskkill` did or it was killed and is about to exit; an upload script leaves
neither. `AnsweredByItsOwn`: a backend answers a script other than its own only
if the `taskkill` of its own script failed.

**One request at a time, and overlapping.** With `MaxOverlaps = 0` a request is
served to its end before the next one is read, while tasks interleave with it
freely: this is one client clicking one button. Most properties are stated for
that regime, because the endpoints are check-then-commit: with two requests
served at once `OneTaskAtATime`, `AwaitingIsReady`, `ReportCoversAttempts` and
the refinement all fail (two baseline tasks, or two batches of attempts).
`BenchmarkOverlap` keeps what survives one overlap, two configurations that both
commit included, and `DoubleStart` shows the root of the rest. It has no
restart: `RunningIsOwned` speaks of a process that lives, and its two other
properties are proved for any number of restarts. Its states are taken up to
`Live` (a VIEW): the columns that no step and no property of the run reads, and
the locals a thread does not use again, are left out. With four overlapping
requests `RunningIsOwned` fails too (section 4).

**Liveness.** For the backend, `EventuallySettles`: a running run comes to its
user or to an end (or the process dies). `CancelEndsWork`: after a cancellation
every task ends. Assumed is weak fairness of each task's step and of each
started request's step: threads are scheduled, and every tool, scanner and model
call has a timeout (`app/tools/process.py`, `app/llm/client.py`), so a phase
ends. Nothing is assumed of clients: no request is ever owed. For the hook
(`LiveRun!Fairness`), `ComesToRest` assumes that the backend decides a run it
works on (`EventuallySettles`), that the browser runs effects and timers, and
that a call someone waits for settles, answered or failed. The last is an
assumption about the network and the browser: `api/client.ts` gives its requests
neither a timeout nor an `AbortSignal`, and a call that hung would keep its
spinner. `Fairness` asks for no more than that some such step is taken while
there is one, and that the loop is not starved: a run, a start and a command
have finitely many. Nothing is assumed of a call that was given up, nor of the
user; a run that awaits strategies may wait for ever, and a loop that was given
up is at rest though its run goes on: `ComesToRest` says so.

**Bounds.** `MaxStrategies` 2 (the code: 3) has a first, a middle-or-last and a
failed-then-next attempt; `MaxBatches` 1 is all that is possible in the serial
regime, since a configured run never awaits a strategy again, and 2 in
`BenchmarkOverlap` lets both of two configurations commit; `MaxCrashes` 1 or 2
puts a stop in every state; `MaxRaces` 2 lets both creators race. Three uploads
give a cleanup one in use, one to delete and one being accepted. Two runs give
the client a start that is superseded and the one that supersedes it; they are
uploads because an upload's start makes every call the other two make (a
benchmark's verdict differs, and `DemoApp` has all three modes). Two failed
calls in `LiveRun` give a start that fails and whose reconciliation fails, or a
poll that fails until it gives up (`MaxTransientFailures` 2 instead of 4 has a
failure that is retried and one that is not). `LiveRun` and `DemoApp` have one
command, which may outlive the start or the page it was sent from; that the
hook's and the screens' invariants hold with any number in flight, the double
configuration included, is proved (section 4), and `ComesToRest` is checked with
one. A refresh loses the calls under way and counts as one of the faults
(`Fault`). `LiveRun` takes at most three of its two faults, its command and its
reset in one behaviour (`AnyThree`); none of these steps is owed by the
fairness. `DemoApp` takes any two of the same (`AnyTwo`), a section change being
its reset, between any two steps. A prompt there is typed too short, or too long
with text or mostly with blanks; a refresh cuts it. Its states are taken up to
`Live` as well: operations only compared with the newest, and whether there is
an error, not whose. The bounds are the largest that stay within minutes. Two
scripts are an earlier one whose backend survives and a later one that meets it.

**Mutants.** Each checked property is broken by a plausible slip in one mapped
definition; it stands before the definition it would replace, under a comment
that begins with `Mutant:`.

### What the violations say

* `CancelIsFinal`. The runner's verdict and a cancellation are both
  read-then-commit; the last commit wins. `set_stage` does not touch the status,
  so only `fail_run` and `save_report` overwrite it. The lifecycle test cancels
  a run and expects it to be cancelled afterwards, after a restart too.
* `CancelledLeavesNothing`. `cancel_run` removes the directory while the
  baseline may be about to copy into it; the benchmark's `execute_baseline` has
  no `finally`. The other two runners do (`FinishedRunIsReclaimed` holds for uploads).
* `StartedOnce`. `start_run` is not an UPDATE guarded by the status, unlike the
  claim of an upload, which is (`ClaimedOnce` holds).
* `ActiveRunKeepsSource`. The cleanup looks at the `bound_run_id` it read; an
  upload must expire between the creation's check and its claim.
  `SourceKeptWithoutRace` shows that this is the only way.

## 4. Proofs

Unless a theorem says `MaxOverlaps = 0`, it holds for any number of threads,
strategies, configurations, overlapping requests, uploads, creators, restarts,
failed calls, commands, resets, refreshes and scripts. The assumptions are
`StoreAssumption`, `ArtifactAssumption`, `LiveRunAssumption`,
`DemoAppAssumption` and `MaxScriptsAssumption` (bounds are naturals,
`MaxTransientFailures` and the number of strategies not zero), and
`NothingIsNull` and `NothingIsNoSession`: `Nothing`, the code's `null`, is none of
the values it stands beside.

**Runs, however requests overlap** (`RunProofs` and the module of each mode).
`TypeCorrect`, `CompletedRunsHaveReports` (`[]CompletedHasReport`),
`RunsAreNeverRequeued`, and for uploads `FinishedRunsAreReclaimed`. The
inductive invariant `Typed` is the type invariant and two facts without which a
step leaves its type: a task at the steps that use the attempt in hand has one
(`Ready`), and a request between its read and its commit holds a snapshot
(`Holding`). `RunProofs` proves once per helper that `Typed` is kept and that
`StatusStep` holds: a step gives `runs.status` its old value, `running`,
`failed`, `cancelled`, or `completed` together with a report, and never removes
a report. The lemma `CommitEffect` is the core: a merge moves the status only to
a value that session wrote. `CompletedHasReport` and `NeverRequeued` follow from
`StatusStep`. Each mode's module has one step per action of that mode and cites
the helper's lemma. `Reclaimed` says that a run that is over and left something
on disk has a task or a cancellation that has not ended; every exit of the
upload runner goes through its `finally`, which is why no regime has to be
assumed.

**Runs, one request at a time.** The theorems that assume `MaxOverlaps = 0` (see
"One request at a time, and overlapping" in section 3) rest on `Serial`: the
handler, the two tasks, the stage and the rows determine each other. Its parts
need each other:

* `OneTaskAtATime` and `RunningIsOwned` need the stage: a configuration is
  accepted because the run awaits, and a run that awaits has no task that
  will write (`AwaitingIsReady`); so `Asked` says that what a request has read
  is still so when it commits, but for a cancellation.
* `Engaged`: a task works for a run without a verdict, at the steps of its job.
* `UpToDate`: unless the run was cancelled meanwhile, what the session has read
  is what the rows are, so that `Merge` loses nothing.
* `Staging`: what a baseline has finished is a function of its step;
  `Covering`: what a repair task has still to do, has in hand and has recorded
  are the attempts of the run, and what it recorded is what their rows say.

From it follow `TasksExclude`, `AwaitingRunsAreReady`, `RunningRunsAreOwned` and
`ReportsCoverAttempts`. `SerialStep` says what every step of the regime may do:
it is a step of `RunVerdict` or leaves the verdict, which is the refinement
(`VerdictImplemented`, in all three modes), and it takes no finished stage away
(`ProgressGrows`). The budget `Cost` (calls made after a cancellation plus
those the task may still make, `Left`) gives `CancelledRunsStop` in all three
modes: at most two. `Reclaimed` for runs past their
strategies gives `RepairedRunsAreReclaimed`, while the process lives: the
benchmark's repairs have a `finally`, its baseline has none, and the regime is
what keeps the two apart.

**Uploads** (`UploadArtifactsProofs`). `TypeCorrect`, `ClaimsAreExclusive`,
`UsableRowsHaveSources`, `DeletedRowsHaveNone`, `OnlyCrashesOrphan`,
`SourceLostOnlyToRaces`: every invariant the run checks. `IInv` adds to them
`Accepting` (the upload in progress has no row; before `store` no directory),
`Cleaning` (a cleanup holds only rows expired and still available; those it will
mark have lost their directory), `CreatorsHaveRead`, and `NothingRaced` (without
a race, what a creation found is still so, and what a cleanup read of a claim is
still what the row says). One lemma per action, one step per conjunct.

**The hook** (`LiveRunProofs`): every invariant the run checks.
`FailedStartStaysStopped` (`[]FailedStartIsNotRunning`) needs `StartInv`:
`Placed`, what the row of a run may be, given where its start is (no row before
its creation; a run taken back is cancelled or decided and no start call of it
is on its way or about to commit; a start reported as failed was either over
when it was read or never sent), and `Asked`, that only a run whose start was
confirmed is followed or commanded. Without `Asked` a command could disturb a
start in flight. `ShownIsTheNewest` (`[]ShownIsCurrent`) and `ReportsAreFinal`
(`[]ReportIsFinal`) follow from `ShowInv`: `Numbered` (every start in flight and
every loop has a number of its own, none newer than the counter), `Followed`
(the current loop follows the run on the screen, and the newest start in flight
has nothing on it yet), `RowInv` (how a row's status, stage, phase, runners and
verdict go together: a run never completed without its runner's verdict, and has
at most one runner unless its strategies were chosen twice) and `Answered` (what
the loop read of a run that is over is its verdict). `Numbered` is why one
counter for starts and loops suffices; `Followed` needs the effect's `active`
flag for what the counter does not tell. `PendingStartsAreBusy`
(`[]PendingIsBusy`) and `IdleHooksSayWhy` (`[]IdleIsExplained`) are inductive
together, beside `ShowInv`, once two facts are added (`IdleInv`): `ShownOnce`, a
run is put on the screen by its own start, once, so that the effect always
begins a loop for it (with `PendingIsBusy` and what explains an idle hook that
follows a run, this is `Core`); and `QuietOnError`, while no run is followed
only an error turns the spinner off.

**The screens** (`DemoAppProofs`): every property the run checks. A refresh is
no step of the hook, so the hook's invariants are proved again for it: `ShowInv`
survives because `Numbered` asks for distinct numbers of starts in flight only
(the counter begins at zero again, and a refresh leaves no start in flight).
`RefreshedPagesShowTheNewest` states what the hook shows under refreshes. The
rest of `AppInv`: `Sound`, what a session takes for granted of the runs, holds
of the session on the screen *and* of the saved one, and what it counts on lasts
(`Lasting`: a run keeps its mode, a run shown stays shown, a baseline stays
behind it, a verdict stays); so a refresh, which makes the second the first,
needs no more. `NewestIsOurs` says that a start in flight that will put its run
on the screen is one of the workflow shown; `SeenAnalyzed`, that a run seen
awaiting its strategies has its baseline behind it, however old the answer;
`Waits`, that the screen of an upload without a run has its spinner or an error.
A refresh forgets the error, so of `IdleInv` only `Core` is kept here.
`RestoredScreen`'s three corrections matter for `RefreshesKeepTheirPlace` only:
`Sound` shows that of a settled page at most the first one changes the screen.
`RestoringIsStable` is about any saved session, reachable or not: the
corrections never go forward and do not undo each other, so that a second
refresh changes nothing.

**The scripts** (`VerifyScriptsProofs`). `TypeCorrect`, `RemovedRootUnused`,
`NothingLeft`, `OwnBackend`: every invariant the run checks, for any number of
scripts. `IInv` adds `InOrder` (scripts run one after another, and one that has
not come to its backend has no process), `Cleaned` (what is left of the process
at each step of the `finally`, and that one still alive after the last kill has
its `taskkill` in `failures`) and `Rooted` (what has become of the directory).

**Only model-checked**: liveness (`EventuallySettles`, `CancelEndsWork`,
`ComesToRest`: the prover does no fairness), and `RunningIsOwned` with two
requests overlapping, which `BenchmarkOverlap` checks for one overlap. There is
no such theorem for any number of overlaps, because `fail_run` merges its
columns too: four starts and a cancellation can overlap so that a task that read
the run as failed, with a stage another task had written since, commits the
stage `failed` under the `running` of the last start when that start's task is
already awaiting its strategies; the run then runs with no task.

## 5. Not modelled

* *Upload validation, scoring, manifests, schemas, catalogue*: functions of their
  input without state. Scores are floating-point numbers no step depends on.
* *LLM client*: two tries within one call, seen by the runners as an answer, a
  status or an exception. *Tool adapters*: child processes with a timeout, seen
  the same way. *Docker executor*: no runner, endpoint or script calls it.
* *Simulated demo screens*: `App.tsx:863-1944` and `LiveScreens.tsx` are defined
  and never rendered. *Development server plugins* and *contract tests*: no part
  of the running program.
* Routing, CORS, migrations, layout and wording; the rows of a report below its
  results.

### Seen while modelling the client

What the code does, where no doc says otherwise; the properties above are stated
so that they hold beside it.

* `configure` and `cancel` do not compare the generation
  (`useLiveRun.ts:239`, `:253`): their failure clears the spinner of a start made
  in between, and the prompt's form opens under it (`PendingIsBusy`'s exception;
  through it `RefreshKeepsPlace`'s).
* A start call that has read its run as queued commits `running` over the
  cancellation of a reconciliation in between (`services.py:170-178`): the user is
  told that the run could not be started, and it works (`FailedStartIsNotRunning`'s
  exception; the same read-then-commit as `DoubleStart`).
* Strategies chosen twice before the first choice is committed put two repair
  tasks on one run, which the second choice's rows replaced (`ReportIsFinal`'s and
  `ResultsAreFinal`'s exception).
* A start superseded after its run was created leaves the run queued, or running
  to its verdict, with nobody following it.
* After four failed polls in a row nothing resumes the polling; a configuration
  then turns on a spinner no poll turns off, unless the report's arrival is not
  awaited (`ComesToRest` excepts a stopped loop).
* Every poll clears the error, that of a refused command included.
* `cancel` without a run does nothing: the Cancel of an upload whose creation
  failed is dead, and only the sections lead away.
* `BaselineAnalysisScreen` is given neither error nor end, so that a benchmark
  whose baseline failed, or that was refreshed before its run was known, shows a
  baseline in progress for ever (`WaitingScreenWaits` is not stated for it).
* A prompt longer than 1,000 characters is cut by a refresh, and trimmed only
  afterwards: one that begins with 981 blanks or more is sent back to the setup
  (`RefreshKeepsPlace`'s exception).
* The client's requests have no timeout (`api/client.ts:65`).
* `stopTree` of the benchmark and custom scripts does not wait and ignores a
  failed `taskkill`; a later script can then be answered by that backend
  (`AnsweredByItsOwn`'s only exception). Without a Python, `spawn`'s error is
  unhandled and the `finally` is skipped.

## 6. Plan

1. *Done.* Runs (RunStore, RunWorker, RunApi, the three modes, RunVerdict), with
   the type invariant and the overlap-proof invariants proved.
2. *Done.* UploadArtifacts with all its invariants proved.
3. *Done.* LiveRun and DemoApp, with what the hook shows and what a failed start
   leaves proved; VerifyScripts with all its invariants proved.
4. *Done.* The serial regime with the properties that only it has and the step
   theorem of `ImplementsVerdict`; the hook's and the screens' invariants. Next in
   proofs: what a cancelled or failed run of two overlapping starts still
   guarantees (`RunningIsOwned` for one overlap).
5. Small modules left: the LLM client's retry accounting; scoring against a
   reference definition over bounded counts; the archive limits of validation;
   the Docker executor once a runner calls it.

## 7. Running

    tlc -workers 2 -config BenchmarkRun.cfg MCBenchmarkRun
    tlc -workers 2 -config DemoApp.cfg MCDemoApp
    tlapm LiveRunProofs.tla

Each `.cfg` belongs to the module `PROJECT.json` names under `runs`.
`BenchmarkOverlap` and `LiveRun` take about two minutes each, `DemoApp` one, the
others seconds.
