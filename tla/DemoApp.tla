------------------------------- MODULE DemoApp -------------------------------
(***************************************************************************)
(* App.tsx and screens/*: the screens of one browser tab over the hook of  *)
(* LiveRun, and the session it keeps in sessionStorage for a refresh.      *)
(*                                                                         *)
(* A screen is what its buttons do and when they are offered; the section  *)
(* navigation is always there.  The source the user pastes and its file    *)
(* name take part in nothing but the upload call and are left out, and so  *)
(* is a browser that refuses to store.  Left out too: the "Repair with AI" *)
(* of screen 7, which asks for a stage no completed run of this backend    *)
(* has.  A cancellation of createAndStart that a refresh finds on its way  *)
(* is taken as not executed.                                               *)
(***************************************************************************)
EXTENDS LiveRun

CONSTANTS
    MaxStrategies,  \* STRATEGY_IDS.length
    Typed           \* the prompts the user types

VARIABLES
    screen, mode,
    selectedTask,        \* whether a task is selected
    customPrompt,
    selectedScans,       \* whether the categories are selected: all or none
    selectedStrategies,  \* how many
    stored,              \* the item of sessionStorage
    reloads

inputs == <<selectedTask, customPrompt, selectedScans, selectedStrategies>>
app == <<screen, mode, inputs, stored, reloads>>
appVars == <<vars, app>>

\* Trimmed, "short" has less than 20 characters and "empty" none.  "long" and
\* "padded" have more than 1,000, the first 1,000 of which are "cut" and, as
\* they are mostly blank, "short".
Prompts == {"empty", "short", "fits", "long", "cut", "padded"}
Screens == 0..7
AppModes == {"benchmark", "custom", "upload"}

ASSUME DemoAppAssumption ==
    /\ MaxStrategies \in Nat \ {0}
    /\ Typed \subseteq Prompts

PersistedDemoSession ==
    [screen : Screens, mode : AppModes, selectedTask : BOOLEAN, customPrompt : Prompts,
     selectedScans : BOOLEAN, selectedStrategies : 0..MaxStrategies,
     runId : Runs \cup {Nothing}, liveRequested : BOOLEAN]
ASSUME NothingIsNoSession == Nothing \notin PersistedDemoSession

\* The mode of the run a workflow creates.
RunMode(m) == IF m = "custom" THEN "custom_prompt" ELSE m

-----------------------------------------------------------------------------
(* The session.                                                             *)

DefaultDemoSession ==
    [screen |-> 0, mode |-> "benchmark", selectedTask |-> FALSE, customPrompt |-> "empty",
     selectedScans |-> FALSE, selectedStrategies |-> MaxStrategies,
     runId |-> Nothing, liveRequested |-> FALSE]

\* Mutant: whether a run was asked for is not saved.
SessionWithoutRequest ==
    [screen |-> screen, mode |-> mode, selectedTask |-> selectedTask,
     customPrompt |-> customPrompt, selectedScans |-> selectedScans,
     selectedStrategies |-> selectedStrategies, runId |-> runId]

\* What the save effect writes, and compares: everything but the source.
Session ==
    [screen |-> screen, mode |-> mode, selectedTask |-> selectedTask,
     customPrompt |-> customPrompt, selectedScans |-> selectedScans,
     selectedStrategies |-> selectedStrategies,
     runId |-> runId, liveRequested |-> requested]

\* slice(0, 1000)
Sliced(prompt) == CASE prompt = "long" -> "cut"
                    [] prompt = "padded" -> "short"
                    [] OTHER -> prompt

\* trim().length >= 20
LongEnough(prompt) == prompt \in {"fits", "long", "cut", "padded"}

\* Mutant: the uploaded source is expected back.
RestoredScreenOfUploads(s) ==
    IF \/ s.mode = "benchmark" /\ ~s.selectedTask
       \/ s.mode = "custom" /\ ~LongEnough(Sliced(s.customPrompt))
       \/ s.mode = "upload"
    THEN IF s.screen >= 2 THEN 1 ELSE s.screen
    ELSE s.screen

\* The screen a saved session comes back to: the inputs it needs are there.
RestoredScreen(s) ==
    LET incomplete == \/ s.mode = "benchmark" /\ ~s.selectedTask
                      \/ s.mode = "custom" /\ ~LongEnough(Sliced(s.customPrompt))
                      \/ s.mode = "upload" /\ ~(s.liveRequested /\ s.runId # Nothing)
        first == IF s.screen >= 2 /\ incomplete THEN 1 ELSE s.screen
        second == IF first >= 4 /\ ~s.selectedScans THEN 3 ELSE first IN
    IF second >= 6 /\ s.selectedStrategies = 0 THEN 5 ELSE second

RestoreDemoSession(s) ==
    [s EXCEPT !.screen = RestoredScreen(s), !.customPrompt = Sliced(s.customPrompt)]

LoadDemoSession == IF stored = Nothing THEN DefaultDemoSession ELSE RestoreDemoSession(stored)

\* A report without findings to repair.
CleanReport == mode # "benchmark" /\ screen # 7 /\ report # Nothing /\ report.clean

\* The effects of one commit: the hook's, the save, the skip to the results.
\* A session equal to the stored one is not written; it would change nothing.
Effects ==
    /\ ~Rendered \/ stored # Session \/ CleanReport
    /\ Effect \/ (Rendered /\ UNCHANGED vars)
    /\ stored' = Session
    /\ screen' = IF CleanReport THEN 7 ELSE screen
    /\ UNCHANGED <<mode, inputs, reloads>>

\* The user acts on what is rendered, once the effects have run.
Settled == Rendered /\ stored = Session /\ ~CleanReport

AppInit ==
    /\ Init
    /\ screen = 0
    /\ mode = "benchmark"
    /\ selectedTask = FALSE
    /\ customPrompt = "empty"
    /\ selectedScans = FALSE
    /\ selectedStrategies = MaxStrategies
    /\ stored = Nothing
    /\ reloads = 0

-----------------------------------------------------------------------------
(* Navigation.                                                              *)

Forget ==
    /\ selectedTask' = FALSE
    /\ customPrompt' = "empty"
    /\ selectedScans' = FALSE
    /\ selectedStrategies' = MaxStrategies

\* navigateSection, of a workflow.
Navigate(m) ==
    /\ Settled
    /\ Reset
    /\ Forget
    /\ mode' = m
    /\ screen' = 1
    /\ UNCHANGED <<stored, reloads>>

\* restartDemo.
RestartDemo ==
    /\ Settled
    /\ stored' = Nothing
    /\ Forget
    /\ Reset
    /\ mode' = "benchmark"
    /\ screen' = 0
    /\ UNCHANGED reloads

\* Shell: the brand and the sections, on every screen.
Sections == RestartDemo \/ \E m \in AppModes : Navigate(m)

\* OverviewScreen.
ChooseMode(m) ==
    /\ Settled
    /\ screen = 0
    /\ mode' = m
    /\ screen' = 1
    /\ UNCHANGED <<vars, inputs, stored, reloads>>

\* The page is loaded again.  What was sent may still be executed; what would
\* have been done with the answers is gone, so that it counts as a fault.
Reload ==
    /\ Fault
    /\ reloads' = reloads + 1
    /\ LET s == LoadDemoSession
           starting == {r \in Runs \ opened : /\ start[r].pc = "starting"
                                              /\ backend[r].status = "queued"} IN
       /\ late' = late \cup starting
       /\ screen' = s.screen
       /\ mode' = s.mode
       /\ selectedTask' = s.selectedTask
       /\ customPrompt' = s.customPrompt
       /\ selectedScans' = s.selectedScans
       /\ selectedStrategies' = s.selectedStrategies
       /\ requested' = s.liveRequested
       /\ runId' = s.runId
       /\ busy' = (s.runId # Nothing)
    /\ progress' = Nothing
    /\ report' = Nothing
    /\ error' = Nothing
    /\ terminalMessage' = Nothing
    /\ generation' = 0
    /\ start' = [r \in Runs |->
                   [start[r] EXCEPT !.operation = 0, !.seen = "none",
                      !.pc = IF start[r].pc \in Calls THEN "superseded" ELSE @]]
    /\ poll' = NoPoll
    /\ settled' = <<Nothing, Nothing>>
    /\ sent' = {[c EXCEPT !.heard = FALSE] : c \in sent}
    /\ UNCHANGED <<backend, opened, stored>>

-----------------------------------------------------------------------------
(* The screens.                                                             *)

Stage == IF progress = Nothing THEN "none" ELSE progress.stage
Status == IF progress = Nothing THEN "none" ELSE progress.status

\* progress.stage === 'awaiting_strategy'
BaselineReady == Stage = "awaiting"
Over == Status \in {"failed", "cancelled"}
Message == error # Nothing \/ terminalMessage # Nothing

On(m, n) == Settled /\ mode \in m /\ screen = n
GoTo(n) == screen' = n /\ UNCHANGED <<vars, mode, inputs, stored, reloads>>

\* BenchmarkTaskSetupScreen.
StartBaseline(r) ==
    /\ On({"benchmark"}, 1)
    /\ Start(r, "benchmark")
    /\ selectedTask' = TRUE
    /\ selectedScans' = TRUE
    /\ screen' = 4
    /\ UNCHANGED <<mode, customPrompt, selectedStrategies, stored, reloads>>

\* Mutant: the categories are not remembered.
ScanKeepsScans(r) ==
    /\ On({"upload"}, 1)
    /\ Start(r, "upload")
    /\ screen' = 4
    /\ UNCHANGED <<mode, inputs, stored, reloads>>

\* AnalyzeCodeScreen, once the source is valid.
Scan(r) ==
    /\ On({"upload"}, 1)
    /\ Start(r, "upload")
    /\ selectedScans' = TRUE
    /\ screen' = 4
    /\ UNCHANGED <<mode, selectedTask, customPrompt, selectedStrategies, stored, reloads>>

\* GenerateEvaluateScreen: the text area is closed once a run is started.
PromptChange(p) ==
    /\ On({"custom"}, 1)
    /\ ~busy
    /\ progress = Nothing
    /\ customPrompt' = p
    /\ UNCHANGED <<vars, screen, mode, selectedTask, selectedScans, selectedStrategies>>
    /\ UNCHANGED <<stored, reloads>>

Generate(r) ==
    /\ On({"custom"}, 1)
    /\ progress = Nothing
    /\ ~busy
    /\ LongEnough(customPrompt)
    /\ Start(r, "custom_prompt")
    /\ selectedScans' = TRUE
    /\ UNCHANGED <<screen, mode, selectedTask, customPrompt, selectedStrategies>>
    /\ UNCHANGED <<stored, reloads>>

RepairAndCompare == On({"custom"}, 1) /\ BaselineReady /\ GoTo(5)

EditAndRetry ==
    /\ On({"custom"}, 1)
    /\ Message
    /\ ~busy
    /\ Reset
    /\ UNCHANGED app

\* Mutant: the strategies are offered once the baseline runs.
ChooseRepairEarly == On({"benchmark"}, 4) /\ requested /\ progress # Nothing /\ GoTo(5)

\* BaselineAnalysisScreen.
ChooseRepair == On({"benchmark"}, 4) /\ requested /\ BaselineReady /\ GoTo(5)

\* AnalysisProgressScreen.
RepairWithAi == On({"upload"}, 4) /\ BaselineReady /\ GoTo(5)

AnalyzeNewCode == On({"upload"}, 4) /\ (BaselineReady \/ Over) /\ GoTo(1)

\* The three Cancel buttons.
CancelRun ==
    /\ \/ On({"custom"}, 1) /\ busy /\ Status = "running" /\ ~BaselineReady
       \/ On({"upload"}, 4) /\ ~BaselineReady /\ ~Over
       \/ On(AppModes, 6) /\ requested /\ report = Nothing /\ ~Over
    /\ Cancel
    /\ UNCHANGED app

\* RepairStrategiesScreen: at least one strategy.
RunRepairs(n) ==
    /\ On(AppModes, 5)
    /\ n > 0
    /\ selectedStrategies' = n
    /\ IF runId = Nothing \/ (mode # "benchmark" /\ ~requested)
       THEN UNCHANGED vars ELSE Configure
    /\ screen' = 6
    /\ UNCHANGED <<mode, selectedTask, customPrompt, selectedScans, stored, reloads>>

\* Mutant: the results are offered while the repairs run.
ViewResultsEarly == On(AppModes, 6) /\ requested /\ GoTo(7)

\* RepairProgressScreen.
ViewResults == On(AppModes, 6) /\ report # Nothing /\ GoTo(7)

BackToStrategies == On(AppModes, 6) /\ GoTo(5)

\* The three screens of results.
StartNewEvaluation == On(AppModes, 7) /\ requested /\ report # Nothing /\ RestartDemo

-----------------------------------------------------------------------------

ScreenStep == \/ RepairAndCompare \/ EditAndRetry \/ ChooseRepair \/ RepairWithAi
              \/ AnalyzeNewCode \/ CancelRun \/ ViewResults \/ BackToStrategies
              \/ StartNewEvaluation
              \/ \E r \in Runs : StartBaseline(r) \/ Scan(r) \/ Generate(r)
              \/ \E p \in Typed : PromptChange(p)
              \/ \E n \in 1..MaxStrategies : RunRepairs(n)
              \/ \E m \in AppModes : ChooseMode(m)

AppNext == \/ SystemStep /\ UNCHANGED app
           \/ Effects
           \/ ScreenStep
           \/ Sections
           \/ Reload

AppSpec == AppInit /\ [][AppNext]_appVars

-----------------------------------------------------------------------------

\* What the variables of the application range over.
AppTypeOK ==
    /\ TypeOK
    /\ screen \in Screens
    /\ mode \in AppModes
    /\ selectedTask \in BOOLEAN
    /\ customPrompt \in Prompts
    /\ selectedScans \in BOOLEAN
    /\ selectedStrategies \in 0..MaxStrategies
    /\ stored \in PersistedDemoSession \cup {Nothing}
    /\ reloads \in Nat

\* The workflow on the screen is the one of the run it shows, across section
\* changes, new starts and refreshes.
RunIsOfThisWorkflow == runId # Nothing => start[runId].mode = RunMode(mode)

\* The screens that say "no longer part of the current flow" and "No active
\* repair run" are never reached, refreshed into or left behind.
NoDeadScreen == screen \notin {2, 3} /\ (screen >= 4 => requested)

\* The strategies are chosen after the baseline of the run on the screen, and
\* never for a run that completed clean.
RepairsFollowBaseline ==
    screen \in {5, 6} =>
        runId # Nothing /\ Analyzed(backend[runId])

\* The results are those of a run that completed.
ResultsAreFinal == screen = 7 => runId # Nothing /\ Finished(backend[runId])

\* The two screens that say "in progress" and are given the hook's messages,
\* AnalysisProgressScreen before it shows the evidence and RepairProgressScreen:
\* when the hook is idle behind one, it says what happened, has the results, or
\* is about to ask the backend.  BaselineAnalysisScreen is given no message.
WaitingScreenWaits ==
    /\ Settled
    /\ ~busy
    /\ screen = 6 \/ (screen = 4 /\ mode = "upload" /\ ~BaselineReady)
    => \/ Message
       \/ report # Nothing
       \/ poll.pc \in {"asking", "answered", "fetching"} /\ IsCurrent

\* A refresh of a settled page comes back to its run and its screen, except
\* to the setup when the inputs it asks for are not there: an upload whose run
\* was not yet known, a prompt edited while its start looked idle, or one whose
\* first 1,000 characters are mostly blank.
RefreshKeepsPlace ==
    [][reloads' # reloads /\ Settled =>
          /\ runId' = runId
          /\ mode' = mode
          /\ \/ screen' = screen
             \/ /\ screen' = 1
                /\ \/ mode = "upload" /\ runId = Nothing
                   \/ mode = "custom" /\ ~LongEnough(Sliced(customPrompt))]_appVars
=============================================================================
