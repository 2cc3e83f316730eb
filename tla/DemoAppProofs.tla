---------------------------- MODULE DemoAppProofs ----------------------------
(***************************************************************************)
(* DemoApp for every value of the constants: what each screen takes for    *)
(* granted, across section changes, superseded starts and refreshes.       *)
(*                                                                         *)
(* All but a refresh are steps of the hook, and keep what LiveRunProofs    *)
(* shows of it.  What a screen needs of the runs is one predicate, Sound,  *)
(* of the session on the screen and of the one that is saved; a refresh    *)
(* makes the second the first.                                             *)
(***************************************************************************)
EXTENDS DemoApp, LiveRunProofs

-----------------------------------------------------------------------------
(* The inductive invariant.                                                 *)

\* What a session takes for granted: its workflow created its run, and its
\* screen comes after what that screen shows.
Sound(s, starts, rows) ==
    /\ s.screen \notin {2, 3}
    /\ s.screen = 0 => ~s.liveRequested
    /\ s.screen = 4 => s.mode # "custom"
    /\ s.screen >= 4 => /\ s.liveRequested
                        /\ s.selectedScans
                        /\ s.mode = "benchmark" => s.selectedTask
    /\ s.screen >= 5 => s.runId # Nothing
    /\ s.screen \in {5, 6} => Analyzed(rows[s.runId])
    /\ s.screen = 7 => Finished(rows[s.runId])
    /\ s.selectedStrategies > 0
    /\ s.runId # Nothing => /\ s.liveRequested
                            /\ s.selectedScans
                            /\ starts[s.runId].pc = "shown"
                            /\ starts[s.runId].mode = RunMode(s.mode)

\* The newest start, while in flight, is one of this workflow, which will show
\* its run.
NewestIsOurs ==
    \A r \in Runs : InFlight(r) /\ Current(r) =>
        requested /\ selectedScans /\ start[r].mode = RunMode(mode)

\* A run that was seen awaiting its strategies has its baseline behind it.
SeenAnalyzed ==
    /\ progress # Nothing /\ progress.stage = "awaiting" => Analyzed(backend[progress.run])
    /\ poll.pc = "answered" /\ poll.answer.stage = "awaiting" => Analyzed(backend[poll.run])

\* The hook by itself.  Of what explains an idle one only Core outlasts a
\* refresh.
HookInv == ShowInv /\ Core /\ SeenAnalyzed

\* The screen of an upload waits for its run, or says why there is none.
Waits == screen = 4 /\ mode = "upload" /\ runId = Nothing => busy \/ error # Nothing

AppInv ==
    /\ AppTypeOK
    /\ HookInv
    /\ NewestIsOurs
    /\ Sound(Session, start, backend)
    /\ stored # Nothing => Sound(stored, start, backend)
    /\ Waits

\* What a session may count on for ever.
Lasting ==
    \A r \in Runs :
        /\ start[r].pc # "idle" => start'[r].pc # "idle" /\ start'[r].mode = start[r].mode
        /\ start[r].pc = "shown" => start'[r].pc = "shown"
        /\ Analyzed(backend[r]) => Analyzed(backend'[r])
        /\ Finished(backend[r]) => Finished(backend'[r])

-----------------------------------------------------------------------------
(* The hook.                                                                *)

\* A start in flight goes on, or returns; or its calls are served.
LEMMA StartStepMoves ==
    ASSUME NEW r \in Runs, \/ BackendStep(r) \/ StartStep(r) \/ UploadFails(r)
                            \/ CreateFails(r) \/ StartFails(r) \/ ReconcileFails(r)
    PROVE  \/ UNCHANGED <<start, state>>
           \/ ReconcileServed(r)
           \/ start[r].pc \in Calls /\ \E pc \in Calls \cup Returns : Goes(r, pc)
<1>a. {"creating", "starting", "superseded", "shown", "reconciling", "withdrawing", "cancelling",
       "failed", "withdrawn", "overtaken", "unconfirmed"} \subseteq Calls \cup Returns
  BY DEF Calls, Returns
<1>b. {"uploading", "creating", "starting", "reconciling", "reconciled", "withdrawing",
       "cancelling"} \subseteq Calls
  BY DEF Calls
<1>1. CASE BackendStep(r) \/ CreateServed(r) \/ StartRead(r) \/ StartCommit(r)
  BY <1>1 DEF BackendStep, SetStage, AwaitStrategy, Decide, CreateServed, StartRead, StartCommit
<1>2. CASE \/ UploadAnswered(r) \/ CreateAnswered(r) \/ StartAnswered(r)
           \/ ReconcileAnswered(r) \/ WithdrawRead(r) \/ WithdrawCommit(r)
           \/ UploadFails(r) \/ CreateFails(r) \/ StartFails(r) \/ ReconcileFails(r)
  <2>1. start[r].pc \in Calls
    BY <1>2, <1>b DEF UploadAnswered, CreateAnswered, StartAnswered, ReconcileAnswered,
       WithdrawRead, WithdrawCommit, UploadFails, CreateFails, StartFails, ReconcileFails
  <2>2. \E pc \in Calls \cup Returns : Goes(r, pc)
    BY <1>2, <1>a DEF UploadAnswered, CreateAnswered, StartAnswered, ReconcileAnswered,
       WithdrawRead, WithdrawCommit, Withdrawn, UploadFails, CreateFails, StartFails,
       ReconcileFails, ReturnError
  <2>. QED BY <2>1, <2>2
<1>. QED BY <1>1, <1>2 DEF StartStep

\* A start goes on as the start of the same kind of run, and one that was shown
\* is over.
LEMMA StartsStep ==
    ASSUME TypeOK, Next, NEW q \in Runs, start[q].pc # "idle"
    PROVE  /\ start'[q].pc # "idle" /\ start'[q].mode = start[q].mode
           /\ start[q].pc = "shown" => start'[q].pc = "shown"
<1>. DEFINE Kept == /\ start'[q].pc # "idle" /\ start'[q].mode = start[q].mode
                    /\ start[q].pc = "shown" => start'[q].pc = "shown"
<1>1. CASE UNCHANGED start
  BY <1>1
<1>2. ASSUME NEW r \in Runs, NEW pc \in Calls \cup Returns, start[r].pc \in Calls, Goes(r, pc)
      PROVE  Kept
  BY <1>2 DEF Goes, TypeOK, Starts, Calls, Returns
<1>3. ASSUME NEW r \in Runs, ReconcileServed(r) PROVE Kept
  BY <1>3 DEF ReconcileServed, TypeOK, Starts
<1>4. ASSUME NEW r \in Runs, NEW mode_ \in Modes, NEW pc \in {"uploading", "creating"},
             PrepareStart(r, mode_, pc)
      PROVE  Kept
  BY <1>4 DEF PrepareStart, TypeOK, Starts
<1>5. ASSUME NEW r \in Runs, \/ BackendStep(r) \/ StartStep(r) \/ UploadFails(r)
                             \/ CreateFails(r) \/ StartFails(r) \/ ReconcileFails(r)
      PROVE  Kept
  BY <1>1, <1>2, <1>3, <1>5, StartStepMoves
<1>6. CASE PollStep \/ Effect \/ PollFails
  BY <1>1, <1>6
     DEF PollStep, PollServed, PollAnswered, FetchAnswered, Timer, Effect, PollFails
<1>7. CASE \E c \in sent : CommandStep(c) \/ CommandFails(c)
  BY <1>1, <1>7 DEF CommandStep, CommandRead, CommandCommit, CommandAnswered, CommandFails
<1>8. CASE UserStep
  BY <1>1, <1>4, <1>8 DEF UserStep, Configure, Cancel, Reset, Start
<1>. QED BY <1>5, <1>6, <1>7, <1>8 DEF Next, SystemStep, CallFails

\* What a session counts on outlasts every step of the hook.
LEMMA HookLasts ==
    ASSUME HookInv, [Next]_vars
    PROVE  Lasting
<1>1. CASE UNCHANGED vars
  BY <1>1 DEF vars, Lasting
<1>2. CASE Next
  <2>1. TypeOK /\ RowInv BY DEF HookInv, ShowInv
  <2>2. RowsLast BY <1>2, <2>1, RowsStep
  <2>3. \A q \in Runs : start[q].pc # "idle" =>
           /\ start'[q].pc # "idle" /\ start'[q].mode = start[q].mode
           /\ start[q].pc = "shown" => start'[q].pc = "shown"
    BY <1>2, <2>1, StartsStep
  <2>. QED BY <2>2, <2>3 DEF Lasting, RowsLast
<1>. QED BY <1>1, <1>2

\* What was seen of a run came from its row.
LEMMA SeenStep ==
    ASSUME HookInv, TypeOK', Lasting, [Next]_vars
    PROVE  SeenAnalyzed'
<1>. USE DEF HookInv
<1>a. /\ TypeOK /\ poll \in Polls /\ (poll.pc # "off" => poll.run \in Runs)
      /\ progress # Nothing => progress \in RunProgress /\ progress.run \in Runs
  BY DEF ShowInv, TypeOK, RunProgress
<1>b. ASSUME \/ UNCHANGED progress
             \/ progress' = Nothing
             \/ progress'.stage = "baseline"
      PROVE  progress' # Nothing /\ progress'.stage = "awaiting" => Analyzed(backend'[progress'.run])
  BY <1>a, <1>b DEF SeenAnalyzed, Lasting
<1>c. ASSUME \/ poll'.pc # "answered"
             \/ /\ poll'.pc = "answered" /\ poll.pc = "answered"
                /\ poll'.answer = poll.answer /\ poll'.run = poll.run
      PROVE  poll'.pc = "answered" /\ poll'.answer.stage = "awaiting" => Analyzed(backend'[poll'.run])
  BY <1>a, <1>c DEF SeenAnalyzed, Lasting
<1>1. CASE UNCHANGED poll /\ (\/ UNCHANGED progress
                              \/ progress' = Nothing
                              \/ progress'.stage = "baseline")
  BY <1>b, <1>c, <1>1 DEF SeenAnalyzed
<1>2. CASE PollServed
  <2>1. /\ poll'.answer = Shown(poll.run) /\ poll'.run = poll.run /\ poll.run \in Runs
        /\ UNCHANGED <<progress, backend>>
    BY <1>a, <1>2 DEF PollServed, Polls, state
  <2>2. poll'.answer.stage = backend[poll.run].stage BY <2>1 DEF Shown
  <2>3. backend[poll.run].stage = "awaiting" => Analyzed(backend[poll.run])
    BY <2>1 DEF ShowInv, RowInv, RowOK
  <2>4. poll'.answer.stage = "awaiting" => Analyzed(backend'[poll'.run])
    BY <2>1, <2>2, <2>3
  <2>. QED BY <1>b, <2>1, <2>4 DEF SeenAnalyzed
<1>3. CASE PollAnswered
  <2>0. \/ poll' = NoPoll
        \/ Continues("fetching")
        \/ Continues("waiting")
    BY <1>3 DEF PollAnswered
  <2>1. poll'.pc # "answered"
    <3>1. CASE poll' = NoPoll BY <3>1 DEF NoPoll
    <3>2. ASSUME NEW pc \in {"fetching", "waiting"}, Continues(pc) PROVE poll'.pc = pc
      BY <1>a, <3>2 DEF Continues, Polls
    <3>. QED BY <2>0, <3>1, <3>2
  <2>2. UNCHANGED progress \/ (progress' = poll.answer /\ poll.answer.run = poll.run)
    BY <1>3 DEF PollAnswered, ShowInv, Answered, state
  <2>3. progress' # Nothing /\ progress'.stage = "awaiting" => Analyzed(backend'[progress'.run])
    BY <1>a, <1>b, <1>3, <2>2 DEF PollAnswered, SeenAnalyzed, Lasting
  <2>. QED BY <1>c, <2>1, <2>3 DEF SeenAnalyzed
<1>4. CASE FetchAnswered \/ PollFails \/ Timer \/ Effect
  <2>1. UNCHANGED progress
    BY <1>4 DEF FetchAnswered, PollFails, Timer, Effect, state
  <2>2. \/ poll'.pc # "answered"
        \/ /\ poll'.pc = "answered" /\ poll.pc = "answered"
           /\ poll'.answer = poll.answer /\ poll'.run = poll.run
    <3>1. CASE FetchAnswered \/ PollFails \/ Timer
      <4>1. \/ poll' = NoPoll
            \/ poll' = [poll EXCEPT !.pc = "asking"]
            \/ \E pc \in {"waiting", "stopped"} :
                  poll' = [poll EXCEPT !.pc = pc, !.failures = @ + 1, !.answer = Nothing]
        BY <3>1 DEF FetchAnswered, PollFails, Timer
      <4>2. CASE poll' = NoPoll BY <4>2 DEF NoPoll
      <4>3. CASE poll' # NoPoll BY <1>a, <4>1, <4>3 DEF Polls
      <4>. QED BY <4>2, <4>3
    <3>2. CASE Effect
      <4>1. \/ poll' = Cleaned
            \/ poll' = [NoPoll EXCEPT !.pc = "asking", !.run = runId,
                                      !.operation = generation', !.active = TRUE]
        BY <3>2 DEF Effect
      <4>2. CASE poll' = NoPoll BY <4>2 DEF NoPoll
      <4>3. CASE poll' = [poll EXCEPT !.active = FALSE] BY <1>a, <4>3 DEF Polls
      <4>4. CASE poll' = [NoPoll EXCEPT !.pc = "asking", !.run = runId,
                                        !.operation = generation', !.active = TRUE]
        BY <4>4 DEF NoPoll
      <4>. QED BY <4>1, <4>2, <4>3, <4>4 DEF Cleaned
    <3>. QED BY <1>4, <3>1, <3>2
  <2>. QED BY <1>b, <1>c, <2>1, <2>2 DEF SeenAnalyzed
<1>5. ASSUME NEW r \in Runs, \/ BackendStep(r) \/ StartStep(r) \/ UploadFails(r)
                             \/ CreateFails(r) \/ StartFails(r) \/ ReconcileFails(r)
      PROVE  SeenAnalyzed'
  <2>1. UNCHANGED poll
    BY <1>5 DEF BackendStep, SetStage, AwaitStrategy, Decide, StartStep, UploadAnswered,
       CreateServed, CreateAnswered, StartRead, StartCommit, StartAnswered, ReconcileServed,
       ReconcileAnswered, WithdrawRead, WithdrawCommit, UploadFails, CreateFails, StartFails,
       ReconcileFails, loops
  <2>2. CASE StartAnswered(r)
    <3>1. UNCHANGED progress \/ progress'.stage = "baseline" BY <2>2 DEF StartAnswered
    <3>. QED BY <1>1, <2>1, <3>1
  <2>3. CASE ~StartAnswered(r)
    <3>1. UNCHANGED progress
      BY <1>5, <2>3 DEF BackendStep, SetStage, AwaitStrategy, Decide, StartStep, UploadAnswered,
         CreateServed, CreateAnswered, StartRead, StartCommit, ReconcileServed,
         ReconcileAnswered, WithdrawRead, WithdrawCommit, Withdrawn, UploadFails, CreateFails,
         StartFails, ReconcileFails, ReturnError, state
    <3>. QED BY <1>1, <2>1, <3>1
  <2>. QED BY <2>2, <2>3
<1>6. CASE UserStep \/ \E c \in sent : CommandStep(c) \/ CommandFails(c)
  BY <1>1, <1>6 DEF CommandStep, CommandRead, CommandCommit, CommandAnswered, CommandFails,
     CommandError, UserStep, Configure, Cancel, Reset, ResetState, Start, PrepareStart, loops, state
<1>7. CASE UNCHANGED vars
  BY <1>1, <1>7 DEF vars, loops, state
<1>. QED BY <1>2, <1>3, <1>4, <1>5, <1>6, <1>7 DEF Next, SystemStep, PollStep, CallFails

\* HookInv is inductive over the steps of the hook.
LEMMA HookStep == HookInv /\ [Next]_vars => HookInv' /\ TypeOK' /\ Lasting
<1>. SUFFICES ASSUME HookInv, [Next]_vars PROVE HookInv' /\ TypeOK' /\ Lasting
  OBVIOUS
<1>1. ShowInv' BY ShowInvStep DEF HookInv
<1>2. TypeOK' BY <1>1 DEF ShowInv
<1>3. Lasting BY HookLasts
<1>4. Core' BY <1>1, CoreStep DEF HookInv, StillExplained
<1>. QED BY <1>1, <1>2, <1>3, <1>4, SeenStep DEF HookInv

\* A step that neither starts nor resets: a run comes to the screen from its
\* own start alone, and a spinner is turned off with an error, if nothing is
\* followed.
Keeps ==
    /\ UNCHANGED requested
    /\ \/ runId' = runId
       \/ \E r \in Runs : /\ InFlight(r) /\ Current(r) /\ runId' = r
                           /\ start'[r].pc = "shown"
    /\ \A r \in Runs : InFlight(r)' /\ Current(r)' => InFlight(r) /\ Current(r)
    /\ runId' = Nothing /\ (busy \/ error # Nothing) => busy' \/ error' # Nothing

\* A step of a start.
LEMMA StartKeeps ==
    ASSUME HookInv, NEW r \in Runs, BackendStep(r) \/ StartStep(r) \/ UploadFails(r)
                                    \/ CreateFails(r) \/ StartFails(r) \/ ReconcileFails(r)
    PROVE  Keeps
<1>a. TypeOK BY DEF HookInv, ShowInv
<1>1. ASSUME Moved, UNCHANGED generation
      PROVE  \A q \in Runs : InFlight(q)' /\ Current(q)' => InFlight(q) /\ Current(q)
  BY <1>1 DEF Moved, InFlight, Current
<1>b. UNCHANGED <<generation, requested>>
  BY DEF BackendStep, SetStage, AwaitStrategy, Decide, StartStep, UploadAnswered, CreateServed,
     CreateAnswered, StartRead, StartCommit, StartAnswered, ReconcileServed, ReconcileAnswered,
     WithdrawRead, WithdrawCommit, Withdrawn, UploadFails, CreateFails, StartFails,
     ReconcileFails, ReturnError, state
<1>2. CASE UNCHANGED <<start, state>>
  <2>1. Moved BY <1>2 DEF Moved
  <2>. QED BY <1>1, <1>2, <1>b, <2>1 DEF Keeps, state
<1>3. CASE ReconcileServed(r)
  <2>1. Moved BY <1>3, <1>a DEF ReconcileServed, Moved, TypeOK, Starts, Calls, Returns
  <2>2. UNCHANGED state BY <1>3 DEF ReconcileServed
  <2>. QED BY <1>1, <1>b, <2>1, <2>2 DEF Keeps, state
<1>4. CASE start[r].pc \in Calls /\ \E pc \in Calls \cup Returns : Goes(r, pc)
  <2>1. Moved BY <1>a, <1>4, GoesOn
  <2>2. runId' = runId \/ (runId' = r /\ Current(r) /\ Goes(r, "shown"))
    BY DEF BackendStep, SetStage, AwaitStrategy, Decide, StartStep, UploadAnswered, CreateServed,
       CreateAnswered, StartRead, StartCommit, StartAnswered, ReconcileServed, ReconcileAnswered,
       WithdrawRead, WithdrawCommit, Withdrawn, UploadFails, CreateFails, StartFails,
       ReconcileFails, ReturnError, state
  <2>3. Goes(r, "shown") => start'[r].pc = "shown" BY <1>a DEF Goes, TypeOK, Starts
  <2>4. \/ UNCHANGED <<busy, error>>
        \/ runId' = r
        \/ error' = [from |-> "start", of |-> r]
    BY DEF BackendStep, SetStage, AwaitStrategy, Decide, StartStep, UploadAnswered, CreateServed,
       CreateAnswered, StartRead, StartCommit, StartAnswered, ReconcileServed, ReconcileAnswered,
       WithdrawRead, WithdrawCommit, Withdrawn, UploadFails, CreateFails, StartFails,
       ReconcileFails, ReturnError, state
  <2>5. runId' = Nothing /\ (busy \/ error # Nothing) => busy' \/ error' # Nothing
    BY <2>4, Something, LiveRunAssumption
  <2>. QED BY <1>1, <1>4, <1>b, <2>1, <2>2, <2>3, <2>5 DEF Keeps, InFlight
<1>. QED BY <1>2, <1>3, <1>4, StartStepMoves

\* A step that leaves the starts alone.
LEMMA OtherKeeps ==
    ASSUME HookInv, \/ PollStep \/ PollFails \/ Configure \/ Cancel \/ UNCHANGED vars
                    \/ \E c \in sent : CommandStep(c) \/ CommandFails(c)
    PROVE  Keeps
<1>a. TypeOK BY DEF HookInv, ShowInv
<1>1. UNCHANGED <<start, generation, requested, runId>>
  BY DEF PollStep, PollServed, PollAnswered, FetchAnswered, Timer, PollFails, CommandStep,
     CommandRead, CommandCommit, CommandAnswered, CommandFails, CommandError, Configure, Cancel,
     vars, state
<1>2. \A r \in Runs : InFlight(r)' /\ Current(r)' => InFlight(r) /\ Current(r)
  BY <1>1 DEF InFlight, Current
<1>3. CASE PollStep \/ PollFails
  <2>1. IsCurrent \/ UNCHANGED state
    BY <1>3 DEF PollStep, PollServed, PollAnswered, FetchAnswered, Timer, PollFails
  <2>2. IsCurrent => runId # Nothing BY DEF HookInv, ShowInv, Followed
  <2>. QED BY <1>1, <1>2, <2>1, <2>2 DEF Keeps, state
<1>4. ASSUME NEW c \in sent, CommandStep(c) \/ CommandFails(c) PROVE Keeps
  <2>1. UNCHANGED state \/ error' = [from |-> "command", of |-> c.run]
    BY <1>4 DEF CommandStep, CommandRead, CommandCommit, CommandAnswered, CommandFails, CommandError
  <2>2. c.run \in Runs BY <1>a DEF TypeOK, Commands
  <2>3. UNCHANGED state \/ error' # Nothing BY <2>1, <2>2, Something
  <2>. QED BY <1>1, <1>2, <2>3 DEF Keeps, state
<1>5. CASE Configure \/ Cancel \/ UNCHANGED vars
  <2>1. busy' = TRUE \/ UNCHANGED <<busy, error>>
    BY <1>5 DEF Configure, Cancel, vars, state
  <2>. QED BY <1>1, <1>2, <2>1 DEF Keeps
<1>. QED BY <1>3, <1>4, <1>5

\* The effect supersedes no start that was not over.
LEMMA EffectKeeps ==
    ASSUME HookInv, Effect
    PROVE  Keeps
<1>1. UNCHANGED <<start, state>> BY DEF Effect
<1>2. generation' = generation \/ generation' = generation + 1 BY DEF Effect
<1>3. \A r \in Runs : Current(r)' => Current(r)
  <2>. SUFFICES ASSUME NEW r \in Runs, Current(r)' PROVE Current(r)
    OBVIOUS
  <2>1. start[r].operation = generation' BY <1>1 DEF Current
  <2>2. start[r].operation <= generation BY DEF HookInv, ShowInv, Numbered
  <2>3. start[r].operation \in Nat /\ generation \in Nat BY DEF HookInv, ShowInv, TypeOK, Starts
  <2>. QED BY <1>2, <2>1, <2>2, <2>3 DEF Current
<1>. QED BY <1>1, <1>3 DEF Keeps, InFlight, state

\* All that happens without the user.
LEMMA SystemKeeps ==
    ASSUME HookInv, SystemStep
    PROVE  Keeps
<1>1. CASE \E r \in Runs : \/ BackendStep(r) \/ StartStep(r) \/ UploadFails(r)
                           \/ CreateFails(r) \/ StartFails(r) \/ ReconcileFails(r)
  BY <1>1, StartKeeps
<1>2. CASE PollStep \/ PollFails \/ \E c \in sent : CommandStep(c) \/ CommandFails(c)
  BY <1>2, OtherKeeps
<1>. QED BY <1>1, <1>2 DEF SystemStep, CallFails

-----------------------------------------------------------------------------
(* The session.                                                             *)

\* The session on the screen is of the type that is saved.
LEMMA SessionType ==
    ASSUME AppTypeOK
    PROVE  Session \in PersistedDemoSession
BY DEF AppTypeOK, TypeOK, Session, PersistedDemoSession

\* A session stays sound.
LEMMA SoundLasts ==
    ASSUME NEW s, s.runId \in Runs \cup {Nothing}, Sound(s, start, backend), Lasting
    PROVE  Sound(s, start', backend')
<1>1. s.runId # Nothing => /\ start'[s.runId].pc = "shown"
                           /\ start'[s.runId].mode = RunMode(s.mode)
  BY DEF Sound, Lasting
<1>2. s.screen \in {5, 6} => Analyzed(backend'[s.runId])
  BY DEF Sound, Lasting
<1>3. s.screen = 7 => Finished(backend'[s.runId])
  BY DEF Sound, Lasting
<1>. QED BY <1>1, <1>2, <1>3 DEF Sound

\* So does the one that is saved, if the step saves at most the one on the screen.
LEMMA StoredLasts ==
    ASSUME AppInv, Lasting, stored' \in {stored, Session, Nothing}
    PROVE  stored' # Nothing => Sound(stored', start', backend')
<1>1. Session \in PersistedDemoSession BY SessionType DEF AppInv
<1>2. Session.runId \in Runs \cup {Nothing} BY <1>1 DEF PersistedDemoSession
<1>3. Sound(Session, start', backend') BY <1>2, SoundLasts DEF AppInv
<1>4. stored # Nothing => stored.runId \in Runs \cup {Nothing}
  BY DEF AppInv, AppTypeOK, PersistedDemoSession
<1>5. stored # Nothing => Sound(stored, start', backend') BY <1>4, SoundLasts DEF AppInv
<1>. QED BY <1>3, <1>5

\* A session without its screen's inputs comes back to the setup, and no other
\* screen is changed: the inputs of the screens are always there.
LEMMA RestoredTo ==
    ASSUME NEW s \in PersistedDemoSession, Sound(s, start, backend)
    PROVE  /\ RestoredScreen(s) \in {1, s.screen}
           /\ RestoredScreen(s) = 1 \/ s.mode # "upload" \/ s.screen < 2 \/ s.runId # Nothing
           /\ RestoredScreen(s) # s.screen =>
                \/ s.mode = "upload" /\ s.runId = Nothing
                \/ s.mode = "custom" /\ ~LongEnough(Sliced(s.customPrompt))
<1>1. s.screen \in Nat /\ s.screen # 2 /\ s.screen # 3 /\ s.selectedStrategies \in Nat
  BY DEF Sound, PersistedDemoSession, Screens
<1>2. s.screen >= 2 => s.screen >= 4 BY <1>1
<1>3. s.screen >= 2 => /\ s.liveRequested /\ s.selectedScans
                       /\ s.mode = "benchmark" => s.selectedTask
  BY <1>2 DEF Sound
<1>4. s.selectedStrategies # 0 BY <1>1 DEF Sound
<1> DEFINE incomplete == \/ s.mode = "benchmark" /\ ~s.selectedTask
                         \/ s.mode = "custom" /\ ~LongEnough(Sliced(s.customPrompt))
                         \/ s.mode = "upload" /\ ~(s.liveRequested /\ s.runId # Nothing)
           first == IF s.screen >= 2 /\ incomplete THEN 1 ELSE s.screen
<1>6. first >= 4 => s.selectedScans BY <1>1, <1>3
<1>7. RestoredScreen(s) = first BY <1>1, <1>4, <1>6 DEF RestoredScreen
<1>8. s.screen >= 2 /\ incomplete => \/ s.mode = "upload" /\ s.runId = Nothing
                                     \/ s.mode = "custom" /\ ~LongEnough(Sliced(s.customPrompt))
  BY <1>3
<1>. QED BY <1>1, <1>7, <1>8

\* A sound session is restored to a sound one.
LEMMA RestoreSound ==
    ASSUME NEW s \in PersistedDemoSession, Sound(s, start, backend)
    PROVE  /\ RestoreDemoSession(s) \in PersistedDemoSession
           /\ Sound(RestoreDemoSession(s), start, backend)
<1>1. PICK t : t = RestoreDemoSession(s)
  OBVIOUS
<1>2. /\ t.screen = RestoredScreen(s) /\ t.customPrompt = Sliced(s.customPrompt)
      /\ t.mode = s.mode /\ t.selectedTask = s.selectedTask /\ t.selectedScans = s.selectedScans
      /\ t.selectedStrategies = s.selectedStrategies /\ t.runId = s.runId
      /\ t.liveRequested = s.liveRequested
  BY <1>1 DEF RestoreDemoSession, PersistedDemoSession
<1>3. t.screen \in {1, s.screen} BY <1>2, RestoredTo
<1>4. Sound(t, start, backend) BY <1>2, <1>3 DEF Sound
<1>5. t \in PersistedDemoSession
  <2>1. t.screen \in Screens BY <1>3 DEF Screens, PersistedDemoSession
  <2>2. t.customPrompt \in Prompts BY <1>2 DEF Sliced, Prompts, PersistedDemoSession
  <2>. QED BY <1>1, <1>2, <2>1, <2>2 DEF RestoreDemoSession, PersistedDemoSession
<1>. QED BY <1>1, <1>4, <1>5

\* Nothing saved is the first screen.
LEMMA DefaultSound ==
    /\ DefaultDemoSession \in PersistedDemoSession
    /\ Sound(DefaultDemoSession, start, backend)
BY DemoAppAssumption
   DEF DefaultDemoSession, PersistedDemoSession, Screens, AppModes, Prompts, Sound

-----------------------------------------------------------------------------
(* The steps of the application.                                            *)

\* While a run is followed no start of this page is in flight, and the run is
\* one that a step can only keep.
LEMMA FollowedStays ==
    ASSUME AppInv, Keeps, runId # Nothing
    PROVE  runId' = runId
BY DEF AppInv, HookInv, ShowInv, Followed, Keeps

\* Steps between starts and resets that stay on the screen, go back to the
\* setup, or go on to a screen whose run is ready for it.
LEMMA KeepsApp ==
    ASSUME AppInv, AppTypeOK', HookInv', Lasting, Keeps,
           UNCHANGED <<mode, selectedTask, selectedScans, reloads>>,
           selectedStrategies' > 0, stored' \in {stored, Session},
           \/ screen' = screen
           \/ screen' = 1
           \/ /\ screen' \in {5, 6} /\ runId # Nothing /\ Analyzed(backend[runId])
              /\ mode = "benchmark" => selectedTask
           \/ /\ screen' = 7 /\ runId # Nothing /\ Finished(backend[runId])
              /\ mode = "benchmark" => selectedTask
    PROVE  AppInv'
<1>a. AppTypeOK /\ Sound(Session, start, backend) /\ NewestIsOurs /\ Waits BY DEF AppInv
<1>b. runId \in Runs \cup {Nothing} /\ screen \in 0..7
  BY <1>a DEF AppTypeOK, TypeOK, Screens
<1>1. stored' # Nothing => Sound(stored', start', backend') BY StoredLasts
<1>2. NewestIsOurs'
  <2>. SUFFICES ASSUME NEW r \in Runs, InFlight(r)', Current(r)'
                PROVE  requested' /\ selectedScans' /\ start'[r].mode = RunMode(mode')
    BY DEF NewestIsOurs
  <2>1. InFlight(r) /\ Current(r) /\ UNCHANGED requested BY DEF Keeps
  <2>2. start'[r].mode = start[r].mode BY <2>1 DEF Lasting, InFlight, Calls
  <2>. QED BY <1>a, <2>1, <2>2 DEF NewestIsOurs
<1>3. runId' # Nothing => /\ requested' /\ selectedScans'
                          /\ start'[runId'].pc = "shown"
                          /\ start'[runId'].mode = RunMode(mode')
  <2>1. CASE runId' = runId
    <3>1. runId # Nothing => /\ requested /\ selectedScans /\ start[runId].pc = "shown"
                             /\ start[runId].mode = RunMode(mode)
      BY <1>a DEF Sound, Session
    <3>. QED BY <1>b, <2>1, <3>1 DEF Keeps, Lasting
  <2>2. ASSUME NEW r \in Runs, InFlight(r), Current(r), runId' = r, start'[r].pc = "shown"
        PROVE  /\ requested' /\ selectedScans' /\ start'[r].pc = "shown"
               /\ start'[r].mode = RunMode(mode')
    BY <1>a, <2>2 DEF NewestIsOurs, Keeps, Lasting, InFlight, Calls
  <2>. QED BY <2>1, <2>2 DEF Keeps
<1>4. Sound(Session, start', backend')
  <2>1. Session \in PersistedDemoSession BY <1>a, SessionType
  <2>2. Session.runId \in Runs \cup {Nothing} BY <2>1 DEF PersistedDemoSession
  <2>. QED BY <1>a, <2>2, SoundLasts
<1>5. Sound(Session', start', backend')
  <2>1. CASE screen' = screen
    <3>1. screen >= 5 => runId' = runId /\ runId # Nothing
      <4>1. screen >= 5 => runId # Nothing BY <1>a DEF Sound, Session
      <4>. QED BY <4>1, FollowedStays
    <3>. QED BY <1>3, <1>4, <2>1, <3>1 DEF Sound, Session, Keeps
  <2>2. CASE screen' = 1
    BY <1>3, <2>2 DEF Sound, Session
  <2>3. CASE /\ screen' \in {5, 6} /\ runId # Nothing /\ Analyzed(backend[runId])
             /\ mode = "benchmark" => selectedTask
    <3>1. runId' = runId BY <2>3, FollowedStays
    <3>2. Analyzed(backend'[runId']) BY <1>b, <2>3, <3>1 DEF Lasting
    <3>. QED BY <1>3, <2>3, <3>1, <3>2 DEF Sound, Session
  <2>4. CASE /\ screen' = 7 /\ runId # Nothing /\ Finished(backend[runId])
             /\ mode = "benchmark" => selectedTask
    <3>1. runId' = runId BY <2>4, FollowedStays
    <3>2. Finished(backend'[runId']) BY <1>b, <2>4, <3>1 DEF Lasting
    <3>. QED BY <1>3, <2>4, <3>1, <3>2 DEF Sound, Session
  <2>. QED BY <2>1, <2>2, <2>3, <2>4
<1>6. Waits'
  <2>. SUFFICES ASSUME screen' = 4, mode' = "upload", runId' = Nothing
                PROVE  busy' \/ error' # Nothing
    BY DEF Waits
  <2>1. screen = 4 /\ mode = "upload" OBVIOUS
  <2>2. runId = Nothing BY FollowedStays
  <2>. QED BY <1>a, <2>1, <2>2 DEF Waits, Keeps
<1>. QED BY <1>1, <1>2, <1>5, <1>6 DEF AppInv

\* Steps that leave the workflow: no start is awaited, and no run followed.
LEMMA ResetApp ==
    ASSUME AppInv, AppTypeOK', HookInv', Lasting, Reset, selectedStrategies' > 0,
           stored' \in {stored, Nothing}, screen' \in {0, 1}
    PROVE  AppInv'
<1>1. stored' # Nothing => Sound(stored', start', backend') BY StoredLasts
<1>2. /\ runId' = Nothing /\ requested' = FALSE /\ generation' = generation + 1
      /\ UNCHANGED start
  BY DEF Reset, ResetState
<1>3. \A r \in Runs : ~Current(r)'
  <2>. SUFFICES ASSUME NEW r \in Runs, Current(r)' PROVE FALSE
    OBVIOUS
  <2>1. start[r].operation = generation + 1 BY <1>2 DEF Current
  <2>2. start[r].operation <= generation BY DEF AppInv, HookInv, ShowInv, Numbered
  <2>3. generation \in Nat /\ start[r].operation \in Nat
    BY DEF AppInv, HookInv, ShowInv, TypeOK, Starts
  <2>. QED BY <2>1, <2>2, <2>3
<1>4. NewestIsOurs' BY <1>3 DEF NewestIsOurs
<1>5. Sound(Session', start', backend') BY <1>2 DEF Sound, Session
<1>6. Waits' BY DEF Waits
<1>. QED BY <1>1, <1>4, <1>5, <1>6 DEF AppInv

\* Steps that start a run of the workflow.
LEMMA StartApp ==
    ASSUME AppInv, AppTypeOK', HookInv', Lasting, NEW r \in Runs, Start(r, RunMode(mode)),
           UNCHANGED <<mode, selectedStrategies, stored>>, selectedScans' = TRUE,
           \/ screen' = 1
           \/ screen' = 4 /\ mode # "custom" /\ (mode = "benchmark" => selectedTask')
    PROVE  AppInv'
<1>a. AppTypeOK /\ Sound(Session, start, backend) BY DEF AppInv
<1>1. stored' # Nothing => Sound(stored', start', backend') BY StoredLasts
<1>2. PICK pc \in {"uploading", "creating"} : PrepareStart(r, RunMode(mode), pc)
  BY DEF Start
<1>3. /\ runId' = Nothing /\ requested' = TRUE /\ busy' = TRUE /\ generation' = generation + 1
      /\ start'[r].mode = RunMode(mode) /\ \A q \in Runs \ {r} : start'[q] = start[q]
  BY <1>2, <1>a DEF PrepareStart, AppTypeOK, TypeOK
<1>4. ASSUME NEW q \in Runs \ {r} PROVE ~Current(q)'
  <2>1. start[q].operation <= generation BY DEF AppInv, HookInv, ShowInv, Numbered
  <2>2. generation \in Nat /\ start[q].operation \in Nat BY <1>a DEF AppTypeOK, TypeOK, Starts
  <2>. QED BY <1>3, <2>1, <2>2 DEF Current
<1>5. NewestIsOurs' BY <1>3, <1>4 DEF NewestIsOurs
<1>6. Sound(Session', start', backend')
  <2>1. selectedStrategies > 0 BY <1>a DEF Sound, Session
  <2>. QED BY <1>3, <2>1 DEF Sound, Session
<1>7. Waits' BY <1>3 DEF Waits
<1>. QED BY <1>1, <1>5, <1>6, <1>7 DEF AppInv

\* The session a refresh finds.
LEMMA LoadSound ==
    ASSUME AppInv
    PROVE  /\ LoadDemoSession \in PersistedDemoSession
           /\ Sound(LoadDemoSession, start, backend)
           /\ LoadDemoSession.screen = 4 /\ LoadDemoSession.runId = Nothing
                => LoadDemoSession.mode = "benchmark"
<1>1. CASE stored = Nothing
  <2>1. LoadDemoSession = DefaultDemoSession BY <1>1 DEF LoadDemoSession
  <2>. QED BY <2>1, DefaultSound DEF DefaultDemoSession
<1>2. CASE stored # Nothing
  <2>1. stored \in PersistedDemoSession /\ Sound(stored, start, backend)
    BY <1>2 DEF AppInv, AppTypeOK
  <2>2. LoadDemoSession = RestoreDemoSession(stored) BY <1>2 DEF LoadDemoSession
  <2>3. /\ RestoreDemoSession(stored) \in PersistedDemoSession
        /\ Sound(RestoreDemoSession(stored), start, backend)
    BY <2>1, RestoreSound
  <2>4. /\ RestoreDemoSession(stored).screen = RestoredScreen(stored)
        /\ RestoreDemoSession(stored).mode = stored.mode
        /\ RestoreDemoSession(stored).runId = stored.runId
    BY <2>1 DEF RestoreDemoSession, PersistedDemoSession
  <2>5. ASSUME RestoredScreen(stored) = 4, stored.runId = Nothing PROVE stored.mode = "benchmark"
    <3>1. stored.screen = 4 BY <2>1, <2>5, RestoredTo
    <3>2. stored.mode # "upload" BY <2>1, <2>5, <3>1, RestoredTo
    <3>3. stored.mode # "custom" BY <2>1, <3>1 DEF Sound
    <3>. QED BY <2>1, <3>2, <3>3 DEF PersistedDemoSession, AppModes
  <2>. QED BY <2>2, <2>3, <2>4, <2>5
<1>. QED BY <1>1, <1>2

\* What a refresh makes of the page.
LEMMA ReloadedSession ==
    ASSUME AppInv, Reload
    PROVE  /\ Session' = LoadDemoSession
           /\ screen' = LoadDemoSession.screen /\ mode' = LoadDemoSession.mode
           /\ runId' = LoadDemoSession.runId
<1>1. LoadDemoSession \in PersistedDemoSession BY LoadSound
<1>. QED BY <1>1 DEF Reload, Session, PersistedDemoSession

\* A refresh keeps the types.
LEMMA ReloadType ==
    ASSUME AppInv, Reload
    PROVE  AppTypeOK'
<1>a. AppTypeOK /\ TypeOK BY DEF AppInv, AppTypeOK
<1>1. LoadDemoSession \in PersistedDemoSession BY LoadSound
<1>2. PICK s \in PersistedDemoSession : s = LoadDemoSession BY <1>1
<1>3. /\ screen' = s.screen /\ mode' = s.mode /\ selectedTask' = s.selectedTask
      /\ customPrompt' = s.customPrompt /\ selectedScans' = s.selectedScans
      /\ selectedStrategies' = s.selectedStrategies /\ requested' = s.liveRequested
      /\ runId' = s.runId /\ busy' = (s.runId # Nothing)
  BY <1>2 DEF Reload
<1>b. /\ UNCHANGED <<backend, stored>> /\ Fault /\ reloads' = reloads + 1 /\ generation' = 0
      /\ progress' = Nothing /\ report' = Nothing /\ error' = Nothing
      /\ terminalMessage' = Nothing
  BY DEF Reload
<1>4. start' \in [Runs -> Starts]
  <2> DEFINE Superseded(r) ==
               [start[r] EXCEPT !.operation = 0, !.seen = "none",
                  !.pc = IF start[r].pc \in Calls THEN "superseded" ELSE @]
  <2>1. ASSUME NEW r \in Runs PROVE Superseded(r) \in Starts
    <3>1. start[r] \in Starts BY <1>a DEF TypeOK
    <3>2. "superseded" \in Returns /\ "none" \in JobStatus BY DEF Returns, JobStatus
    <3>3. CASE start[r].pc \in Calls
      <4>1. Superseded(r) =
              [start[r] EXCEPT !.operation = 0, !.seen = "none", !.pc = "superseded"]
        BY <3>1, <3>3 DEF Starts
      <4>. QED BY <3>1, <3>2, <4>1 DEF Starts
    <3>4. CASE start[r].pc \notin Calls
      <4>1. Superseded(r) = [start[r] EXCEPT !.operation = 0, !.seen = "none"]
        BY <3>1, <3>4 DEF Starts
      <4>. QED BY <3>1, <3>2, <4>1 DEF Starts
    <3>. QED BY <3>3, <3>4
  <2>2. start' = [r \in Runs |-> Superseded(r)] BY DEF Reload
  <2> HIDE DEF Superseded
  <2>. QED BY <2>1, <2>2
<1>5. BackendOK'
  <2>1. late' \subseteq Runs /\ UNCHANGED <<backend, opened>> BY <1>a DEF Reload, TypeOK
  <2>. QED BY <1>a, <2>1 DEF BackendOK, TypeOK
<1>6. LoopsOK'
  <2>1. NoPoll \in Polls /\ NoPoll.pc = "off" BY DEF NoPoll, Polls
  <2>. QED BY <2>1 DEF Reload, LoopsOK
<1>7. CommandOK'
  <2>1. sent' = {[c EXCEPT !.heard = FALSE] : c \in sent} BY DEF Reload
  <2>2. \A c \in Commands : [c EXCEPT !.heard = FALSE] \in Commands BY DEF Commands
  <2>. QED BY <1>a, <2>1, <2>2 DEF CommandOK, TypeOK
<1>8. StateOK'
  <2>1. requested' \in BOOLEAN /\ runId' \in Runs \cup {Nothing}
    BY <1>3 DEF PersistedDemoSession
  <2>2. busy' \in BOOLEAN BY <1>3
  <2>. QED BY <1>b, <2>1, <2>2 DEF StateOK
<1>9. CountsOK' BY <1>a, <1>b DEF CountsOK, Fault, TypeOK
<1>10. TypeOK' BY <1>4, <1>5, <1>6, <1>7, <1>8, <1>9, GroupsNext
<1>11. reloads' \in Nat BY <1>a, <1>b DEF AppTypeOK
<1>. QED BY <1>a, <1>b, <1>3, <1>10, <1>11 DEF AppTypeOK, PersistedDemoSession

\* A refresh leaves no start of the page in flight, and nothing on the screen.
LEMMA ReloadHook ==
    ASSUME AppInv, Reload
    PROVE  HookInv' /\ Lasting /\ \A r \in Runs : ~InFlight(r)'
<1>a. TypeOK /\ HookInv BY DEF AppInv, AppTypeOK
<1>b. TypeOK' BY ReloadType DEF AppTypeOK
<1>1. \A r \in Runs : /\ start'[r].operation = 0 /\ start'[r].mode = start[r].mode
                      /\ start'[r].pc = IF start[r].pc \in Calls THEN "superseded" ELSE start[r].pc
  BY <1>a DEF Reload, TypeOK, Starts
<1>2. \A r \in Runs : /\ start'[r].pc \notin Calls
                      /\ start[r].pc # "idle" => start'[r].pc # "idle"
                      /\ start[r].pc = "shown" => start'[r].pc = "shown"
  BY <1>1 DEF Calls
<1>3. /\ generation' = 0 /\ poll' = NoPoll /\ settled' = <<Nothing, Nothing>>
      /\ UNCHANGED <<backend, opened>>
      /\ progress' = Nothing /\ report' = Nothing /\ error' = Nothing /\ terminalMessage' = Nothing
  BY DEF Reload
<1>4. Numbered' BY <1>1, <1>2, <1>3 DEF Numbered, NoPoll
<1>5. Followed' BY <1>2, <1>3 DEF Followed, NoPoll, IsCurrent, InFlight
<1>6. RowInv' /\ RowsLast BY <1>a, <1>3, SameRows DEF HookInv, ShowInv
<1>7. Answered' /\ SeenAnalyzed' BY <1>3 DEF Answered, SeenAnalyzed, NoPoll
<1>8. ShownIsCurrent' /\ ReportIsFinal' BY <1>3 DEF ShownIsCurrent, ReportIsFinal
<1>9. Lasting BY <1>1, <1>2, <1>6 DEF Lasting, RowsLast
<1>10. Core'
  <2>1. runId' = LoadDemoSession.runId /\ busy' = (LoadDemoSession.runId # Nothing)
    BY DEF Reload
  <2>2. PendingIsBusy' BY <1>2 DEF PendingIsBusy, InFlight
  <2>3. FollowedIsExplained' BY <2>1 DEF FollowedIsExplained
  <2>4. runId' # Nothing => start[runId'].pc = "shown" BY <2>1, LoadSound DEF Sound
  <2>5. ShownOnce' BY <1>2, <1>3, <2>4, LiveRunAssumption DEF ShownOnce
  <2>. QED BY <2>2, <2>3, <2>5 DEF Core
<1>. QED BY <1>b, <1>2, <1>4, <1>5, <1>6, <1>7, <1>8, <1>9, <1>10 DEF HookInv, ShowInv, InFlight

\* A refresh comes back to a sound session.
LEMMA ReloadApp ==
    ASSUME AppInv, Reload
    PROVE  AppInv'
<1>1. AppTypeOK' BY ReloadType
<1>2. HookInv' /\ Lasting /\ \A r \in Runs : ~InFlight(r)' BY ReloadHook
<1>3. NewestIsOurs' BY <1>2 DEF NewestIsOurs
<1>4. LoadDemoSession \in PersistedDemoSession /\ Sound(LoadDemoSession, start, backend)
  BY LoadSound
<1>5. Sound(Session', start', backend')
  <2>1. LoadDemoSession.runId \in Runs \cup {Nothing} BY <1>4 DEF PersistedDemoSession
  <2>2. Sound(LoadDemoSession, start', backend') BY <1>2, <1>4, <2>1, SoundLasts
  <2>. QED BY <2>2, ReloadedSession
<1>6. stored' # Nothing => Sound(stored', start', backend')
  BY <1>2, StoredLasts DEF Reload
<1>7. Waits' BY LoadSound, ReloadedSession DEF Waits
<1>. QED BY <1>1, <1>2, <1>3, <1>5, <1>6, <1>7 DEF AppInv

-----------------------------------------------------------------------------
(* Every step.                                                              *)

\* All but a refresh are steps of the hook.
LEMMA StepsOfTheHook ==
    ASSUME AppNext \/ UNCHANGED appVars, ~Reload
    PROVE  [Next]_vars
<1>1. ASSUME NEW r \in Runs, NEW m \in {"benchmark", "upload", "custom_prompt"}, Start(r, m)
      PROVE  UserStep
  BY <1>1 DEF UserStep, Start
<1>2. CASE Configure \/ Cancel \/ Reset \/ Effect \/ UNCHANGED vars
  BY <1>2 DEF Next, UserStep
<1>3. CASE ScreenStep
  BY <1>1, <1>2, <1>3
     DEF ScreenStep, Next, RepairAndCompare, EditAndRetry, ChooseRepair, RepairWithAi,
         AnalyzeNewCode, CancelRun, ViewResults, BackToStrategies, StartNewEvaluation, RestartDemo,
         StartBaseline, Scan, Generate, PromptChange, RunRepairs, ChooseMode, GoTo
<1>. QED BY <1>2, <1>3 DEF AppNext, appVars, Next, Effects, Sections, RestartDemo, Navigate

\* The values the steps give the application's own variables.
LEMMA AppLiterals ==
    /\ {0, 1, 4, 5, 6, 7} \subseteq Screens
    /\ {"benchmark", "custom", "upload"} \subseteq AppModes
    /\ "empty" \in Prompts
    /\ MaxStrategies \in 0..MaxStrategies /\ 1..MaxStrategies \subseteq 0..MaxStrategies
    /\ 0 \in Nat
BY DemoAppAssumption DEF Screens, AppModes, Prompts

\* Every step keeps the types of the application's own variables.
LEMMA AppStepType ==
    ASSUME AppInv, TypeOK', AppNext \/ UNCHANGED appVars, ~Reload
    PROVE  AppTypeOK'
<1>a. AppTypeOK /\ Typed \subseteq Prompts
  BY DemoAppAssumption DEF AppInv
<1>b. Session \in PersistedDemoSession BY <1>a, SessionType
<1>. USE AppLiterals DEF AppTypeOK
<1>1. CASE (SystemStep /\ UNCHANGED app) \/ UNCHANGED appVars
  BY <1>a, <1>1 DEF app, appVars, inputs
<1>2. CASE Effects
  BY <1>a, <1>b, <1>2 DEF Effects, inputs
<1>3. CASE Sections \/ StartNewEvaluation
  <2>1. CASE RestartDemo BY <1>a, <2>1 DEF RestartDemo, Forget
  <2>2. ASSUME NEW m \in AppModes, Navigate(m) PROVE AppTypeOK'
    BY <1>a, <2>2 DEF Navigate, Forget
  <2>. QED BY <1>3, <2>1, <2>2 DEF Sections, StartNewEvaluation
<1>4. CASE \/ RepairAndCompare \/ ChooseRepair \/ RepairWithAi \/ AnalyzeNewCode
           \/ ViewResults \/ BackToStrategies
  BY <1>a, <1>4 DEF RepairAndCompare, ChooseRepair, RepairWithAi, AnalyzeNewCode, ViewResults,
     BackToStrategies, GoTo, inputs
<1>5. CASE EditAndRetry \/ CancelRun
  BY <1>a, <1>5 DEF EditAndRetry, CancelRun, app, inputs
<1>6. CASE \E r \in Runs : StartBaseline(r) \/ Scan(r) \/ Generate(r)
  BY <1>a, <1>6 DEF StartBaseline, Scan, Generate
<1>7. CASE \E p \in Typed : PromptChange(p)
  BY <1>a, <1>7 DEF PromptChange
<1>8. CASE \E n \in 1..MaxStrategies : RunRepairs(n)
  BY <1>a, <1>8 DEF RunRepairs
<1>9. CASE \E m \in AppModes : ChooseMode(m)
  BY <1>a, <1>9 DEF ChooseMode, inputs
<1>. QED BY <1>1, <1>2, <1>3, <1>4, <1>5, <1>6, <1>7, <1>8, <1>9 DEF AppNext, ScreenStep

\* What the buttons of a followed run see is so.
LEMMA ScreenSees ==
    ASSUME AppInv
    PROVE  /\ BaselineReady => runId # Nothing /\ Analyzed(backend[runId])
           /\ report # Nothing => runId # Nothing /\ Finished(backend[runId])
<1>1. ShownIsCurrent /\ ReportIsFinal /\ SeenAnalyzed /\ TypeOK
  BY DEF AppInv, HookInv, ShowInv
<1>2. progress # Nothing => progress.run = runId /\ progress.run \in Runs
  BY <1>1 DEF ShownIsCurrent, TypeOK, RunProgress
<1>3. report # Nothing => report.run = runId /\ report.run \in Runs
  BY <1>1 DEF ShownIsCurrent, TypeOK, RunReport
<1>4. BaselineReady => progress # Nothing /\ progress.stage = "awaiting"
  BY DEF BaselineReady, Stage
<1>. QED BY <1>1, <1>2, <1>3, <1>4, LiveRunAssumption DEF SeenAnalyzed, ReportIsFinal

\* The screens' own moves.
LEMMA ScreenApp ==
    ASSUME AppInv, AppTypeOK', HookInv', Lasting, ScreenStep
    PROVE  AppInv'
<1>a. AppTypeOK /\ HookInv /\ Sound(Session, start, backend) BY DEF AppInv
<1>b. /\ selectedStrategies > 0 /\ MaxStrategies > 0
      /\ screen >= 4 => (mode = "benchmark" => selectedTask)
      /\ screen >= 5 => runId # Nothing
      /\ screen \in {5, 6} => Analyzed(backend[runId])
      /\ screen = 0 => ~requested
  BY <1>a, DemoAppAssumption DEF Sound, Session
<1>1. UNCHANGED vars => Keeps BY <1>a, OtherKeeps
<1>2. CASE RepairAndCompare \/ ChooseRepair \/ RepairWithAi
  <2>1. /\ BaselineReady /\ screen' = 5 /\ (screen = 4 \/ mode = "custom")
        /\ UNCHANGED <<vars, mode, inputs, stored, reloads>>
    BY <1>2 DEF RepairAndCompare, ChooseRepair, RepairWithAi, GoTo, On
  <2>. QED BY <1>b, <1>1, <2>1, ScreenSees, KeepsApp DEF inputs
<1>3. CASE AnalyzeNewCode
  <2>1. screen' = 1 /\ UNCHANGED <<vars, mode, inputs, stored, reloads>>
    BY <1>3 DEF AnalyzeNewCode, GoTo
  <2>. QED BY <1>b, <1>1, <2>1, KeepsApp DEF inputs
<1>4. CASE ViewResults
  <2>1. /\ report # Nothing /\ screen = 6 /\ screen' = 7
        /\ UNCHANGED <<vars, mode, inputs, stored, reloads>>
    BY <1>4 DEF ViewResults, GoTo, On
  <2>. QED BY <1>b, <1>1, <2>1, ScreenSees, KeepsApp DEF inputs
<1>5. CASE BackToStrategies
  <2>1. /\ screen = 6 /\ screen' = 5 /\ UNCHANGED <<vars, mode, inputs, stored, reloads>>
    BY <1>5 DEF BackToStrategies, GoTo, On
  <2>. QED BY <1>b, <1>1, <2>1, KeepsApp DEF inputs
<1>6. CASE CancelRun
  <2>1. Keeps BY <1>a, <1>6, OtherKeeps DEF CancelRun
  <2>. QED BY <1>b, <1>6, <2>1, KeepsApp DEF CancelRun, app, inputs
<1>7. ASSUME NEW n \in 1..MaxStrategies, RunRepairs(n) PROVE AppInv'
  <2>1. Keeps BY <1>a, <1>1, <1>7, OtherKeeps DEF RunRepairs
  <2>2. /\ screen = 5 /\ screen' = 6 /\ selectedStrategies' > 0
        /\ UNCHANGED <<mode, selectedTask, selectedScans, stored, reloads>>
    BY <1>7 DEF RunRepairs, On
  <2>. QED BY <1>b, <2>1, <2>2, KeepsApp
<1>8. ASSUME NEW p \in Typed, PromptChange(p) PROVE AppInv'
  <2>1. UNCHANGED <<vars, screen, mode, selectedTask, selectedScans, selectedStrategies,
                    stored, reloads>>
    BY <1>8 DEF PromptChange
  <2>. QED BY <1>b, <1>1, <2>1, KeepsApp
<1>9. CASE EditAndRetry
  <2>1. Reset /\ screen = 1 /\ UNCHANGED <<screen, selectedStrategies, stored>>
    BY <1>9 DEF EditAndRetry, On, app, inputs
  <2>. QED BY <1>b, <2>1, ResetApp
<1>10. CASE StartNewEvaluation
  <2>1. Reset /\ screen' = 0 /\ selectedStrategies' = MaxStrategies /\ stored' = Nothing
    BY <1>10 DEF StartNewEvaluation, RestartDemo, Forget
  <2>. QED BY <1>b, <2>1, ResetApp
<1>11. ASSUME NEW r \in Runs, StartBaseline(r) \/ Scan(r) \/ Generate(r) PROVE AppInv'
  <2>1. /\ Start(r, RunMode(mode)) /\ UNCHANGED <<mode, selectedStrategies, stored>>
        /\ selectedScans' = TRUE
        /\ \/ screen' = 1
           \/ screen' = 4 /\ mode # "custom" /\ (mode = "benchmark" => selectedTask')
    BY <1>11 DEF StartBaseline, Scan, Generate, On, RunMode
  <2>. QED BY <2>1, StartApp
<1>12. ASSUME NEW m \in AppModes, ChooseMode(m) PROVE AppInv'
  <2>1. screen = 0 /\ screen' = 1 /\ UNCHANGED <<vars, inputs, stored, reloads>>
    BY <1>12 DEF ChooseMode
  <2>2. UNCHANGED <<start, backend, generation, runId, requested, selectedScans,
                    selectedStrategies, stored>>
    BY <2>1 DEF vars, inputs, state
  <2>3. requested = FALSE /\ runId = Nothing
    BY <1>a, <1>b, <2>1 DEF Sound, Session, AppTypeOK, TypeOK
  <2>4. NewestIsOurs'
    BY <1>b, <2>1, <2>2 DEF AppInv, NewestIsOurs, InFlight, Current
  <2>5. Sound(Session', start', backend') BY <1>b, <2>1, <2>2, <2>3 DEF Sound, Session
  <2>6. stored' # Nothing => Sound(stored', start', backend') BY <2>2 DEF AppInv
  <2>7. Waits' BY <2>1 DEF Waits
  <2>. QED BY <2>4, <2>5, <2>6, <2>7 DEF AppInv
<1>. QED BY <1>2, <1>3, <1>4, <1>5, <1>6, <1>7, <1>8, <1>9, <1>10, <1>11, <1>12 DEF ScreenStep

\* AppInv is inductive.
LEMMA AppInvStep == AppInv /\ [AppNext]_appVars => AppInv'
<1>. SUFFICES ASSUME AppInv, AppNext \/ UNCHANGED appVars, ~Reload PROVE AppInv'
  BY ReloadApp
<1>a. HookInv /\ AppTypeOK /\ Sound(Session, start, backend) BY DEF AppInv
<1>1. [Next]_vars BY StepsOfTheHook
<1>2. HookInv' /\ TypeOK' /\ Lasting BY <1>a, <1>1, HookStep
<1>3. AppTypeOK' BY <1>2, AppStepType
<1>4. selectedStrategies > 0 /\ MaxStrategies > 0
  BY <1>a, DemoAppAssumption DEF Sound, Session
<1>5. CASE (SystemStep /\ UNCHANGED app) \/ UNCHANGED appVars
  <2>1. Keeps BY <1>a, <1>5, SystemKeeps, OtherKeeps DEF appVars
  <2>2. UNCHANGED <<screen, mode, selectedTask, selectedScans, selectedStrategies, stored, reloads>>
    BY <1>5 DEF appVars, app, inputs
  <2>. QED BY <1>2, <1>3, <1>4, <2>1, <2>2, KeepsApp
<1>6. CASE Effects
  <2>1. Keeps BY <1>a, <1>6, EffectKeeps, OtherKeeps DEF Effects
  <2>2. /\ UNCHANGED <<mode, selectedTask, selectedScans, selectedStrategies, reloads>>
        /\ stored' = Session
    BY <1>6 DEF Effects, inputs
  <2>3. \/ screen' = screen
        \/ screen' = 7 /\ report # Nothing /\ mode # "benchmark"
    BY <1>6 DEF Effects, CleanReport
  <2>. QED BY <1>2, <1>3, <1>4, <2>1, <2>2, <2>3, ScreenSees, KeepsApp
<1>7. CASE ScreenStep BY <1>2, <1>3, <1>7, ScreenApp
<1>8. CASE Sections
  <2>1. /\ Reset /\ screen' \in {0, 1} /\ selectedStrategies' = MaxStrategies
        /\ stored' \in {stored, Nothing}
    BY <1>8 DEF Sections, RestartDemo, Navigate, Forget
  <2>. QED BY <1>2, <1>3, <1>4, <2>1, ResetApp
<1>. QED BY <1>5, <1>6, <1>7, <1>8 DEF AppNext

\* The first page.
LEMMA AppInvInit == AppInit => AppInv
<1>. SUFFICES ASSUME AppInit PROVE AppInv
  OBVIOUS
<1>1. Init BY DEF AppInit
<1>2. TypeOK /\ ShowInv BY <1>1, TypeInit, ShowInvInit
<1>3. AppTypeOK
  BY <1>2, AppLiterals DEF AppInit, AppTypeOK
<1>4. SeenAnalyzed /\ Core BY <1>1, IdleInvInit DEF Init, SeenAnalyzed, NoPoll, IdleInv
<1>5. NewestIsOurs BY <1>1 DEF Init, NewestIsOurs, InFlight, Calls, NotStarted
<1>6. Sound(Session, start, backend)
  BY <1>1, DemoAppAssumption DEF AppInit, Init, Sound, Session
<1>7. Waits BY DEF AppInit, Waits
<1>. QED BY <1>2, <1>3, <1>4, <1>5, <1>6, <1>7 DEF AppInit, AppInv, HookInv

-----------------------------------------------------------------------------
(* The theorems.                                                            *)

\* Every reachable state satisfies AppInv.
THEOREM AppInvariance == AppSpec => []AppInv
BY AppInvInit, AppInvStep, PTL DEF AppSpec

\* Every variable of the application keeps its type, that of the saved session
\* included.
THEOREM AppTypeCorrect == AppSpec => []AppTypeOK
<1>1. AppInv => AppTypeOK BY DEF AppInv
<1>. QED BY <1>1, AppInvariance, PTL

\* The run on the screen was created by the workflow on the screen, across
\* section changes, superseded starts and refreshes.
THEOREM RunsAreOfTheirWorkflow == AppSpec => []RunIsOfThisWorkflow
<1>1. AppInv => RunIsOfThisWorkflow BY DEF AppInv, Sound, Session, RunIsOfThisWorkflow
<1>. QED BY <1>1, AppInvariance, PTL

\* No screen without a request behind it is reached or refreshed into.
THEOREM ScreensAreAlive == AppSpec => []NoDeadScreen
<1>1. AppInv => NoDeadScreen BY DEF AppInv, Sound, Session, NoDeadScreen
<1>. QED BY <1>1, AppInvariance, PTL

\* The strategies are chosen only after the baseline of the run on the screen.
THEOREM RepairsComeAfterBaselines == AppSpec => []RepairsFollowBaseline
<1>1. AppInv => RepairsFollowBaseline
  BY DEF AppInv, AppTypeOK, Screens, Sound, Session, RepairsFollowBaseline
<1>. QED BY <1>1, AppInvariance, PTL

\* The results are a completed run's, the skip to them and a refresh included.
THEOREM ResultsAreOfCompletedRuns == AppSpec => []ResultsAreFinal
<1>1. AppInv => ResultsAreFinal BY DEF AppInv, Sound, Session, ResultsAreFinal
<1>. QED BY <1>1, AppInvariance, PTL

\* AnalysisProgressScreen and RepairProgressScreen never wait for nothing: a
\* polling call is due, or they show what became of the run or of its start.
THEOREM WaitingScreensWait == AppSpec => []WaitingScreenWaits
<1>1. AppInv => WaitingScreenWaits
  <2>. SUFFICES ASSUME AppInv, Settled, ~busy,
                       screen = 6 \/ (screen = 4 /\ mode = "upload" /\ ~BaselineReady)
                PROVE  \/ Message
                       \/ report # Nothing
                       \/ poll.pc \in {"asking", "answered", "fetching"} /\ IsCurrent
    BY DEF WaitingScreenWaits
  <2>1. FollowedIsExplained /\ Waits BY DEF AppInv, HookInv, Core
  <2>2. CASE runId # Nothing
    BY <2>1, <2>2 DEF FollowedIsExplained, Settled, Message, Polling
  <2>3. CASE runId = Nothing
    <3>1. screen \in 0..7 /\ (screen >= 5 => runId # Nothing)
      BY DEF AppInv, AppTypeOK, Screens, Sound, Session
    <3>2. screen = 4 /\ mode = "upload" BY <2>3, <3>1
    <3>. QED BY <2>1, <2>3, <3>2 DEF Waits, Message
  <2>. QED BY <2>2, <2>3
<1>. QED BY <1>1, AppInvariance, PTL

\* What the hook shows is the followed run's or the newest start's, and a report
\* a verdict's, though every refresh begins the numbering of the starts anew.
THEOREM RefreshedPagesShowTheNewest == AppSpec => [](ShownIsCurrent /\ ReportIsFinal)
<1>1. AppInv => ShownIsCurrent /\ ReportIsFinal BY DEF AppInv, HookInv, ShowInv
<1>. QED BY <1>1, AppInvariance, PTL

\* A settled page comes back to its run and its screen.
LEMMA ReloadKeepsPlace ==
    ASSUME AppInv, Reload, Settled
    PROVE  /\ runId' = runId
           /\ mode' = mode
           /\ \/ screen' = screen
              \/ /\ screen' = 1
                 /\ \/ mode = "upload" /\ runId = Nothing
                    \/ mode = "custom" /\ ~LongEnough(Sliced(customPrompt))
<1>1. Session \in PersistedDemoSession /\ Sound(Session, start, backend)
  BY SessionType DEF AppInv
<1>2. LoadDemoSession = RestoreDemoSession(Session)
  BY <1>1, NothingIsNoSession DEF Settled, LoadDemoSession
<1>3. /\ RestoreDemoSession(Session).screen = RestoredScreen(Session)
      /\ RestoreDemoSession(Session).mode = mode /\ RestoreDemoSession(Session).runId = runId
  BY DEF RestoreDemoSession, Session
<1>4. /\ runId' = runId /\ mode' = mode /\ screen' = RestoredScreen(Session)
  BY <1>2, <1>3, ReloadedSession
<1>5. /\ Session.screen = screen /\ Session.mode = mode /\ Session.runId = runId
      /\ Session.customPrompt = customPrompt
  BY DEF Session
<1>. QED BY <1>1, <1>4, <1>5, RestoredTo

\* A refresh of a settled page keeps its run, its mode and its screen, or goes to
\* the setup: an upload's whose run was not known, a prompt's which is too short
\* once cut to 1,000 characters and trimmed.
THEOREM RefreshesKeepTheirPlace == AppSpec => RefreshKeepsPlace
<1>1. ASSUME AppInv, [AppNext]_appVars, reloads' # reloads PROVE Reload
  <2>1. CASE UNCHANGED appVars BY <1>1, <2>1 DEF appVars, app
  <2>2. CASE ScreenStep
    BY <1>1, <2>2
       DEF ScreenStep, RepairAndCompare, EditAndRetry, ChooseRepair, RepairWithAi,
           AnalyzeNewCode, CancelRun, ViewResults, BackToStrategies, StartNewEvaluation,
           RestartDemo, StartBaseline, Scan, Generate, PromptChange, RunRepairs, ChooseMode, GoTo, app
  <2>3. CASE SystemStep /\ UNCHANGED app BY <1>1, <2>3 DEF app
  <2>4. CASE Effects \/ Sections
    BY <1>1, <2>4 DEF Effects, Sections, RestartDemo, Navigate
  <2>. QED BY <1>1, <2>1, <2>2, <2>3, <2>4 DEF AppNext
<1>2. AppInv /\ [AppNext]_appVars =>
        [reloads' # reloads /\ Settled =>
           /\ runId' = runId
           /\ mode' = mode
           /\ \/ screen' = screen
              \/ /\ screen' = 1
                 /\ \/ mode = "upload" /\ runId = Nothing
                    \/ mode = "custom" /\ ~LongEnough(Sliced(customPrompt))]_appVars
  BY <1>1, ReloadKeepsPlace
<1>. QED BY <1>2, AppInvariance, PTL DEF AppSpec, RefreshKeepsPlace

\* Whatever was saved, reachable or not, restoring it makes a session, never goes
\* forward, and a second refresh changes nothing: restoreDemoSession's three
\* corrections do not undo each other.
THEOREM RestoringIsStable ==
    ASSUME NEW s \in PersistedDemoSession
    PROVE  /\ RestoreDemoSession(s) \in PersistedDemoSession
           /\ RestoredScreen(s) <= s.screen
           /\ RestoreDemoSession(RestoreDemoSession(s)) = RestoreDemoSession(s)
<1>1. PICK t : t = RestoreDemoSession(s) OBVIOUS
<1>2. /\ t = [s EXCEPT !.screen = RestoredScreen(s), !.customPrompt = Sliced(s.customPrompt)]
      /\ t.screen = RestoredScreen(s) /\ t.customPrompt = Sliced(s.customPrompt)
      /\ t.mode = s.mode /\ t.selectedTask = s.selectedTask
      /\ t.selectedScans = s.selectedScans /\ t.selectedStrategies = s.selectedStrategies
      /\ t.runId = s.runId /\ t.liveRequested = s.liveRequested
  BY <1>1 DEF RestoreDemoSession, PersistedDemoSession
<1>3. s.screen \in 0..7 /\ s.selectedStrategies \in Nat
  BY DemoAppAssumption DEF PersistedDemoSession, Screens
<1>4. RestoredScreen(s) \in Screens /\ RestoredScreen(s) <= s.screen
  BY <1>3 DEF RestoredScreen, Screens
<1>5. t \in PersistedDemoSession
  <2>1. t.customPrompt \in Prompts BY <1>2 DEF Sliced, Prompts, PersistedDemoSession
  <2>. QED BY <1>2, <1>4, <2>1 DEF PersistedDemoSession
<1>6. Sliced(t.customPrompt) = t.customPrompt BY <1>2 DEF Sliced
<1>7. RestoredScreen(t) = RestoredScreen(s)
  BY <1>2, <1>3, <1>6 DEF RestoredScreen
<1>8. RestoreDemoSession(t) = t
  BY <1>2, <1>5, <1>6, <1>7 DEF RestoreDemoSession, PersistedDemoSession
<1>. QED BY <1>1, <1>4, <1>5, <1>8
=============================================================================
