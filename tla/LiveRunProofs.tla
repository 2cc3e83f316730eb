---------------------------- MODULE LiveRunProofs ----------------------------
(***************************************************************************)
(* LiveRun for every value of the constants: its types; that a row never   *)
(* outruns its runners; that no start the user was told had failed leaves a*)
(* run at work; that what is shown is the followed run's or the newest     *)
(* start's, and a report a verdict's; and that a hook without its spinner  *)
(* says why.                                                               *)
(***************************************************************************)
EXTENDS LiveRun, TLAPS

\* null is none of the records.
LEMMA Records ==
    /\ \A p \in RunProgress : p.run \in Runs /\ p.status \in JobStatus /\ p.stage \in RunStage
    /\ \A b \in Rows : b.status \in JobStatus /\ b.stage \in RunStage /\ b.tasks \in Nat
                       /\ b.verdict \in {"none", "completed", "failed"}
BY DEF RunProgress, Rows

\* Where a start goes, it is still a start.
LEMMA GoesType ==
    ASSUME start \in [Runs -> Starts], NEW r \in Runs, NEW pc \in {"idle"} \cup Calls \cup Returns,
           Goes(r, pc)
    PROVE  start' \in [Runs -> Starts]
BY DEF Goes, Starts, JobStatus

\* What cancel_run and configure_strategies commit.
LEMMA CommitType ==
    ASSUME backend \in [Runs -> Rows], NEW r \in Runs
    PROVE  Cancelled(r) \in [Runs -> Rows] /\ Configured(r) \in [Runs -> Rows]
<1>1. Cancelled(r) \in [Runs -> Rows] BY DEF Cancelled, Rows, JobStatus, RunStage
<1>2. Configured(r) \in [Runs -> Rows]
  <2>1. backend[r] \in Rows OBVIOUS
  <2>2. "repairing" \in RunStage /\ backend[r].tasks + 1 \in Nat
    BY <2>1, Records DEF RunStage
  <2>3. ASSUME NEW p \in {"repairing", "twice"}
        PROVE  [backend[r] EXCEPT !.stage = "repairing", !.tasks = @ + 1, !.phase = p] \in Rows
    BY <2>1, <2>2 DEF Rows
  <2>4. [backend EXCEPT ![r].stage = "repairing"] \in [Runs -> Rows] BY <2>2 DEF Rows
  <2>5. \A b \in Rows : [backend EXCEPT ![r] = b] \in [Runs -> Rows] OBVIOUS
  <2>. QED BY <2>3, <2>4, <2>5 DEF Configured
<1>. QED BY <1>1, <1>2

\* The browser's variables, all but the loop.
StateOK ==
    /\ requested \in BOOLEAN
    /\ runId \in Runs \cup {Nothing}
    /\ progress \in RunProgress \cup {Nothing}
    /\ report \in RunReport \cup {Nothing}
    /\ error \in Errors \cup {Nothing}
    /\ terminalMessage \in Runs \cup {Nothing}
    /\ busy \in BOOLEAN

\* A catch block keeps the ranges.
LEMMA ReturnErrorType ==
    ASSUME TypeOK, NEW r \in Runs, NEW pc \in {"idle"} \cup Calls \cup Returns, ReturnError(r, pc)
    PROVE  start' \in [Runs -> Starts] /\ StateOK'
<1>1. start' \in [Runs -> Starts] BY GoesType DEF ReturnError, TypeOK
<1>2. [from |-> "start", of |-> r] \in Errors BY DEF Errors
<1>3. /\ UNCHANGED <<requested, runId, progress, report, terminalMessage>>
      /\ (error' = [from |-> "start", of |-> r] /\ busy' = FALSE) \/ UNCHANGED <<error, busy>>
  BY DEF ReturnError
<1>4. StateOK BY DEF TypeOK, StateOK
<1>. QED BY <1>1, <1>2, <1>3, <1>4 DEF StateOK

\* TypeOK in the groups the actions change together.
BackendOK == backend \in [Runs -> Rows] /\ late \subseteq Runs /\ opened \subseteq Runs
LoopsOK == /\ poll \in Polls
           /\ poll.pc # "off" => poll.run \in Runs
           /\ poll.pc = "waiting" => poll.failures < MaxTransientFailures
           /\ settled \in (Runs \cup {Nothing}) \X (Runs \cup {Nothing})
CommandOK == sent \subseteq Commands
CountsOK == generation \in Nat /\ faults \in Nat /\ commands \in Nat /\ resets \in Nat

\* Nothing else is in TypeOK.
LEMMA Groups == TypeOK <=> /\ BackendOK /\ start \in [Runs -> Starts] /\ LoopsOK
                           /\ CommandOK /\ StateOK /\ CountsOK
BY DEF TypeOK, BackendOK, LoopsOK, CommandOK, StateOK, CountsOK

\* Nor in the next state's.
LEMMA GroupsNext == /\ BackendOK' /\ start' \in [Runs -> Starts] /\ LoopsOK'
                    /\ CommandOK' /\ StateOK' /\ CountsOK'
                    => TypeOK'
BY DEF TypeOK, BackendOK, LoopsOK, CommandOK, StateOK, CountsOK

\* A group whose variables stay keeps its range.
LEMMA Unchanged ==
    ASSUME TypeOK
    PROVE  /\ UNCHANGED <<backend, late, opened>> => BackendOK'
           /\ UNCHANGED start => start' \in [Runs -> Starts]
           /\ UNCHANGED loops => LoopsOK'
           /\ UNCHANGED sent => CommandOK'
           /\ UNCHANGED state => StateOK'
           /\ UNCHANGED <<generation, bounds>> => CountsOK'
           /\ UNCHANGED generation /\ Fault => CountsOK'
BY DEF TypeOK, BackendOK, LoopsOK, CommandOK, StateOK, CountsOK, loops, state, bounds, Fault

\* A loop that ended, and one that goes on.
LEMMA PollType ==
    ASSUME TypeOK
    PROVE  /\ NoPoll \in Polls
           /\ NoPoll.pc = "off"
           /\ Cleaned \in Polls
           /\ Cleaned.pc # "waiting" /\ (Cleaned.pc # "off" => Cleaned.run \in Runs)
           /\ \A pc \in {"asking", "fetching", "waiting", "stopped"} :
                [poll EXCEPT !.pc = pc, !.failures = 0, !.answer = Nothing] \in Polls
           /\ poll.failures \in Nat /\ poll.run \in Runs \cup {Nothing} /\ poll.operation \in Nat
           /\ poll.answer \in RunProgress \cup {Nothing}
BY LiveRunAssumption DEF TypeOK, Polls, NoPoll, Cleaned

\* Every step of the backend and of a start keeps the ranges.
LEMMA StartStepType ==
    ASSUME TypeOK, NEW r \in Runs, BackendStep(r) \/ StartStep(r)
    PROVE  TypeOK'
<1>. USE Groups, GroupsNext, Unchanged
<1>0. /\ {"starting", "creating", "superseded", "shown", "withdrawing", "cancelling", "failed",
          "withdrawn", "overtaken"} \subseteq {"idle"} \cup Calls \cup Returns
      /\ {"running", "completed", "failed", "cancelled", "queued"} \subseteq JobStatus
      /\ {"awaiting", "baseline", "repairing", "completed", "failed"} \subseteq RunStage
  BY DEF Calls, Returns, JobStatus, RunStage
<1>1. CASE AwaitStrategy(r)
  <2>1. backend' \in [Runs -> Rows] BY <1>1, <1>0 DEF AwaitStrategy, BackendOK, Rows
  <2>. QED BY <1>1, <2>1 DEF AwaitStrategy, BackendOK
<1>11. CASE SetStage(r)
  <2>1. backend' \in [Runs -> Rows] BY <1>11, <1>0 DEF SetStage, BackendOK, Rows
  <2>. QED BY <1>11, <2>1 DEF SetStage, BackendOK
<1>2. CASE Decide(r)
  <2>1. PICK v \in {"completed", "failed"} :
             backend' = [backend EXCEPT ![r].status = v, ![r].stage = v, ![r].verdict = v,
                                        ![r].tasks = @ - 1]
    BY <1>2 DEF Decide
  <2>2. backend[r].tasks \in Nat /\ backend[r].tasks > 0 BY <1>2, Records DEF Decide, BackendOK
  <2>3. backend' \in [Runs -> Rows] BY <2>1, <2>2, <1>0 DEF BackendOK, Rows
  <2>. QED BY <1>2, <2>3 DEF Decide, BackendOK
<1>3. CASE UploadAnswered(r)
  <2>1. start' \in [Runs -> Starts] BY <1>3, <1>0, GoesType DEF UploadAnswered
  <2>. QED BY <1>3, <2>1 DEF UploadAnswered
<1>4. CASE CreateServed(r)
  <2>1. backend' \in [Runs -> Rows] BY <1>4, <1>0 DEF CreateServed, BackendOK, Rows
  <2>. QED BY <1>4, <2>1 DEF CreateServed, BackendOK
<1>5. CASE CreateAnswered(r)
  <2>1. start' \in [Runs -> Starts] BY <1>5, <1>0, GoesType DEF CreateAnswered
  <2>. QED BY <1>5, <2>1 DEF CreateAnswered
<1>6. CASE StartCommit(r)
  <2>1. backend' = [backend EXCEPT ![r].status = "running", ![r].stage = "baseline",
                                   ![r].phase = "baseline", ![r].tasks = 1]
    BY <1>6 DEF StartCommit
  <2>2. backend \in [Runs -> Rows] BY DEF BackendOK
  <2>3. backend[r] \in Rows /\ {"baseline"} \subseteq RunStage BY <2>2, <1>0
  <2>4. [backend[r] EXCEPT !.status = "running", !.stage = "baseline", !.phase = "baseline",
                           !.tasks = 1] \in Rows
    BY <2>3, <1>0 DEF Rows
  <2>5. backend' = [backend EXCEPT ![r] = [backend[r] EXCEPT !.status = "running",
                      !.stage = "baseline", !.phase = "baseline", !.tasks = 1]]
    BY <2>1, <2>2 DEF Rows
  <2>6. backend' \in [Runs -> Rows] BY <2>2, <2>4, <2>5
  <2>. QED BY <1>6, <2>6 DEF StartCommit, BackendOK
<1>12. CASE StartRead(r)
  <2>1. BackendOK' BY <1>12 DEF StartRead, BackendOK
  <2>. QED BY <1>12, <2>1 DEF StartRead
<1>7. CASE StartAnswered(r)
  <2>1. start' \in [Runs -> Starts] BY <1>7, <1>0, GoesType DEF StartAnswered
  <2>2. [run |-> r, status |-> "running", stage |-> "baseline"] \in RunProgress
    BY <1>0 DEF RunProgress
  <2>3. StateOK' BY <1>7, <2>2 DEF StartAnswered, StateOK
  <2>. QED BY <1>7, <2>1, <2>3 DEF StartAnswered
<1>8. CASE ReconcileServed(r)
  <2>1. start[r] \in Starts /\ backend[r].status \in JobStatus BY Records DEF BackendOK
  <2>2. [start[r] EXCEPT !.pc = "reconciled", !.seen = backend[r].status] \in Starts
    BY <2>1 DEF Starts, Calls, Returns
  <2>3. start' \in [Runs -> Starts] BY <1>8, <2>2 DEF ReconcileServed
  <2>. QED BY <1>8, <2>3 DEF ReconcileServed
<1>9. CASE ReconcileAnswered(r)
  <2>1. CASE Goes(r, "shown") /\ runId' = r /\ error' = Nothing
             /\ UNCHANGED <<requested, progress, report, terminalMessage, busy>>
    <3>1. start' \in [Runs -> Starts] BY <2>1, <1>0, GoesType
    <3>2. StateOK' BY <2>1 DEF StateOK
    <3>. QED BY <1>9, <3>1, <3>2 DEF ReconcileAnswered
  <2>2. CASE Goes(r, "withdrawing") /\ UNCHANGED state
    <3>1. start' \in [Runs -> Starts] BY <2>2, <1>0, GoesType
    <3>. QED BY <1>9, <2>2, <3>1 DEF ReconcileAnswered
  <2>3. CASE ReturnError(r, IF start[r].seen = "running" THEN "superseded" ELSE "failed")
    <3>1. start' \in [Runs -> Starts] /\ StateOK' BY <2>3, <1>0, ReturnErrorType
    <3>. QED BY <1>9, <3>1 DEF ReconcileAnswered
  <2>. QED BY <1>9, <2>1, <2>2, <2>3 DEF ReconcileAnswered
<1>10. ASSUME Withdrawn(r) PROVE start' \in [Runs -> Starts] /\ StateOK'
  BY <1>10, <1>0, ReturnErrorType DEF Withdrawn
<1>13. CASE WithdrawRead(r)
  <2>1. CASE Goes(r, "cancelling") /\ UNCHANGED state
    <3>1. start' \in [Runs -> Starts] BY <2>1, <1>0, GoesType
    <3>. QED BY <1>13, <2>1, <3>1 DEF WithdrawRead
  <2>2. CASE Withdrawn(r) BY <1>10, <1>13, <2>2 DEF WithdrawRead
  <2>. QED BY <1>13, <2>1, <2>2 DEF WithdrawRead
<1>14. CASE WithdrawCommit(r)
  <2>1. start' \in [Runs -> Starts] /\ StateOK' BY <1>10, <1>14 DEF WithdrawCommit
  <2>2. backend' \in [Runs -> Rows] BY <1>14, CommitType DEF WithdrawCommit, BackendOK
  <2>. QED BY <1>14, <2>1, <2>2 DEF WithdrawCommit, BackendOK
<1>. QED BY <1>1, <1>2, <1>3, <1>4, <1>5, <1>6, <1>7, <1>8, <1>9, <1>11, <1>12, <1>13, <1>14
         DEF BackendStep, StartStep

\* Every step of the loop keeps the ranges.
LEMMA PollStepType == ASSUME TypeOK, PollStep \/ Effect \/ PollFails PROVE TypeOK'
<1>. USE Groups, GroupsNext, Unchanged, PollType
<1>1. CASE PollServed
  <2>1. Shown(poll.run) \in RunProgress
    BY <1>1, Records DEF PollServed, LoopsOK, Shown, RunProgress, BackendOK
  <2>2. LoopsOK' BY <1>1, <2>1 DEF PollServed, LoopsOK, Polls
  <2>. QED BY <1>1, <2>2 DEF PollServed
<1>2. CASE PollAnswered
  <2>1. CASE poll' = NoPoll /\ UNCHANGED state
    <3>1. LoopsOK' BY <1>2, <2>1 DEF PollAnswered, LoopsOK
    <3>. QED BY <1>2, <2>1, <3>1 DEF PollAnswered
  <2>2. CASE /\ progress' = poll.answer /\ error' = Nothing
             /\ \/ Continues("fetching") \/ Continues("waiting") \/ poll' = NoPoll
             /\ terminalMessage' \in {terminalMessage, poll.run} /\ busy' \in {busy, FALSE, TRUE}
             /\ UNCHANGED <<requested, runId, report>>
    <3>1. LoopsOK'
      <4>1. poll' \in Polls BY <2>2 DEF Continues
      <4>2. poll'.pc = "waiting" => poll'.failures < MaxTransientFailures
        <5>1. 0 < MaxTransientFailures BY LiveRunAssumption
        <5>2. Continues("fetching") \/ Continues("waiting") => poll'.failures = 0
          BY DEF Continues, LoopsOK, Polls
        <5>. QED BY <2>2, <5>1, <5>2
      <4>3. poll'.pc # "off" => poll'.run \in Runs
        BY <1>2, <2>2 DEF Continues, LoopsOK, Polls, PollAnswered
      <4>. QED BY <1>2, <4>1, <4>2, <4>3 DEF PollAnswered, LoopsOK
    <3>2. StateOK' BY <1>2, <2>2 DEF PollAnswered, StateOK, LoopsOK
    <3>. QED BY <1>2, <3>1, <3>2 DEF PollAnswered
  <2>3. ~IsCurrent => poll' = NoPoll /\ UNCHANGED state BY <1>2 DEF PollAnswered
  <2>4. IsCurrent => /\ progress' = poll.answer /\ error' = Nothing
                     /\ \/ Continues("fetching") \/ Continues("waiting") \/ poll' = NoPoll
                     /\ terminalMessage' \in {terminalMessage, poll.run} /\ busy' \in {busy, FALSE, TRUE}
                     /\ UNCHANGED <<requested, runId, report>>
    <3>. SUFFICES ASSUME IsCurrent
                  PROVE  /\ \/ Continues("fetching") \/ Continues("waiting") \/ poll' = NoPoll
                         /\ terminalMessage' \in {terminalMessage, poll.run}
                         /\ busy' \in {busy, FALSE, TRUE}
      BY <1>2 DEF PollAnswered
    <3>. QED BY <1>2 DEF PollAnswered
  <2>. QED BY <2>1, <2>2, <2>3, <2>4
<1>3. CASE FetchAnswered
  <2>1. LoopsOK' BY <1>3 DEF FetchAnswered, LoopsOK
  <2>2. CASE ~IsCurrent BY <1>3, <2>1, <2>2 DEF FetchAnswered
  <2>3. CASE IsCurrent
    <3>1. [run |-> poll.run, clean |-> ~Analyzed(backend[poll.run])] \in RunReport
      BY <1>3 DEF FetchAnswered, LoopsOK, RunReport, Analyzed
    <3>2. StateOK' BY <1>3, <2>3, <3>1 DEF FetchAnswered, StateOK, LoopsOK
    <3>. QED BY <1>3, <2>1, <3>2 DEF FetchAnswered
  <2>. QED BY <2>2, <2>3
<1>4. CASE Timer
  <2>1. LoopsOK' BY <1>4 DEF Timer, LoopsOK, Polls
  <2>. QED BY <1>4, <2>1 DEF Timer
<1>5. CASE Effect
  <2>1. settled' \in (Runs \cup {Nothing}) \X (Runs \cup {Nothing})
    BY <1>5 DEF Effect, StateOK, RunReport
  <2>2. CASE poll' = Cleaned /\ UNCHANGED generation
    <3>1. LoopsOK' BY <2>1, <2>2 DEF LoopsOK
    <3>. QED BY <1>5, <2>2, <3>1 DEF Effect, CountsOK, bounds
  <2>3. CASE /\ runId # Nothing
             /\ generation' = generation + 1
             /\ poll' = [NoPoll EXCEPT !.pc = "asking", !.run = runId,
                                       !.operation = generation', !.active = TRUE]
    <3>1. generation' \in Nat BY <2>3 DEF CountsOK
    <3>2. runId \in Runs BY <2>3 DEF StateOK
    <3>3. poll' \in Polls /\ poll'.pc = "asking" /\ poll'.run = runId
      BY <2>3, <3>1, <3>2 DEF NoPoll, Polls
    <3>4. LoopsOK' BY <2>1, <3>2, <3>3 DEF LoopsOK
    <3>. QED BY <1>5, <3>1, <3>4 DEF Effect, CountsOK, bounds
  <2>. QED BY <1>5, <2>2, <2>3 DEF Effect
<1>6. CASE PollFails
  <2>1. CASE ~IsCurrent
    <3>1. LoopsOK' BY <1>6, <2>1 DEF PollFails, LoopsOK
    <3>. QED BY <1>6, <2>1, <3>1 DEF PollFails
  <2>2. CASE IsCurrent
    <3>1. [from |-> "poll", of |-> poll.run] \in Errors BY <1>6 DEF PollFails, LoopsOK, Errors
    <3>2. poll.failures + 1 \in Nat OBVIOUS
    <3>3. \A pc \in {"waiting", "stopped"}, n \in Nat :
              LET p == [poll EXCEPT !.pc = pc, !.failures = n, !.answer = Nothing] IN
              p \in Polls /\ p.failures = n /\ p.pc = pc /\ p.run = poll.run
      BY DEF LoopsOK, Polls
    <3>4. \/ /\ poll.failures + 1 < MaxTransientFailures
             /\ poll' = [poll EXCEPT !.pc = "waiting", !.failures = poll.failures + 1,
                                     !.answer = Nothing]
          \/ poll' = [poll EXCEPT !.pc = "stopped", !.failures = poll.failures + 1,
                                  !.answer = Nothing]
      BY <1>6, <2>2 DEF PollFails
    <3>5. /\ poll' \in Polls /\ poll'.run = poll.run
          /\ poll'.pc = "waiting" => poll'.failures < MaxTransientFailures
      <4>1. CASE /\ poll.failures + 1 < MaxTransientFailures
                 /\ poll' = [poll EXCEPT !.pc = "waiting", !.failures = poll.failures + 1,
                                         !.answer = Nothing]
        <5>1. /\ poll' \in Polls /\ poll'.run = poll.run
              /\ poll'.failures = poll.failures + 1
          BY <4>1, <3>2, <3>3
        <5>. QED BY <4>1, <5>1
      <4>2. CASE poll' = [poll EXCEPT !.pc = "stopped", !.failures = poll.failures + 1,
                                      !.answer = Nothing]
        <5>1. /\ poll' \in Polls /\ poll'.run = poll.run /\ poll'.pc = "stopped"
          BY <4>2, <3>2, <3>3
        <5>. QED BY <5>1
      <4>. QED BY <3>4, <4>1, <4>2
    <3>6. LoopsOK' BY <1>6, <3>5 DEF PollFails, LoopsOK
    <3>7. StateOK' BY <1>6, <2>2, <3>1 DEF PollFails, StateOK
    <3>. QED BY <1>6, <3>6, <3>7 DEF PollFails
  <2>. QED BY <2>1, <2>2
<1>. QED BY <1>1, <1>2, <1>3, <1>4, <1>5, <1>6 DEF PollStep

\* Every call that fails, and every step of a command, keeps the ranges.
LEMMA OtherStepType ==
    ASSUME TypeOK, UserStep \/ (\E c \in sent : CommandStep(c) \/ CommandFails(c))
                   \/ \E r \in Runs : UploadFails(r) \/ CreateFails(r) \/ StartFails(r) \/ ReconcileFails(r)
    PROVE  TypeOK'
<1>. USE Groups, GroupsNext, Unchanged
<1>0. {"failed", "reconciling", "unconfirmed"} \subseteq {"idle"} \cup Calls \cup Returns
  BY DEF Calls, Returns
<1>1. ASSUME NEW r \in Runs, UploadFails(r) PROVE TypeOK'
  <2>1. start' \in [Runs -> Starts] /\ StateOK' BY <1>1, <1>0, ReturnErrorType DEF UploadFails
  <2>. QED BY <1>1, <2>1 DEF UploadFails
<1>2. ASSUME NEW r \in Runs, CreateFails(r) PROVE TypeOK'
  <2>1. start' \in [Runs -> Starts] /\ StateOK' BY <1>2, <1>0, ReturnErrorType DEF CreateFails
  <2>. QED BY <1>2, <2>1 DEF CreateFails
<1>3. ASSUME NEW r \in Runs, StartFails(r) PROVE TypeOK'
  <2>1. start' \in [Runs -> Starts] BY <1>3, <1>0, GoesType DEF StartFails
  <2>2. BackendOK' BY <1>3 DEF StartFails, BackendOK
  <2>. QED BY <1>3, <2>1, <2>2 DEF StartFails
<1>4. ASSUME NEW r \in Runs, ReconcileFails(r) PROVE TypeOK'
  <2>1. start' \in [Runs -> Starts] /\ StateOK' BY <1>4, <1>0, ReturnErrorType DEF ReconcileFails
  <2>2. backend' \in {backend, Cancelled(r)} BY <1>4 DEF ReconcileFails
  <2>3. backend' \in [Runs -> Rows] BY <2>2, CommitType DEF BackendOK
  <2>. QED BY <1>4, <2>1, <2>3 DEF ReconcileFails, BackendOK
<1>5. ASSUME NEW c \in Commands, CommandError(c) PROVE StateOK'
  <2>1. [from |-> "command", of |-> c.run] \in Errors
    BY DEF Commands, Errors
  <2>. QED BY <1>5, <2>1 DEF CommandError, StateOK
<1>a. ASSUME NEW c \in sent, NEW pc \in {"sent", "admitted", "accepted", "refused"}, Now(c, pc)
      PROVE  CommandOK'
  <2>1. [c EXCEPT !.pc = pc] \in Commands BY DEF CommandOK, Commands
  <2>. QED BY <1>a, <2>1 DEF Now, CommandOK
<1>6. ASSUME NEW c \in sent, CommandRead(c) PROVE TypeOK'
  <2>1. \E pc \in {"sent", "admitted", "accepted", "refused"} : Now(c, pc)
    BY <1>6 DEF CommandRead
  <2>2. CommandOK' BY <1>a, <2>1
  <2>. QED BY <1>6, <2>2 DEF CommandRead
<1>b. ASSUME NEW c \in sent, CommandCommit(c) PROVE TypeOK'
  <2>1. CommandOK' BY <1>a, <1>b DEF CommandCommit
  <2>2. c.run \in Runs BY DEF CommandOK, Commands
  <2>3. backend' \in {Cancelled(c.run), Configured(c.run)} BY <1>b DEF CommandCommit
  <2>4. backend' \in [Runs -> Rows] BY <2>2, <2>3, CommitType DEF BackendOK
  <2>. QED BY <1>b, <2>1, <2>4 DEF CommandCommit, BackendOK
<1>7. ASSUME NEW c \in sent, CommandAnswered(c) PROVE TypeOK'
  <2>1. StateOK' BY <1>7, <1>5 DEF CommandAnswered, CommandOK
  <2>2. CommandOK' BY <1>7 DEF CommandAnswered, CommandOK
  <2>. QED BY <1>7, <2>1, <2>2 DEF CommandAnswered
<1>8. ASSUME NEW c \in sent, CommandFails(c) PROVE TypeOK'
  <2>1. StateOK' BY <1>8, <1>5 DEF CommandFails, CommandOK
  <2>2. CommandOK'
    <3>1. [c EXCEPT !.heard = FALSE] \in Commands BY DEF CommandOK, Commands
    <3>. QED BY <1>8, <3>1 DEF CommandFails, CommandOK
  <2>. QED BY <1>8, <2>1, <2>2 DEF CommandFails
<1>9. ASSUME NEW call \in {"configure", "cancel"}, Send(call)
      PROVE  CommandOK' /\ (UNCHANGED generation => CountsOK')
  <2>1. commands' \in Nat /\ runId \in Runs BY <1>9 DEF Send, CountsOK, StateOK
  <2>2. [n |-> commands', call |-> call, run |-> runId, pc |-> "sent", heard |-> TRUE] \in Commands
    BY <2>1 DEF Commands
  <2>. QED BY <1>9, <2>1, <2>2 DEF Send, CommandOK, CountsOK
<1>10. CASE Configure
  <2>1. StateOK' BY <1>10 DEF Configure, StateOK
  <2>. QED BY <1>10, <1>9, <2>1 DEF Configure
<1>11. CASE Cancel BY <1>11, <1>9 DEF Cancel
<1>12. CASE Reset
  <2>1. StateOK' BY <1>12 DEF Reset, ResetState, StateOK
  <2>2. CountsOK' BY <1>12 DEF Reset, CountsOK
  <2>. QED BY <1>12, <2>1, <2>2 DEF Reset
<1>13. ASSUME NEW r \in Runs, NEW mode \in Modes, NEW pc \in {"creating", "uploading"},
              PrepareStart(r, mode, pc)
       PROVE  TypeOK'
  <2>1. generation' \in Nat /\ CountsOK' BY <1>13 DEF PrepareStart, CountsOK, bounds
  <2>2. [pc |-> pc, mode |-> mode, operation |-> generation', seen |-> "none"] \in Starts
    BY <2>1 DEF Starts, Calls, JobStatus
  <2>3. start' \in [Runs -> Starts] BY <1>13, <2>2 DEF PrepareStart
  <2>4. StateOK' BY <1>13 DEF PrepareStart, StateOK
  <2>. QED BY <1>13, <2>1, <2>3, <2>4 DEF PrepareStart
<1>14. CASE \E r \in Runs, mode \in Modes : Start(r, mode)
  BY <1>14, <1>13 DEF Start
<1>. QED BY <1>1, <1>2, <1>3, <1>4, <1>6, <1>b, <1>7, <1>8, <1>10, <1>11, <1>12, <1>14
         DEF CommandStep, UserStep

\* TypeOK is inductive.
LEMMA TypeStep == TypeOK /\ [Next]_vars => TypeOK'
<1>. SUFFICES ASSUME TypeOK, [Next]_vars PROVE TypeOK'
  OBVIOUS
<1>1. CASE UNCHANGED vars
  BY <1>1, Groups, GroupsNext, Unchanged DEF vars, BackendOK, CountsOK, bounds
<1>2. CASE Effect \/ PollStep \/ PollFails BY <1>2, PollStepType
<1>3. CASE UserStep \/ \E c \in sent : CommandStep(c) \/ CommandFails(c)
  BY <1>3, OtherStepType
<1>4. CASE \E r \in Runs : UploadFails(r) \/ CreateFails(r) \/ StartFails(r) \/ ReconcileFails(r)
  BY <1>4, OtherStepType
<1>5. CASE \E r \in Runs : BackendStep(r) \/ StartStep(r) BY <1>5, StartStepType
<1>. QED BY <1>1, <1>2, <1>3, <1>4, <1>5 DEF Next, SystemStep, CallFails

\* The first state is in range.
LEMMA TypeInit == Init => TypeOK
<1>. SUFFICES ASSUME Init PROVE TypeOK
  OBVIOUS
<1>1. NoRow \in Rows BY DEF NoRow, Rows, JobStatus, RunStage
<1>2. NotStarted \in Starts BY DEF NotStarted, Starts, JobStatus
<1>3. NoPoll \in Polls /\ NoPoll.pc = "off" BY DEF NoPoll, Polls
<1>. QED BY <1>1, <1>2, <1>3 DEF Init, TypeOK

\* The hook's state stays in range whatever calls fail or answer late; among
\* it, a loop that waits for its next round has not had MAX_TRANSIENT_FAILURES
\* calls fail in a row, and every loop follows a run.
THEOREM TypeCorrect == Spec => []TypeOK
BY TypeInit, TypeStep, PTL DEF Spec

-----------------------------------------------------------------------------
(* The rows.                                                               *)

\* A row never outruns its runners: nothing works before the start call, one
\* runner at a time unless the strategies were chosen twice, and a status that is
\* over is the last verdict's.
RowOK(row) ==
    /\ row.status \in {"none", "queued"} => row.phase = "none"
    /\ row.phase = "none" => row.tasks = 0 /\ row.verdict = "none"
    /\ row.phase = "awaiting" => row.tasks = 0
    /\ row.phase # "twice" => row.tasks <= 1 /\ (row.verdict # "none" => row.tasks = 0)
    /\ row.verdict # "none" => row.status # "running"
    /\ row.status \in {"completed", "failed"} => row.verdict = row.status
    /\ row.stage = "awaiting" => Analyzed(row)

\* A run whose start call is about to commit may have been cancelled, no more.
RowInv == \A r \in Runs :
    /\ RowOK(backend[r])
    /\ r \in opened => backend[r].phase = "none" /\ backend[r].status \in {"queued", "cancelled"}

\* What was found, and what came of it, lasts.
RowsLast == \A r \in Runs : /\ Finished(backend[r]) => Finished(backend'[r])
                            /\ Analyzed(backend[r]) => Analyzed(backend'[r])

\* The rows of the other runs.
Others(r) == \A q \in Runs \ {r} : backend'[q] = backend[q]

\* What a cancel call makes of a row.
LEMMA CancelledRow ==
    ASSUME TypeOK, NEW r \in Runs, backend' = Cancelled(r)
    PROVE  /\ Others(r)
           /\ backend'[r].status = "cancelled" /\ backend'[r].stage = "cancelled"
           /\ backend'[r].phase = backend[r].phase /\ backend'[r].tasks = backend[r].tasks
           /\ backend'[r].verdict = backend[r].verdict
BY DEF Cancelled, TypeOK, Rows, Others

\* What the strategies make of a row.
LEMMA ConfiguredRow ==
    ASSUME TypeOK, NEW r \in Runs, backend' = Configured(r)
    PROVE  /\ Others(r)
           /\ backend'[r].status = backend[r].status /\ backend'[r].stage = "repairing"
           /\ backend'[r].verdict = backend[r].verdict
           /\ IF backend[r].status = "running"
              THEN /\ backend'[r].tasks = backend[r].tasks + 1
                   /\ backend'[r].phase = IF backend[r].phase = "awaiting" THEN "repairing"
                                                                           ELSE "twice"
              ELSE /\ backend'[r].tasks = backend[r].tasks
                   /\ backend'[r].phase = backend[r].phase
<1>1. CASE backend[r].status = "running"
  <2>. DEFINE p == IF backend[r].phase = "awaiting" THEN "repairing" ELSE "twice"
  <2>1. backend' = [backend EXCEPT ![r] = [backend[r] EXCEPT !.stage = "repairing",
                                             !.tasks = @ + 1, !.phase = p]]
    BY <1>1 DEF Configured
  <2>2. backend[r] \in Rows /\ backend \in [Runs -> Rows] BY DEF TypeOK
  <2>. HIDE DEF p
  <2>3. backend'[r] = [backend[r] EXCEPT !.stage = "repairing", !.tasks = @ + 1, !.phase = p]
    BY <2>1, <2>2
  <2>4. Others(r) BY <2>1, <2>2 DEF Others
  <2>5. /\ backend'[r].status = backend[r].status /\ backend'[r].stage = "repairing"
        /\ backend'[r].verdict = backend[r].verdict
        /\ backend'[r].tasks = backend[r].tasks + 1 /\ backend'[r].phase = p
    BY <2>2, <2>3 DEF Rows
  <2>. QED BY <1>1, <2>4, <2>5 DEF p
<1>2. CASE backend[r].status # "running"
  <2>1. backend' = [backend EXCEPT ![r].stage = "repairing"] BY <1>2 DEF Configured
  <2>. QED BY <1>2, <2>1 DEF TypeOK, Rows, Others
<1>. QED BY <1>1, <1>2

\* What the runner of a run, and its start call, make of its row.
LEMMA BackendRow ==
    ASSUME TypeOK, NEW r \in Runs,
           BackendStep(r) \/ CreateServed(r) \/ StartCommit(r)
    PROVE  /\ Others(r)
           /\ SetStage(r) =>
                /\ backend'[r].status = backend[r].status /\ backend'[r].stage # "awaiting"
                /\ backend'[r].phase = backend[r].phase /\ backend'[r].tasks = backend[r].tasks
                /\ backend'[r].verdict = backend[r].verdict
           /\ AwaitStrategy(r) =>
                /\ backend'[r].status = backend[r].status
                /\ backend'[r].phase = "awaiting" /\ backend'[r].tasks = 0
                /\ backend'[r].verdict = backend[r].verdict
           /\ Decide(r) =>
                /\ backend'[r].status \in {"completed", "failed"}
                /\ backend'[r].verdict = backend'[r].status
                /\ backend'[r].stage = backend'[r].status
                /\ backend'[r].phase = backend[r].phase
                /\ backend'[r].tasks = backend[r].tasks - 1
           /\ CreateServed(r) =>
                /\ backend'[r].status = "queued" /\ backend'[r].stage = backend[r].stage
                /\ backend'[r].phase = backend[r].phase /\ backend'[r].tasks = backend[r].tasks
                /\ backend'[r].verdict = backend[r].verdict
           /\ StartCommit(r) =>
                /\ backend'[r].status = "running" /\ backend'[r].stage = "baseline"
                /\ backend'[r].phase = "baseline" /\ backend'[r].tasks = 1
                /\ backend'[r].verdict = backend[r].verdict
<1>a. backend \in [Runs -> Rows] BY DEF TypeOK
<1>1. ASSUME SetStage(r)
      PROVE  /\ Others(r)
             /\ backend'[r].status = backend[r].status /\ backend'[r].stage # "awaiting"
             /\ backend'[r].phase = backend[r].phase /\ backend'[r].tasks = backend[r].tasks
             /\ backend'[r].verdict = backend[r].verdict
  BY <1>a, <1>1 DEF SetStage, Rows, Others
<1>2. ASSUME AwaitStrategy(r)
      PROVE  /\ Others(r)
             /\ backend'[r].status = backend[r].status
             /\ backend'[r].phase = "awaiting" /\ backend'[r].tasks = 0
             /\ backend'[r].verdict = backend[r].verdict
  BY <1>a, <1>2 DEF AwaitStrategy, Rows, Others
<1>3. ASSUME Decide(r)
      PROVE  /\ Others(r)
             /\ backend'[r].status \in {"completed", "failed"}
             /\ backend'[r].verdict = backend'[r].status
             /\ backend'[r].stage = backend'[r].status
             /\ backend'[r].phase = backend[r].phase
             /\ backend'[r].tasks = backend[r].tasks - 1
  <2>1. PICK v \in {"completed", "failed"} :
             backend' = [backend EXCEPT ![r].status = v, ![r].stage = v, ![r].verdict = v,
                                        ![r].tasks = @ - 1]
    BY <1>3 DEF Decide
  <2>. QED BY <1>a, <2>1 DEF Rows, Others
<1>4. ASSUME CreateServed(r)
      PROVE  /\ Others(r)
             /\ backend'[r].status = "queued" /\ backend'[r].stage = backend[r].stage
             /\ backend'[r].phase = backend[r].phase /\ backend'[r].tasks = backend[r].tasks
             /\ backend'[r].verdict = backend[r].verdict
  BY <1>a, <1>4 DEF CreateServed, Rows, Others
<1>5. ASSUME StartCommit(r)
      PROVE  /\ Others(r)
             /\ backend'[r].status = "running" /\ backend'[r].stage = "baseline"
             /\ backend'[r].phase = "baseline" /\ backend'[r].tasks = 1
             /\ backend'[r].verdict = backend[r].verdict
  BY <1>a, <1>5 DEF StartCommit, Rows, Others
<1>. QED BY <1>1, <1>2, <1>3, <1>4, <1>5 DEF BackendStep

\* One row changes, and the new one is in order.
LEMMA OneRow ==
    ASSUME RowInv, NEW r \in Runs, Others(r), RowOK(backend'[r]),
           \A q \in Runs \ {r} : q \in opened' => q \in opened,
           r \in opened' => backend'[r].phase = "none"
                            /\ backend'[r].status \in {"queued", "cancelled"},
           Finished(backend[r]) => Finished(backend'[r]),
           Analyzed(backend[r]) => Analyzed(backend'[r])
    PROVE  RowInv' /\ RowsLast
BY DEF RowInv, RowsLast, Others

\* No row changes.
LEMMA SameRows ==
    ASSUME RowInv, UNCHANGED backend, opened' \subseteq opened
    PROVE  RowInv' /\ RowsLast
BY DEF RowInv, RowsLast

\* The runners and the start call keep the rows in order.
LEMMA BackendRows ==
    ASSUME TypeOK, RowInv, NEW r \in Runs,
           BackendStep(r) \/ CreateServed(r) \/ StartRead(r) \/ StartCommit(r)
    PROVE  RowInv' /\ RowsLast
<1>a. RowOK(backend[r]) /\ backend[r] \in Rows
      /\ (r \in opened => backend[r].phase = "none"
                          /\ backend[r].status \in {"queued", "cancelled"})
  BY DEF RowInv, TypeOK
<1>b. backend[r].tasks \in Nat BY <1>a, Records
<1>1. CASE SetStage(r)
  <2>1. UNCHANGED opened /\ backend[r].tasks > 0 BY <1>1 DEF SetStage
  <2>2. RowOK(backend'[r]) BY <1>1, <1>a, BackendRow DEF BackendStep, RowOK, Analyzed
  <2>3. r \notin opened BY <2>1, <1>a, <1>b DEF RowOK
  <2>. QED BY <1>1, <2>1, <2>2, <2>3, BackendRow, OneRow DEF BackendStep, Finished, Analyzed
<1>2. CASE AwaitStrategy(r)
  <2>1. UNCHANGED opened /\ backend[r].tasks > 0 /\ backend[r].phase = "baseline"
    BY <1>2 DEF AwaitStrategy
  <2>2. backend[r].verdict = "none" BY <1>a, <1>b, <2>1 DEF RowOK
  <2>3. RowOK(backend'[r]) BY <1>2, <1>a, <2>1, <2>2, BackendRow DEF BackendStep, RowOK, Analyzed
  <2>. QED BY <1>2, <1>a, <2>1, <2>2, <2>3, BackendRow, OneRow
           DEF BackendStep, Finished, Analyzed
<1>3. CASE Decide(r)
  <2>1. UNCHANGED opened /\ backend[r].tasks > 0 BY <1>3 DEF Decide
  <2>2. backend[r].phase # "none" /\ backend[r].phase # "awaiting"
        /\ (backend[r].phase # "twice" => backend[r].verdict = "none" /\ backend[r].tasks = 1)
    BY <1>a, <1>b, <2>1 DEF RowOK
  <2>3. RowOK(backend'[r])
    <3>1. backend'[r].phase # "twice" => backend'[r].tasks = 0
      BY <1>3, <2>2, BackendRow DEF BackendStep
    <3>. QED BY <1>3, <2>2, <3>1, BackendRow DEF BackendStep, RowOK
  <2>4. (Finished(backend[r]) => Finished(backend'[r]))
        /\ (Analyzed(backend[r]) => Analyzed(backend'[r]))
    BY <1>3, <2>2, BackendRow DEF BackendStep, Finished, Analyzed
  <2>. QED BY <1>3, <1>a, <2>1, <2>2, <2>3, <2>4, BackendRow, OneRow DEF BackendStep
<1>4. CASE CreateServed(r)
  <2>1. UNCHANGED opened /\ backend[r].status = "none" BY <1>4 DEF CreateServed
  <2>2. backend[r].phase = "none" /\ r \notin opened BY <1>a, <2>1 DEF RowOK
  <2>3. RowOK(backend'[r]) BY <1>4, <1>a, <2>2, BackendRow DEF RowOK, Analyzed
  <2>. QED BY <1>4, <2>1, <2>2, <2>3, BackendRow, OneRow DEF Finished, Analyzed
<1>5. CASE StartRead(r)
  <2>1. UNCHANGED backend /\ opened' = opened \cup {r} /\ backend[r].status = "queued"
    BY <1>5 DEF StartRead
  <2>2. backend[r].phase = "none" BY <1>a, <2>1 DEF RowOK
  <2>. QED BY <1>a, <2>1, <2>2, OneRow DEF Others
<1>6. CASE StartCommit(r)
  <2>1. opened' = opened \ {r} /\ r \in opened BY <1>6 DEF StartCommit
  <2>2. backend[r].phase = "none" /\ backend[r].verdict = "none" BY <1>a, <2>1 DEF RowOK
  <2>3. RowOK(backend'[r]) BY <1>6, <2>2, BackendRow DEF RowOK
  <2>4. ~Finished(backend[r]) /\ ~Analyzed(backend[r]) BY <2>2 DEF Finished, Analyzed
  <2>. QED BY <1>6, <2>1, <2>3, <2>4, BackendRow, OneRow
<1>. QED BY <1>1, <1>2, <1>3, <1>4, <1>5, <1>6 DEF BackendStep

\* So do the user's calls.
LEMMA CommandRows ==
    ASSUME TypeOK, RowInv, NEW r \in Runs, UNCHANGED opened,
           backend' = Cancelled(r) \/ backend' = Configured(r)
    PROVE  RowInv' /\ RowsLast
<1>a. RowOK(backend[r]) /\ backend[r].tasks \in Nat
      /\ (r \in opened => backend[r].phase = "none"
                          /\ backend[r].status \in {"queued", "cancelled"})
  BY Records DEF RowInv, TypeOK
<1>1. CASE backend' = Cancelled(r)
  <2>1. RowOK(backend'[r]) BY <1>1, <1>a, CancelledRow DEF RowOK
  <2>. QED BY <1>1, <1>a, <2>1, CancelledRow, OneRow DEF Finished, Analyzed
<1>2. CASE backend' = Configured(r)
  <2>1. CASE backend[r].status = "running"
    <3>1. /\ Others(r) /\ backend'[r].status = "running" /\ backend'[r].stage = "repairing"
          /\ backend'[r].verdict = backend[r].verdict
          /\ backend'[r].tasks = backend[r].tasks + 1
          /\ \/ backend[r].phase = "awaiting" /\ backend'[r].phase = "repairing"
             \/ backend'[r].phase = "twice"
      BY <1>2, <2>1, ConfiguredRow
    <3>2. RowOK(backend'[r]) BY <1>a, <2>1, <3>1 DEF RowOK
    <3>3. /\ Finished(backend[r]) => Finished(backend'[r])
          /\ Analyzed(backend[r]) => Analyzed(backend'[r])
      BY <1>a, <2>1, <3>1 DEF RowOK, Finished, Analyzed
    <3>. QED BY <1>a, <2>1, <3>1, <3>2, <3>3, OneRow
  <2>2. CASE backend[r].status # "running"
    <3>1. /\ Others(r) /\ backend'[r].status = backend[r].status
          /\ backend'[r].stage = "repairing"
          /\ backend'[r].verdict = backend[r].verdict /\ backend'[r].tasks = backend[r].tasks
          /\ backend'[r].phase = backend[r].phase
      BY <1>2, <2>2, ConfiguredRow
    <3>2. RowOK(backend'[r]) BY <1>a, <3>1 DEF RowOK
    <3>. QED BY <1>a, <3>1, <3>2, OneRow DEF Finished, Analyzed
  <2>. QED BY <2>1, <2>2
<1>. QED BY <1>1, <1>2

\* Every step does.
LEMMA RowsStep ==
    ASSUME TypeOK, RowInv, Next
    PROVE  RowInv' /\ RowsLast
<1>1. CASE UNCHANGED <<backend, opened>> BY <1>1, SameRows
<1>2. ASSUME NEW r \in Runs,
             BackendStep(r) \/ CreateServed(r) \/ StartRead(r) \/ StartCommit(r)
      PROVE  RowInv' /\ RowsLast
  BY <1>2, BackendRows
<1>3. ASSUME NEW r \in Runs, WithdrawCommit(r) PROVE RowInv' /\ RowsLast
  BY <1>3, CommandRows DEF WithdrawCommit
<1>4. ASSUME NEW r \in Runs, ReconcileFails(r) PROVE RowInv' /\ RowsLast
  <2>1. UNCHANGED opened /\ (UNCHANGED backend \/ backend' = Cancelled(r))
    BY <1>4 DEF ReconcileFails
  <2>. QED BY <1>1, <2>1, CommandRows
<1>5. ASSUME NEW c \in sent, CommandCommit(c) PROVE RowInv' /\ RowsLast
  <2>1. c.run \in Runs BY DEF TypeOK, Commands
  <2>2. UNCHANGED opened /\ (backend' = Cancelled(c.run) \/ backend' = Configured(c.run))
    BY <1>5 DEF CommandCommit
  <2>. QED BY <2>1, <2>2, CommandRows
<1>6. ASSUME NEW r \in Runs, BackendStep(r) \/ StartStep(r) PROVE RowInv' /\ RowsLast
  BY <1>1, <1>2, <1>3, <1>6
     DEF StartStep, UploadAnswered, CreateAnswered, StartAnswered, ReconcileServed,
         ReconcileAnswered, WithdrawRead
<1>7. CASE PollStep \/ Effect \/ CallFails
  BY <1>1, <1>4, <1>7
     DEF PollStep, PollServed, PollAnswered, FetchAnswered, Timer, Effect, CallFails, PollFails,
         CommandFails, UploadFails, CreateFails, StartFails
<1>8. ASSUME NEW c \in sent, CommandStep(c) PROVE RowInv' /\ RowsLast
  BY <1>1, <1>5, <1>8 DEF CommandStep, CommandRead, CommandAnswered
<1>9. CASE UserStep
  BY <1>1, <1>9 DEF UserStep, Configure, Cancel, Reset, Start, PrepareStart
<1>. QED BY <1>6, <1>7, <1>8, <1>9 DEF Next, SystemStep

-----------------------------------------------------------------------------
(* What the browser's calls leave at the backend.                          *)

\* A run that is over stays so: a cancelled one may still be decided.
Halted(r) == backend[r].status \in {"completed", "failed", "cancelled"}

\* Where a start stands, and what its run can have become by then.  While the
\* browser waits for a start call that has read the run, nothing but its own
\* withdrawal touches the run, and that one does not miss it.
Placed(r) ==
    /\ start[r].pc \in {"idle", "uploading"} => backend[r].status = "none"
    /\ start[r].pc = "creating" => backend[r].status \in {"none", "queued"}
    /\ start[r].pc \in {"starting", "reconciling", "reconciled", "withdrawing", "cancelling"} =>
          backend[r].status # "none" /\ (r \in opened => backend[r].status = "queued")
    /\ start[r].pc = "reconciled" =>
          start[r].seen # "none" /\ (start[r].seen \in {"queued", "running"} \/ Halted(r))
    /\ start[r].pc = "withdrawn" => Halted(r) /\ r \notin opened
    /\ start[r].pc = "failed" =>
          \/ Halted(r) /\ r \notin opened
          \/ backend[r].status \in {"none", "queued"} /\ r \notin late /\ r \notin opened
    /\ r \in late => start[r].pc \notin {"idle", "uploading", "creating", "starting"}
    /\ r \in opened => start[r].pc \notin {"idle", "uploading", "creating"}

\* Only a run that was shown is commanded.
Asked ==
    /\ runId # Nothing => start[runId].pc = "shown"
    /\ \A c \in sent : start[c.run].pc = "shown"

StartInv == TypeOK /\ RowInv /\ Asked /\ \A r \in Runs : Placed(r)

\* What a step leaves alone about a run keeps its place.
LEMMA PlacedStays ==
    ASSUME NEW r \in Runs, Placed(r), start'[r] = start[r],
           backend'[r].status = backend[r].status,
           r \in late' => r \in late, r \in opened' => r \in opened
    PROVE  Placed(r)'
BY DEF Placed, Halted

\* The start of a run moves, the others stay.
LEMMA Moves ==
    ASSUME TypeOK, NEW r \in Runs
    PROVE  /\ \A pc \in {"idle"} \cup Calls \cup Returns : Goes(r, pc) =>
                /\ start'[r].pc = pc
                /\ \A q \in Runs \ {r} : start'[q] = start[q]
           /\ \A pc : ReturnError(r, pc) => Goes(r, pc)
BY DEF Goes, TypeOK, Starts, ReturnError

\* So it does when the run is taken back.
LEMMA WithdrawnMoves ==
    ASSUME TypeOK, NEW r \in Runs, Withdrawn(r)
    PROVE  /\ start'[r].pc = IF r \in opened THEN "overtaken" ELSE "withdrawn"
           /\ \A q \in Runs \ {r} : start'[q] = start[q]
           /\ UNCHANGED runId
<1>1. {"overtaken", "withdrawn"} \subseteq {"idle"} \cup Calls \cup Returns BY DEF Returns
<1>2. CASE r \in opened
  <2>1. ReturnError(r, "overtaken") BY <1>2 DEF Withdrawn
  <2>. QED BY <1>1, <1>2, <2>1, Moves DEF ReturnError
<1>3. CASE r \notin opened
  <2>1. ReturnError(r, "withdrawn") BY <1>3 DEF Withdrawn
  <2>. QED BY <1>1, <1>3, <2>1, Moves DEF ReturnError
<1>. QED BY <1>2, <1>3

\* A step of the start of a run keeps every run placed.
LEMMA StartStepPlaced ==
    ASSUME StartInv, NEW r \in Runs,
           BackendStep(r) \/ StartStep(r) \/ UploadFails(r) \/ CreateFails(r)
           \/ StartFails(r) \/ ReconcileFails(r)
    PROVE  /\ \A q \in Runs : Placed(q)'
           /\ \A q \in Runs : start[q].pc = "shown" => start'[q].pc = "shown"
           /\ Asked'
<1>. DEFINE Elsewhere == \A q \in Runs \ {r} : /\ start'[q] = start[q]
                                               /\ backend'[q].status = backend[q].status
                                               /\ q \in late' => q \in late
                                               /\ q \in opened' => q \in opened
            Here == Placed(r)' /\ (start[r].pc = "shown" => start'[r].pc = "shown")
<1>a. TypeOK /\ RowInv /\ Placed(r) BY DEF StartInv
<1>b. {"creating", "starting", "superseded", "shown", "reconciling", "withdrawing", "cancelling",
       "failed", "withdrawn", "overtaken", "unconfirmed"} \subseteq {"idle"} \cup Calls \cup Returns
  BY DEF Calls, Returns
<1>c. /\ backend[r] \in Rows /\ start[r] \in Starts /\ RowOK(backend[r])
      /\ backend[r].tasks \in Nat /\ backend[r].status \in JobStatus
  BY <1>a, Records DEF TypeOK, RowInv
<1>d. Elsewhere /\ Here => /\ \A q \in Runs : Placed(q)'
                           /\ \A q \in Runs : start[q].pc = "shown" => start'[q].pc = "shown"
  BY PlacedStays DEF StartInv
<1>e. ASSUME Elsewhere, Here, UNCHANGED <<runId, sent>> PROVE Asked'
  <2>1. runId # Nothing => runId \in Runs BY <1>a DEF TypeOK
  <2>2. \A c \in sent : c.run \in Runs BY <1>a DEF TypeOK, Commands
  <2>. QED BY <1>d, <1>e, <2>1, <2>2 DEF StartInv, Asked
<1>f. (UNCHANGED start \/ \A q \in Runs \ {r} : start'[q] = start[q])
      /\ (UNCHANGED backend \/ Others(r))
      /\ (late' \subseteq late \cup {r}) /\ (opened' \subseteq opened \cup {r})
      => Elsewhere
  BY DEF Others
<1>. HIDE DEF Elsewhere, Here
<1>1. CASE SetStage(r) \/ AwaitStrategy(r)
  <2>1. backend'[r].status = backend[r].status /\ Others(r)
    BY <1>1, <1>a, BackendRow DEF BackendStep
  <2>2. UNCHANGED <<start, late, opened, runId, sent>>
    BY <1>1 DEF SetStage, AwaitStrategy, state
  <2>3. Elsewhere BY <1>f, <2>1, <2>2
  <2>4. Here BY <1>a, <2>1, <2>2, PlacedStays DEF Here
  <2>. QED BY <2>2, <2>3, <2>4, <1>d, <1>e
<1>2. CASE Decide(r)
  <2>1. backend'[r].status \in {"completed", "failed"} /\ Others(r)
    BY <1>2, <1>a, BackendRow DEF BackendStep
  <2>2. UNCHANGED <<start, late, opened, runId, sent>> /\ backend[r].tasks > 0
    BY <1>2 DEF Decide, state
  <2>3. backend[r].status \notin {"none", "queued"} /\ r \notin opened
    BY <1>a, <1>c, <2>2 DEF RowOK, RowInv
  <2>4. Elsewhere BY <1>f, <2>1, <2>2
  <2>5. Here BY <1>a, <2>1, <2>2, <2>3 DEF Placed, Halted, Here
  <2>. QED BY <2>2, <2>4, <2>5, <1>d, <1>e
<1>3. CASE UploadAnswered(r)
  <2>1. start'[r].pc \in {"creating", "superseded"} /\ \A q \in Runs \ {r} : start'[q] = start[q]
    BY <1>3, <1>a, <1>b, Moves DEF UploadAnswered
  <2>2. Elsewhere BY <1>3, <1>f, <2>1 DEF UploadAnswered
  <2>3. Here BY <1>3, <1>a, <2>1 DEF UploadAnswered, Placed, Halted, Here
  <2>. QED BY <1>3, <2>2, <2>3, <1>d, <1>e DEF UploadAnswered, state
<1>4. CASE CreateServed(r)
  <2>1. backend'[r].status = "queued" /\ Others(r) BY <1>4, <1>a, BackendRow
  <2>2. Elsewhere BY <1>4, <1>f, <2>1 DEF CreateServed
  <2>3. Here BY <1>4, <1>a, <2>1 DEF CreateServed, Placed, Halted, Here
  <2>. QED BY <1>4, <2>2, <2>3, <1>d, <1>e DEF CreateServed, state
<1>5. CASE CreateAnswered(r)
  <2>1. start'[r].pc \in {"starting", "superseded"} /\ \A q \in Runs \ {r} : start'[q] = start[q]
    BY <1>5, <1>a, <1>b, Moves DEF CreateAnswered
  <2>2. Elsewhere BY <1>5, <1>f, <2>1 DEF CreateAnswered
  <2>3. Here BY <1>5, <1>a, <2>1 DEF CreateAnswered, Placed, Halted, Here
  <2>. QED BY <1>5, <2>2, <2>3, <1>d, <1>e DEF CreateAnswered, state
<1>6. CASE StartRead(r)
  <2>1. Elsewhere BY <1>6, <1>f DEF StartRead
  <2>2. Here BY <1>6, <1>a DEF StartRead, Placed, Halted, Here
  <2>. QED BY <1>6, <2>1, <2>2, <1>d, <1>e DEF StartRead, state
<1>7. CASE StartCommit(r)
  <2>1. backend'[r].status = "running" /\ Others(r) BY <1>7, <1>a, BackendRow
  <2>2. Elsewhere BY <1>7, <1>f, <2>1 DEF StartCommit
  <2>3. Here BY <1>7, <1>a, <2>1 DEF StartCommit, Placed, Halted, Here
  <2>. QED BY <1>7, <2>2, <2>3, <1>d, <1>e DEF StartCommit, state
<1>8. CASE StartAnswered(r)
  <2>1. /\ start'[r].pc \in {"shown", "superseded"}
        /\ runId' = runId \/ (runId' = r /\ start'[r].pc = "shown")
        /\ \A q \in Runs \ {r} : start'[q] = start[q]
    BY <1>8, <1>a, <1>b, Moves DEF StartAnswered
  <2>2. Elsewhere BY <1>8, <1>f, <2>1 DEF StartAnswered
  <2>3. Here BY <1>8, <1>a, <2>1 DEF StartAnswered, Placed, Halted, Here
  <2>4. UNCHANGED sent BY <1>8 DEF StartAnswered
  <2>5. \A c \in sent : c.run \in Runs BY <1>a DEF TypeOK, Commands
  <2>6. Asked' BY <1>a, <2>1, <2>2, <2>3, <2>4, <2>5, <1>d DEF StartInv, Asked, TypeOK
  <2>. QED BY <2>2, <2>3, <2>6, <1>d
<1>9. CASE ReconcileServed(r)
  <2>1. /\ start'[r].pc = "reconciled" /\ start'[r].seen = backend[r].status
        /\ \A q \in Runs \ {r} : start'[q] = start[q]
    BY <1>9, <1>a DEF ReconcileServed, TypeOK, Starts
  <2>2. Elsewhere BY <1>9, <1>f, <2>1 DEF ReconcileServed
  <2>3. Here BY <1>9, <1>a, <1>c, <2>1 DEF ReconcileServed, Placed, Halted, Here, JobStatus
  <2>. QED BY <1>9, <2>2, <2>3, <1>d, <1>e DEF ReconcileServed, state
<1>10. CASE ReconcileAnswered(r)
  <2>1. /\ \/ start'[r].pc = "shown" /\ runId' = r
           \/ start'[r].pc \in {"withdrawing", "superseded"} /\ UNCHANGED runId
           \/ start'[r].pc = "failed" /\ start[r].seen \notin {"queued", "running"} /\ UNCHANGED runId
        /\ \A q \in Runs \ {r} : start'[q] = start[q]
    BY <1>10, <1>a, <1>b, Moves DEF ReconcileAnswered, ReturnError, state
  <2>2. Elsewhere BY <1>10, <1>f, <2>1 DEF ReconcileAnswered
  <2>3. Here BY <1>10, <1>a, <2>1 DEF ReconcileAnswered, Placed, Halted, Here
  <2>4. UNCHANGED sent BY <1>10 DEF ReconcileAnswered
  <2>5. \A c \in sent : c.run \in Runs BY <1>a DEF TypeOK, Commands
  <2>6. Asked' BY <1>a, <2>1, <2>2, <2>3, <2>4, <2>5, <1>d DEF StartInv, Asked, TypeOK
  <2>. QED BY <2>2, <2>3, <2>6, <1>d
<1>11. CASE WithdrawRead(r) /\ Goes(r, "cancelling") /\ UNCHANGED state
  <2>1. start'[r].pc = "cancelling" /\ \A q \in Runs \ {r} : start'[q] = start[q]
    BY <1>11, <1>a, <1>b, Moves
  <2>2. Elsewhere BY <1>11, <1>f, <2>1 DEF WithdrawRead
  <2>3. Here BY <1>11, <1>a, <2>1 DEF WithdrawRead, Placed, Halted, Here
  <2>. QED BY <1>11, <2>2, <2>3, <1>d, <1>e DEF WithdrawRead, state
<1>12. CASE WithdrawRead(r) /\ Withdrawn(r) /\ backend[r].status \notin {"queued", "running"}
  <2>1. /\ start'[r].pc = IF r \in opened THEN "overtaken" ELSE "withdrawn"
        /\ \A q \in Runs \ {r} : start'[q] = start[q]
        /\ UNCHANGED runId
    BY <1>12, <1>a, WithdrawnMoves
  <2>2. Elsewhere BY <1>12, <1>f, <2>1 DEF WithdrawRead
  <2>3. Here BY <1>12, <1>a, <1>c, <2>1 DEF WithdrawRead, Placed, Halted, Here, JobStatus
  <2>. QED BY <1>12, <2>1, <2>2, <2>3, <1>d, <1>e DEF WithdrawRead
<1>13. CASE WithdrawCommit(r)
  <2>1. /\ start'[r].pc = IF r \in opened THEN "overtaken" ELSE "withdrawn"
        /\ \A q \in Runs \ {r} : start'[q] = start[q]
        /\ UNCHANGED <<runId, late, opened, sent>>
    BY <1>13, <1>a, WithdrawnMoves DEF WithdrawCommit
  <2>2. backend'[r].status = "cancelled" /\ Others(r)
    BY <1>13, <1>a, CancelledRow DEF WithdrawCommit
  <2>3. Elsewhere BY <1>f, <2>1, <2>2
  <2>4. Here BY <1>13, <1>a, <2>1, <2>2 DEF WithdrawCommit, Placed, Halted, Here
  <2>. QED BY <2>1, <2>3, <2>4, <1>d, <1>e
<1>14. CASE UploadFails(r) \/ CreateFails(r)
  <2>1. /\ start'[r].pc = "failed" /\ start[r].pc \in {"uploading", "creating"}
        /\ \A q \in Runs \ {r} : start'[q] = start[q]
        /\ UNCHANGED <<runId, backend, late, opened, sent>>
    BY <1>14, <1>a, <1>b, Moves DEF UploadFails, CreateFails, ReturnError
  <2>2. Elsewhere BY <1>f, <2>1
  <2>3. Here BY <1>a, <2>1 DEF Placed, Halted, Here
  <2>. QED BY <2>1, <2>2, <2>3, <1>d, <1>e
<1>15. CASE ReconcileFails(r)
  <2>1. /\ start'[r].pc = "unconfirmed"
        /\ start[r].pc \in {"reconciling", "reconciled", "withdrawing", "cancelling"}
        /\ \A q \in Runs \ {r} : start'[q] = start[q]
        /\ UNCHANGED <<runId, late, opened, sent>>
    BY <1>15, <1>a, <1>b, Moves DEF ReconcileFails, ReturnError
  <2>2. UNCHANGED backend \/ backend' = Cancelled(r) BY <1>15 DEF ReconcileFails
  <2>3. UNCHANGED backend \/ Others(r) BY <1>a, <2>2, CancelledRow
  <2>4. Elsewhere BY <1>f, <2>1, <2>3
  <2>5. Here BY <1>a, <2>1 DEF Placed, Halted, Here
  <2>. QED BY <2>1, <2>4, <2>5, <1>d, <1>e
<1>16. CASE StartFails(r)
  <2>1. /\ start'[r].pc = "reconciling" /\ \A q \in Runs \ {r} : start'[q] = start[q]
        /\ UNCHANGED <<backend, opened, runId, sent>> /\ start[r].pc = "starting"
        /\ backend[r].status # "none"
    BY <1>16, <1>a, <1>b, Moves DEF StartFails, Placed, state
  <2>2. late' \subseteq late \cup {r} BY <1>16 DEF StartFails
  <2>3. Elsewhere BY <1>f, <2>1, <2>2
  <2>4. Here BY <1>a, <2>1 DEF Placed, Halted, Here
  <2>. QED BY <2>1, <2>3, <2>4, <1>d, <1>e
<1>17. WithdrawRead(r) => \/ Goes(r, "cancelling") /\ UNCHANGED state
                          \/ Withdrawn(r) /\ backend[r].status \notin {"queued", "running"}
  BY DEF WithdrawRead
<1>. QED BY <1>1, <1>2, <1>3, <1>4, <1>5, <1>6, <1>7, <1>8, <1>9, <1>10, <1>11, <1>12, <1>13, <1>14,
            <1>15, <1>16, <1>17 DEF BackendStep, StartStep

\* So does every other step.
LEMMA OtherStepPlaced ==
    ASSUME StartInv, PollStep \/ Effect \/ PollFails \/ UserStep
                     \/ \E c \in sent : CommandStep(c) \/ CommandFails(c)
    PROVE  Asked' /\ \A q \in Runs : Placed(q)'
<1>a. TypeOK BY DEF StartInv
<1>b. \A c \in sent : c.run \in Runs /\ start[c.run].pc = "shown"
  BY <1>a DEF StartInv, Asked, TypeOK, Commands
<1>c. ASSUME UNCHANGED <<start, runId>>, \A c \in sent' : \E d \in sent : c.run = d.run
      PROVE  Asked'
  BY <1>c DEF StartInv, Asked
<1>1. CASE PollStep \/ Effect \/ PollFails
  <2>1. UNCHANGED <<start, backend, late, opened, sent, runId>>
    BY <1>1 DEF PollStep, PollServed, PollAnswered, FetchAnswered, Timer, Effect, PollFails, state
  <2>. QED BY <2>1, PlacedStays DEF StartInv, Asked
<1>d. ASSUME NEW c \in sent, NEW pc, Now(c, pc) PROVE \A d \in sent' : \E e \in sent : d.run = e.run
  <2>1. [c EXCEPT !.pc = pc].run = c.run BY <1>a DEF TypeOK, Commands
  <2>. QED BY <1>d, <2>1 DEF Now
<1>2. ASSUME NEW c \in sent, CommandCommit(c) PROVE Asked' /\ \A q \in Runs : Placed(q)'
  <2>1. UNCHANGED <<start, late, opened, runId>> /\ Now(c, "accepted")
        /\ (backend' = Cancelled(c.run) \/ backend' = Configured(c.run))
    BY <1>2 DEF CommandCommit, state
  <2>2. Asked' BY <1>c, <1>d, <2>1
  <2>3. Others(c.run) BY <1>a, <1>b, <2>1, CancelledRow, ConfiguredRow
  <2>4. ASSUME NEW q \in Runs, q # c.run PROVE Placed(q)'
    BY <2>1, <2>3, <2>4, PlacedStays DEF StartInv, Others
  <2>5. ASSUME NEW q \in Runs, q = c.run PROVE Placed(q)'
    <3>1. Placed(q) /\ start[q].pc = "shown" BY <1>b, <2>5 DEF StartInv
    <3>. QED BY <3>1, <2>1 DEF Placed
  <2>. QED BY <2>2, <2>4, <2>5
<1>3. ASSUME NEW c \in sent, CommandRead(c) \/ CommandAnswered(c) \/ CommandFails(c)
      PROVE  Asked' /\ \A q \in Runs : Placed(q)'
  <2>1. UNCHANGED <<start, backend, late, opened, runId>>
    BY <1>3 DEF CommandRead, CommandAnswered, CommandFails, CommandError, state
  <2>2. \A d \in sent' : \E e \in sent : d.run = e.run
    <3>1. CASE CommandRead(c) BY <1>d, <3>1 DEF CommandRead
    <3>2. CASE CommandAnswered(c) BY <3>2 DEF CommandAnswered
    <3>3. CASE CommandFails(c)
      <4>1. [c EXCEPT !.heard = FALSE].run = c.run BY <1>a DEF TypeOK, Commands
      <4>. QED BY <3>3, <4>1 DEF CommandFails
    <3>. QED BY <1>3, <3>1, <3>2, <3>3
  <2>3. Asked' BY <1>c, <2>1, <2>2
  <2>. QED BY <2>1, <2>3, PlacedStays DEF StartInv
<1>4. CASE Configure \/ Cancel
  <2>1. PICK call \in {"configure", "cancel"} : Send(call)
    BY <1>4 DEF Configure, Cancel
  <2>2. UNCHANGED <<start, backend, late, opened, runId>> /\ runId # Nothing
    BY <1>4, <2>1 DEF Configure, Cancel, Send, state
  <2>3. \A c \in sent' : c \in sent \/ c.run = runId BY <2>1 DEF Send
  <2>4. Asked' BY <2>2, <2>3 DEF StartInv, Asked
  <2>. QED BY <2>2, <2>4, PlacedStays DEF StartInv
<1>5. CASE Reset
  <2>1. UNCHANGED <<start, backend, late, opened, sent>> /\ runId' = Nothing
    BY <1>5 DEF Reset, ResetState
  <2>. QED BY <2>1, PlacedStays DEF StartInv, Asked
<1>6. ASSUME NEW r \in Runs, NEW mode \in Modes, NEW pc \in {"creating", "uploading"},
             PrepareStart(r, mode, pc)
      PROVE  Asked' /\ \A q \in Runs : Placed(q)'
  <2>1. /\ UNCHANGED <<backend, late, opened, sent>> /\ runId' = Nothing
        /\ start[r].pc = "idle" /\ start'[r].pc = pc
        /\ \A q \in Runs \ {r} : start'[q] = start[q]
    BY <1>6, <1>a DEF PrepareStart, TypeOK, Starts
  <2>2. Placed(r)'
    <3>1. Placed(r) BY DEF StartInv
    <3>. QED BY <2>1, <3>1 DEF Placed, Halted
  <2>3. Asked' BY <2>1, <1>b DEF Asked
  <2>. QED BY <2>1, <2>2, <2>3, PlacedStays DEF StartInv
<1>7. CASE \E r \in Runs, mode \in Modes : Start(r, mode)
  BY <1>7, <1>6 DEF Start
<1>. QED BY <1>1, <1>2, <1>3, <1>4, <1>5, <1>7 DEF CommandStep, UserStep

\* The invariant is inductive.
LEMMA StartInvStep == StartInv /\ [Next]_vars => StartInv'
<1>. SUFFICES ASSUME StartInv, [Next]_vars PROVE StartInv'
  OBVIOUS
<1>1. TypeOK' BY TypeStep DEF StartInv
<1>2. CASE UNCHANGED vars
  <2>1. RowInv' BY <1>2, SameRows DEF vars, StartInv
  <2>. QED BY <1>1, <1>2, <2>1, PlacedStays DEF StartInv, vars, state, Asked
<1>3. Next => RowInv' BY RowsStep DEF StartInv
<1>4. CASE PollStep \/ Effect \/ PollFails \/ UserStep
           \/ \E c \in sent : CommandStep(c) \/ CommandFails(c)
  BY <1>1, <1>4, OtherStepPlaced, <1>3 DEF StartInv, Next, SystemStep, CallFails
<1>5. CASE \E r \in Runs : \/ BackendStep(r) \/ StartStep(r) \/ UploadFails(r)
                           \/ CreateFails(r) \/ StartFails(r) \/ ReconcileFails(r)
  BY <1>1, <1>5, StartStepPlaced, <1>3 DEF StartInv, Next, SystemStep, CallFails
<1>. QED BY <1>2, <1>4, <1>5 DEF Next, SystemStep, CallFails

\* It holds before anything was started.
LEMMA StartInvInit == Init => StartInv
<1>. SUFFICES ASSUME Init PROVE StartInv
  OBVIOUS
<1>1. RowInv BY DEF Init, RowInv, RowOK, NoRow
<1>2. \A r \in Runs : Placed(r) BY DEF Init, Placed, NoRow, NotStarted
<1>. QED BY <1>1, <1>2, TypeInit DEF Init, StartInv, Asked

\* A start reported as failed leaves no run working behind the user's back,
\* however many calls fail and whenever a start call given up is served, if the
\* call had not already read the run when it was taken back.
THEOREM FailedStartStaysStopped == Spec => []FailedStartIsNotRunning
<1>1. StartInv => FailedStartIsNotRunning
  BY DEF StartInv, Placed, Halted, FailedStartIsNotRunning
<1>. QED BY <1>1, StartInvInit, StartInvStep, PTL DEF Spec

-----------------------------------------------------------------------------
(* What is shown.                                                          *)

\* Every start in flight has a number of its own, and not the polling loop's.
Numbered ==
    /\ \A r \in Runs : start[r].operation <= generation
    /\ poll.operation <= generation
    /\ \A r \in Runs : start[r].pc \in Calls =>
          start[r].operation > 0 /\ start[r].operation # poll.operation
    /\ \A r, q \in Runs :
          start[r].pc \in Calls /\ start[q].pc # "idle" /\ start[r].operation = start[q].operation
              => r = q

\* The current loop follows the run on the screen, and the newest start in
\* flight has nothing on it yet.
Followed ==
    /\ IsCurrent => poll.run = runId /\ runId # Nothing
    /\ \A r \in Runs : InFlight(r) /\ Current(r) =>
          runId = Nothing /\ progress = Nothing /\ report = Nothing /\ terminalMessage = Nothing
    /\ report # Nothing => ~poll.active
    /\ error # Nothing /\ error.from = "start" => start[error.of].pc \in Returns

\* What the loop read of a run that is completed is for ever.
Answered ==
    /\ poll.pc = "answered" =>
          /\ poll.answer # Nothing
          /\ poll.answer.run = poll.run
          /\ poll.answer.status = "completed" => Finished(backend[poll.run])
    /\ poll.pc = "fetching" /\ IsCurrent =>
          /\ progress # Nothing
          /\ progress.status = "completed" => Finished(backend[poll.run])

ShowInv == /\ TypeOK /\ RowInv /\ Numbered /\ Followed /\ Answered
           /\ ShownIsCurrent /\ ReportIsFinal

\* No start begins, and none goes back.
Moved == \A r \in Runs : /\ start'[r].operation = start[r].operation
                         /\ start'[r].pc = "idle" <=> start[r].pc = "idle"
                         /\ start'[r].pc \in Calls => start[r].pc \in Calls
                         /\ start[r].pc \in Returns => start'[r].pc \in Returns

\* A call that goes on, or returns, begins no start.
LEMMA GoesOn ==
    ASSUME TypeOK, NEW r \in Runs, NEW pc \in Calls \cup Returns, start[r].pc \in Calls,
           Goes(r, pc)
    PROVE  Moved
BY DEF Goes, Moved, TypeOK, Starts, Calls, Returns

\* Steps that follow the same run, and say at most that a command or the
\* newest start failed.
LEMMA Same ==
    ASSUME ShowInv, TypeOK', Moved, RowsLast, RowInv',
           UNCHANGED <<generation, poll, runId, progress, report>>,
           terminalMessage' \in {terminalMessage, Nothing},
           \/ error' \in {error, Nothing}
           \/ error'.from = "command"
           \/ /\ error'.from = "start"
              /\ runId = Nothing
              /\ start'[error'.of].pc \in Returns
              /\ start[error'.of].operation = generation
    PROVE  ShowInv'
<1>. USE DEF ShowInv
<1>1. Numbered' BY DEF Numbered, Moved
<1>2. error' # Nothing => error'.of \in Runs BY DEF TypeOK, Errors
<1>3. error # Nothing => error.of \in Runs BY DEF TypeOK, Errors
<1>4. Followed' BY <1>2, <1>3 DEF Followed, Moved, InFlight, Current, IsCurrent
<1>5. Answered'
  <2>1. poll.pc # "off" => poll.run \in Runs BY DEF TypeOK
  <2>. QED BY <2>1 DEF Answered, RowsLast, IsCurrent
<1>6. ShownIsCurrent'
  <2>1. error' # Nothing /\ error'.from = "start" =>
           /\ runId' = Nothing
           /\ \A r \in Runs : start'[r].operation <= start'[error'.of].operation
    BY <1>2, <1>3 DEF ShownIsCurrent, Numbered, Moved
  <2>2. error' # Nothing /\ error'.from = "poll" => error'.of = runId'
    BY DEF ShownIsCurrent
  <2>. QED BY <2>1, <2>2 DEF ShownIsCurrent
<1>7. ReportIsFinal'
  <2>1. report # Nothing => report.run \in Runs BY DEF TypeOK, RunReport
  <2>. QED BY <2>1 DEF ReportIsFinal, RowsLast
<1>. QED BY <1>1, <1>4, <1>5, <1>6, <1>7

\* A start that is shown has nothing to be confused with.
LEMMA ShowsStart ==
    ASSUME ShowInv, TypeOK', RowsLast, RowInv', NEW r \in Runs, InFlight(r), Current(r),
           Moved, start'[r].pc = "shown", UNCHANGED <<generation, poll, report, terminalMessage>>,
           runId' = r, progress' = Nothing \/ progress'.run = r, error' \in {error, Nothing}
    PROVE  ShowInv'
<1>. USE DEF ShowInv
<1>1. report = Nothing /\ terminalMessage = Nothing /\ runId = Nothing
  BY DEF Followed
<1>2. start[r].pc # "idle" /\ start[r].pc \notin Returns /\ ~IsCurrent
  BY DEF InFlight, Calls, Returns, Current, Numbered, IsCurrent
<1>3. Numbered' BY DEF Numbered, Moved
<1>4. error # Nothing => error.of \in Runs /\ error.from \notin {"start", "poll"}
  <2>1. ASSUME error # Nothing, error.from = "start" PROVE FALSE
    <3>1. error.of \in Runs BY <2>1 DEF TypeOK, Errors
    <3>2. start[error.of].pc \in Returns BY <2>1 DEF Followed
    <3>3. start[error.of].operation = start[r].operation
      <4>1. generation \in Nat /\ \A q \in Runs : start[q].operation \in Nat
        BY DEF TypeOK, Starts
      <4>2. start[r].operation = generation BY DEF Current
      <4>3. start[r].operation <= start[error.of].operation BY <2>1 DEF ShownIsCurrent
      <4>4. start[error.of].operation <= generation BY <3>1 DEF Numbered
      <4>. QED BY <3>1, <4>1, <4>2, <4>3, <4>4
    <3>4. start[error.of].pc # "idle" BY <3>2 DEF Returns
    <3>. QED BY <1>2, <3>1, <3>2, <3>3, <3>4 DEF Numbered, InFlight
  <2>2. ASSUME error # Nothing, error.from = "poll" PROVE FALSE
    BY <1>1, <2>2, LiveRunAssumption DEF ShownIsCurrent, TypeOK, Errors
  <2>. QED BY <2>1, <2>2 DEF TypeOK, Errors
<1>5. \A q \in Runs : InFlight(q)' => ~Current(q)'
  <2>. SUFFICES ASSUME NEW q \in Runs, InFlight(q)', Current(q)' PROVE FALSE
    OBVIOUS
  <2>1. start'[q].pc \in Calls /\ start[q].operation = generation
    BY DEF InFlight, Current, Moved
  <2>2. start[q].pc \in Calls BY <2>1 DEF Moved
  <2>3. q = r BY <1>2, <2>1, <2>2 DEF Numbered, Current, Calls
  <2>. QED BY <2>1, <2>3 DEF Calls
<1>6. Followed' BY <1>1, <1>2, <1>4, <1>5 DEF Followed, IsCurrent
<1>7. Answered'
  <2>1. poll.pc # "off" => poll.run \in Runs BY DEF TypeOK
  <2>. QED BY <1>2, <2>1 DEF Answered, RowsLast, IsCurrent
<1>8. ShownIsCurrent' BY <1>1, <1>4 DEF ShownIsCurrent
<1>9. ReportIsFinal' BY <1>1 DEF ReportIsFinal
<1>. QED BY <1>3, <1>6, <1>7, <1>8, <1>9

\* A new number leaves every answer on its way to no one.
LEMMA Cleared ==
    ASSUME ShowInv, TypeOK', RowsLast, RowInv', UNCHANGED poll, generation' = generation + 1,
           runId' = Nothing, progress' = Nothing, report' = Nothing, error' = Nothing,
           terminalMessage' = Nothing,
           \/ UNCHANGED start
           \/ \E r \in Runs : /\ start'[r].pc \in Calls
                              /\ start'[r].operation = generation'
                              /\ \A q \in Runs \ {r} : start'[q] = start[q]
    PROVE  ShowInv'
<1>. USE DEF ShowInv
<1>1. generation \in Nat /\ poll.operation \in Nat /\ \A r \in Runs : start[r].operation \in Nat
  BY DEF TypeOK, Polls, Starts
<1>2. Numbered'
  <2>1. CASE UNCHANGED start BY <1>1, <2>1 DEF Numbered
  <2>2. ASSUME NEW r \in Runs, start'[r].operation = generation',
               \A q \in Runs \ {r} : start'[q] = start[q]
        PROVE  Numbered'
    <3>1. poll'.operation < generation' /\ generation' > 0
      BY <1>1 DEF Numbered
    <3>2. \A q \in Runs \ {r} : start'[q].operation < generation'
      BY <1>1, <2>2 DEF Numbered
    <3>3. \A q \in Runs : start'[q].operation <= generation'
      BY <1>1, <2>2, <3>2
    <3>4. \A q \in Runs : start'[q].pc \in Calls =>
             start'[q].operation > 0 /\ start'[q].operation # poll'.operation
      BY <1>1, <2>2, <3>1 DEF Numbered
    <3>5. ASSUME NEW q \in Runs, NEW t \in Runs, start'[q].pc \in Calls, start'[t].pc # "idle",
                 start'[q].operation = start'[t].operation
          PROVE  q = t
      <4>1. CASE q # r /\ t # r BY <2>2, <3>5, <4>1 DEF Numbered
      <4>2. CASE q = r /\ t # r
        <5>1. start'[t].operation < start'[q].operation BY <2>2, <3>2, <4>2
        <5>2. start'[t].operation \in Nat BY <1>1, <2>2, <4>2
        <5>. QED BY <3>5, <5>1, <5>2
      <4>3. CASE q # r /\ t = r
        <5>1. start'[q].operation < start'[t].operation BY <2>2, <3>2, <4>3
        <5>2. start'[q].operation \in Nat BY <1>1, <2>2, <4>3
        <5>. QED BY <3>5, <5>1, <5>2
      <4>. QED BY <4>1, <4>2, <4>3
    <3>. QED BY <1>1, <3>1, <3>3, <3>4, <3>5 DEF Numbered
  <2>. QED BY <2>1, <2>2
<1>3. ~IsCurrent' BY <1>1 DEF IsCurrent, Numbered
<1>4. Followed' BY <1>3 DEF Followed
<1>5. Answered'
  <2>1. poll.pc # "off" => poll.run \in Runs BY DEF TypeOK
  <2>. QED BY <1>3, <2>1 DEF Answered, RowsLast
<1>6. ShownIsCurrent' /\ ReportIsFinal' BY DEF ShownIsCurrent, ReportIsFinal
<1>. QED BY <1>2, <1>4, <1>5, <1>6

\* The start of a run keeps what is shown.
LEMMA StartShows ==
    ASSUME ShowInv, TypeOK', RowsLast, RowInv', NEW r \in Runs,
           BackendStep(r) \/ StartStep(r) \/ UploadFails(r) \/ CreateFails(r)
           \/ StartFails(r) \/ ReconcileFails(r)
    PROVE  ShowInv'
<1>a. TypeOK BY DEF ShowInv
<1>b. {"creating", "starting", "superseded", "shown", "reconciling", "withdrawing", "cancelling",
       "failed", "withdrawn", "overtaken", "unconfirmed"} \subseteq Calls \cup Returns
  BY DEF Calls, Returns
<1>c. {"uploading", "creating", "starting", "reconciling", "reconciled", "withdrawing",
       "cancelling"} \subseteq Calls
  BY DEF Calls
<1>1. CASE BackendStep(r) \/ CreateServed(r) \/ StartRead(r) \/ StartCommit(r)
  <2>1. UNCHANGED <<start, poll, generation, state>>
    BY <1>1 DEF BackendStep, SetStage, AwaitStrategy, Decide, CreateServed, StartRead, StartCommit,
                loops
  <2>2. Moved BY <2>1 DEF Moved
  <2>. QED BY <2>1, <2>2, Same DEF state
<1>2. CASE UploadAnswered(r) \/ CreateAnswered(r) \/ StartFails(r)
  <2>1. Moved BY <1>2, <1>a, <1>b, <1>c, GoesOn DEF UploadAnswered, CreateAnswered, StartFails
  <2>2. UNCHANGED <<poll, generation, state>>
    BY <1>2 DEF UploadAnswered, CreateAnswered, StartFails, loops
  <2>. QED BY <2>1, <2>2, Same DEF state
<1>3. CASE ReconcileServed(r)
  <2>1. Moved BY <1>3, <1>a, <1>c DEF ReconcileServed, Moved, TypeOK, Starts, Calls, Returns
  <2>2. UNCHANGED <<poll, generation, state>> BY <1>3 DEF ReconcileServed, loops
  <2>. QED BY <2>1, <2>2, Same DEF state
<1>4. ASSUME NEW pc \in {"failed", "unconfirmed", "superseded", "withdrawn", "overtaken"},
             start[r].pc \in Calls, ReturnError(r, pc), UNCHANGED <<poll, generation>>
      PROVE  ShowInv'
  <2>1. Goes(r, pc) BY <1>4 DEF ReturnError
  <2>2. Moved BY <2>1, <1>4, <1>a, <1>b, GoesOn
  <2>3. UNCHANGED <<runId, progress, report, terminalMessage>> BY <1>4 DEF ReturnError
  <2>4. CASE Current(r)
    <3>1. error' = [from |-> "start", of |-> r] BY <1>4, <2>4 DEF ReturnError
    <3>2. runId = Nothing BY <1>4, <2>4 DEF ShowInv, Followed, InFlight
    <3>3. start'[r].pc = pc BY <2>1, <1>a DEF Goes, TypeOK, Starts
    <3>4. pc \in Returns BY DEF Returns
    <3>. QED BY <1>4, <2>2, <2>3, <2>4, <3>1, <3>2, <3>3, <3>4, Same DEF Current
  <2>5. CASE ~Current(r)
    <3>1. UNCHANGED error BY <1>4, <2>5 DEF ReturnError
    <3>. QED BY <1>4, <2>2, <2>3, <3>1, Same
  <2>. QED BY <2>4, <2>5
<1>5. CASE UploadFails(r) \/ CreateFails(r) \/ ReconcileFails(r)
  BY <1>4, <1>5, <1>c DEF UploadFails, CreateFails, ReconcileFails, loops
<1>8. ASSUME Withdrawn(r), start[r].pc \in Calls, UNCHANGED <<poll, generation>> PROVE ShowInv'
  BY <1>4, <1>8 DEF Withdrawn
<1>9. CASE WithdrawRead(r)
  <2>1. start[r].pc \in Calls /\ UNCHANGED <<poll, generation>>
    BY <1>9, <1>c DEF WithdrawRead, loops
  <2>2. CASE Goes(r, "cancelling") /\ UNCHANGED state
    <3>1. Moved BY <2>1, <2>2, <1>a, <1>b, GoesOn
    <3>. QED BY <2>1, <2>2, <3>1, Same DEF state
  <2>. QED BY <1>8, <1>9, <2>1, <2>2 DEF WithdrawRead
<1>10. CASE WithdrawCommit(r) BY <1>8, <1>10, <1>c DEF WithdrawCommit, loops
<1>6. CASE StartAnswered(r)
  <2>1. CASE Current(r)
    <3>1. Goes(r, "shown") /\ runId' = r /\ progress'.run = r
      BY <1>6, <2>1 DEF StartAnswered
    <3>2. Moved BY <3>1, <1>6, <1>a, <1>b, <1>c, GoesOn DEF StartAnswered
    <3>3. start'[r].pc = "shown" BY <3>1, <1>a DEF Goes, TypeOK, Starts
    <3>4. InFlight(r) BY <1>6, <1>c DEF StartAnswered, InFlight
    <3>5. UNCHANGED <<generation, poll, report, terminalMessage, error>>
      BY <1>6 DEF StartAnswered, loops
    <3>. QED BY <2>1, <3>1, <3>2, <3>3, <3>4, <3>5, ShowsStart
  <2>2. CASE ~Current(r)
    <3>1. Goes(r, "superseded") /\ UNCHANGED <<generation, poll, state>>
      BY <1>6, <2>2 DEF StartAnswered, loops, state
    <3>2. Moved BY <3>1, <1>6, <1>a, <1>b, <1>c, GoesOn DEF StartAnswered
    <3>. QED BY <3>1, <3>2, Same DEF state
  <2>. QED BY <2>1, <2>2
<1>7. CASE ReconcileAnswered(r)
  <2>0. start[r].pc \in Calls /\ UNCHANGED <<poll, generation>>
    BY <1>7, <1>c DEF ReconcileAnswered, loops
  <2>1. CASE Current(r) /\ start[r].seen \in {"running", "completed"}
    <3>1. Goes(r, "shown") /\ runId' = r /\ error' = Nothing
          /\ UNCHANGED <<progress, report, terminalMessage>>
      BY <1>7, <2>1 DEF ReconcileAnswered
    <3>2. Moved BY <2>0, <3>1, <1>a, <1>b, GoesOn
    <3>3. start'[r].pc = "shown" BY <3>1, <1>a DEF Goes, TypeOK, Starts
    <3>4. InFlight(r) BY <2>0 DEF InFlight
    <3>5. progress' = Nothing BY <2>1, <3>1, <3>4 DEF ShowInv, Followed
    <3>. QED BY <2>0, <2>1, <3>1, <3>2, <3>3, <3>4, <3>5, ShowsStart
  <2>2. CASE Goes(r, "withdrawing") /\ UNCHANGED state
    <3>1. Moved BY <2>0, <2>2, <1>a, <1>b, GoesOn
    <3>. QED BY <2>0, <2>2, <3>1, Same DEF state
  <2>3. CASE \E pc \in {"superseded", "failed"} : ReturnError(r, pc)
    BY <1>4, <2>0, <2>3
  <2>. QED BY <1>7, <2>1, <2>2, <2>3 DEF ReconcileAnswered
<1>. QED BY <1>1, <1>2, <1>3, <1>5, <1>6, <1>7, <1>9, <1>10 DEF StartStep

\* What a step of the loop must see to: no number is given, and what changes on
\* the screen is the current loop's.
LEMMA LoopGoesOn ==
    ASSUME ShowInv, TypeOK', UNCHANGED <<backend, opened, start, generation, runId>>,
           poll'.operation \in {poll.operation, 0},
           poll'.active => /\ poll.active
                           /\ poll'.operation = poll.operation
                           /\ poll'.run = poll.run,
           IsCurrent \/ UNCHANGED <<progress, report, error, terminalMessage>>,
           error' \in {error, Nothing} \/ error'.from = "poll",
           report' # Nothing => ~poll'.active,
           Answered', ShownIsCurrent', ReportIsFinal'
    PROVE  ShowInv'
<1>. USE DEF ShowInv
<1>1. Numbered'
  <2>1. generation \in Nat /\ \A r \in Runs : start[r].operation \in Nat
    BY DEF TypeOK, Starts
  <2>. QED BY <2>1 DEF Numbered
<1>2. IsCurrent' => IsCurrent BY DEF IsCurrent
<1>3. IsCurrent => \A r \in Runs : InFlight(r) => ~Current(r)
  BY DEF Followed
<1>4. Followed'
  <2>1. IsCurrent' => poll'.run = runId' /\ runId' # Nothing
    BY <1>2 DEF Followed, IsCurrent
  <2>2. \A r \in Runs : InFlight(r)' /\ Current(r)' =>
           /\ runId' = Nothing /\ progress' = Nothing /\ report' = Nothing
           /\ terminalMessage' = Nothing
    BY <1>3 DEF Followed, InFlight, Current
  <2>3. error' # Nothing /\ error'.from = "start" => start'[error'.of].pc \in Returns
    BY DEF Followed
  <2>. QED BY <2>1, <2>2, <2>3 DEF Followed
<1>5. RowInv' BY DEF RowInv
<1>. QED BY <1>1, <1>4, <1>5

\* A call of the loop is served, or its timer fires.
LEMMA AsksShow ==
    ASSUME ShowInv, TypeOK', PollServed \/ Timer
    PROVE  ShowInv'
<1>. USE DEF ShowInv
<1>1. UNCHANGED <<backend, opened, start, generation, state>>
  BY DEF PollServed, Timer
<1>2. poll \in Polls /\ (poll.pc # "off" => poll.run \in Runs) BY DEF TypeOK
<1>3. /\ poll'.operation = poll.operation /\ poll'.active = poll.active /\ poll'.run = poll.run
      /\ poll'.pc \in {"answered", "asking"}
  BY <1>2 DEF PollServed, Timer, Polls
<1>4. Answered'
  <2>1. CASE PollServed
    <3>1. poll'.answer = Shown(poll.run) BY <1>2, <2>1 DEF PollServed, Polls
    <3>2. poll.run \in Runs BY <1>2, <2>1 DEF PollServed
    <3>3. poll'.answer.run = poll.run /\ poll'.answer.status = backend[poll.run].status
      BY <3>1 DEF Shown
    <3>4. poll'.answer # Nothing
      BY <1>2, <2>1, <3>1, <3>2, NothingIsNull DEF TypeOK, Shown, Rows, RunProgress
    <3>5. poll'.pc = "answered" BY <1>2, <2>1 DEF PollServed, Polls
    <3>6. backend[poll.run].status = "completed" => Finished(backend[poll.run])
      BY <3>2 DEF RowInv, RowOK, Finished
    <3>. QED BY <1>1, <1>3, <3>2, <3>3, <3>4, <3>5, <3>6 DEF Answered
  <2>2. CASE Timer
    <3>1. poll'.pc = "asking" BY <1>2, <2>2 DEF Timer, Polls
    <3>. QED BY <3>1 DEF Answered
  <2>. QED BY <2>1, <2>2
<1>5. ShownIsCurrent' /\ ReportIsFinal' BY <1>1 DEF ShownIsCurrent, ReportIsFinal, state
<1>. QED BY <1>1, <1>3, <1>4, <1>5, LoopGoesOn DEF state, Followed

\* The first answer of a round is the followed run's.
LEMMA PollShows ==
    ASSUME ShowInv, TypeOK', PollAnswered
    PROVE  ShowInv'
<1>. USE DEF ShowInv
<1>1. UNCHANGED <<backend, opened, start, generation, runId, report, requested>>
  BY DEF PollAnswered, state
<1>2. poll \in Polls /\ poll.run \in Runs /\ poll.answer # Nothing /\ poll.answer \in RunProgress
      /\ poll.answer.run = poll.run
  BY DEF PollAnswered, TypeOK, Answered, Polls
<1>3. CASE ~IsCurrent
  <2>1. poll' = NoPoll /\ UNCHANGED state BY <1>3 DEF PollAnswered
  <2>2. Answered' BY <2>1 DEF Answered, NoPoll, IsCurrent
  <2>3. ShownIsCurrent' /\ ReportIsFinal'
    BY <1>1, <2>1 DEF ShownIsCurrent, ReportIsFinal, state
  <2>. QED BY <1>1, <2>1, <2>2, <2>3, LoopGoesOn DEF NoPoll, state
<1>4. CASE IsCurrent
  <2>1. progress' = poll.answer /\ error' = Nothing BY <1>4 DEF PollAnswered
  <2>2. poll.run = runId /\ runId # Nothing /\ report = Nothing
    BY <1>4 DEF Followed, IsCurrent
  <2>3. CASE poll' = NoPoll /\ terminalMessage' = poll.run
    <3>1. Answered' BY <2>3 DEF Answered, NoPoll, IsCurrent
    <3>2. ShownIsCurrent' /\ ReportIsFinal'
      BY <1>1, <1>2, <2>1, <2>2, <2>3 DEF ShownIsCurrent, ReportIsFinal
    <3>. QED BY <1>1, <1>4, <2>1, <2>2, <2>3, <3>1, <3>2, LoopGoesOn DEF NoPoll
  <2>4. ASSUME NEW pc \in {"fetching", "waiting"}, Continues(pc), UNCHANGED terminalMessage,
               pc = "fetching" => poll.answer.status \in {"completed", "failed"}
        PROVE  ShowInv'
    <3>1. /\ poll'.pc = pc /\ poll'.operation = poll.operation
          /\ poll'.active = poll.active /\ poll'.run = poll.run
      BY <1>2, <2>4 DEF Continues, Polls
    <3>2. Answered'
      <4>1. pc = "fetching" /\ poll.answer.status = "completed" => Finished(backend[poll.run])
        BY <2>4 DEF PollAnswered, Answered
      <4>. QED BY <1>1, <1>2, <2>1, <2>4, <3>1, <4>1 DEF Answered
    <3>3. ShownIsCurrent' /\ ReportIsFinal'
      BY <1>1, <1>2, <2>1, <2>2, <2>4 DEF ShownIsCurrent, ReportIsFinal
    <3>. QED BY <1>1, <1>4, <2>1, <2>2, <3>1, <3>2, <3>3, LoopGoesOn
  <2>. QED BY <1>4, <2>3, <2>4 DEF PollAnswered
<1>. QED BY <1>3, <1>4

\* So is the second.
LEMMA FetchShows ==
    ASSUME ShowInv, TypeOK', FetchAnswered
    PROVE  ShowInv'
<1>. USE DEF ShowInv
<1>1. poll' = NoPoll /\ UNCHANGED <<backend, opened, start, generation, runId, progress, error, requested>>
  BY DEF FetchAnswered, state
<1>2. Answered' BY <1>1 DEF Answered, NoPoll, IsCurrent
<1>3. poll.run \in Runs BY DEF FetchAnswered, TypeOK
<1>4. CASE ~IsCurrent
  <2>1. UNCHANGED state BY <1>4 DEF FetchAnswered
  <2>2. ShownIsCurrent' /\ ReportIsFinal'
    BY <1>1, <2>1 DEF ShownIsCurrent, ReportIsFinal, state
  <2>. QED BY <1>1, <1>2, <2>1, <2>2, LoopGoesOn DEF NoPoll, state
<1>5. CASE IsCurrent
  <2>1. poll.run = runId /\ runId # Nothing /\ report = Nothing
    BY <1>5 DEF Followed, IsCurrent
  <2>2. /\ progress # Nothing
        /\ progress.status = "completed" => Finished(backend[poll.run])
    BY <1>5 DEF FetchAnswered, Answered
  <2>3. \/ /\ progress.status = "completed"
           /\ report'.run = poll.run
           /\ UNCHANGED terminalMessage
        \/ terminalMessage' = poll.run /\ UNCHANGED report
    BY <1>5 DEF FetchAnswered
  <2>4. ShownIsCurrent' BY <1>1, <2>1, <2>3 DEF ShownIsCurrent
  <2>5. ReportIsFinal' BY <1>1, <2>1, <2>2, <2>3 DEF ReportIsFinal
  <2>. QED BY <1>1, <1>2, <1>5, <2>4, <2>5, LoopGoesOn DEF NoPoll
<1>. QED BY <1>4, <1>5

\* A failure is the followed run's, or nobody's.
LEMMA PollFailureShows ==
    ASSUME ShowInv, TypeOK', PollFails
    PROVE  ShowInv'
<1>. USE DEF ShowInv
<1>1. UNCHANGED <<backend, opened, start, generation, runId, progress, report, terminalMessage>>
  BY DEF PollFails, state
<1>2. poll \in Polls BY DEF TypeOK
<1>3. /\ poll'.pc \in {"off", "waiting", "stopped"}
      /\ poll'.operation \in {poll.operation, 0}
      /\ poll'.active => /\ poll.active
                         /\ poll'.operation = poll.operation
                         /\ poll'.run = poll.run
  <2>1. CASE poll' = NoPoll BY <2>1 DEF NoPoll
  <2>2. CASE \E pc \in {"waiting", "stopped"} :
                poll' = [poll EXCEPT !.pc = pc, !.failures = @ + 1, !.answer = Nothing]
    BY <1>2, <2>2 DEF Polls
  <2>. QED BY <2>1, <2>2 DEF PollFails
<1>4. Answered' BY <1>3 DEF Answered
<1>5. ReportIsFinal' BY <1>1 DEF ReportIsFinal
<1>6. CASE ~IsCurrent
  <2>1. UNCHANGED state BY <1>6 DEF PollFails
  <2>2. ShownIsCurrent' BY <1>1, <2>1 DEF ShownIsCurrent, state
  <2>. QED BY <1>1, <1>3, <1>4, <1>5, <2>1, <2>2, LoopGoesOn DEF state, Followed
<1>7. CASE IsCurrent
  <2>1. error'.from = "poll" /\ error'.of = poll.run BY <1>7 DEF PollFails
  <2>2. poll.run = runId BY <1>7 DEF Followed
  <2>3. ShownIsCurrent' BY <1>1, <2>1, <2>2 DEF ShownIsCurrent
  <2>. QED BY <1>1, <1>3, <1>4, <1>5, <1>7, <2>1, <2>3, LoopGoesOn DEF Followed
<1>. QED BY <1>6, <1>7

\* The effect gives the loop a number of its own, or stops it.
LEMMA EffectShows ==
    ASSUME ShowInv, TypeOK', Effect
    PROVE  ShowInv'
<1>. USE DEF ShowInv
<1>1. UNCHANGED <<backend, opened, start, state>> BY DEF Effect
<1>2. poll \in Polls /\ generation \in Nat /\ \A r \in Runs : start[r].operation \in Nat
  BY DEF TypeOK, Starts
<1>3. ShownIsCurrent' /\ ReportIsFinal' BY <1>1 DEF ShownIsCurrent, ReportIsFinal, state
<1>4. CASE poll' = Cleaned /\ UNCHANGED generation
  <2>1. /\ poll'.operation \in {poll.operation, 0} /\ poll'.active = FALSE
        /\ poll'.pc = "answered" => /\ poll.pc = "answered"
                                    /\ poll'.answer = poll.answer
                                    /\ poll'.run = poll.run
    BY <1>2, <1>4 DEF Cleaned, Polls, NoPoll
  <2>2. Answered' BY <1>1, <2>1 DEF Answered, IsCurrent
  <2>. QED BY <1>1, <1>3, <1>4, <2>1, <2>2, LoopGoesOn DEF state
<1>5. CASE /\ runId # Nothing /\ ~(report # Nothing /\ report.run = runId)
           /\ generation' = generation + 1
           /\ poll' = [NoPoll EXCEPT !.pc = "asking", !.run = runId,
                                     !.operation = generation', !.active = TRUE]
  <2>1. poll'.pc = "asking" /\ poll'.run = runId /\ poll'.operation = generation'
    BY <1>5 DEF NoPoll
  <2>2. \A r \in Runs : start'[r].operation < generation'
    BY <1>1, <1>2, <1>5 DEF Numbered
  <2>3. Numbered'
    <3>1. \A r \in Runs : start'[r].operation # poll'.operation
      BY <1>1, <1>2, <2>1, <2>2
    <3>2. generation' \in Nat BY <1>2, <1>5
    <3>. QED BY <1>1, <1>2, <2>1, <2>2, <3>1, <3>2 DEF Numbered
  <2>4. \A r \in Runs : ~Current(r)'
    BY <1>1, <1>2, <2>2 DEF Current
  <2>5. report = Nothing BY <1>5 DEF ShownIsCurrent
  <2>6. Followed' BY <1>1, <1>5, <2>1, <2>4, <2>5 DEF Followed, state
  <2>7. Answered' BY <2>1 DEF Answered
  <2>8. RowInv' BY <1>1 DEF RowInv
  <2>. QED BY <1>3, <2>3, <2>6, <2>7, <2>8
<1>. QED BY <1>4, <1>5 DEF Effect

\* What the user sends follows the same run; a new start and reset follow none.
LEMMA UserShows ==
    ASSUME ShowInv, TypeOK', RowsLast, RowInv', UserStep
    PROVE  ShowInv'
<1>1. CASE Configure \/ Cancel
  <2>1. /\ UNCHANGED <<start, generation, poll, runId, progress, report>>
        /\ terminalMessage' \in {terminalMessage, Nothing}
        /\ error' \in {error, Nothing}
    BY <1>1 DEF Configure, Cancel, loops, state
  <2>2. Moved BY <2>1 DEF Moved
  <2>. QED BY <2>1, <2>2, Same
<1>2. CASE Reset
  BY <1>2, Cleared DEF Reset, ResetState, loops
<1>3. ASSUME NEW r \in Runs, NEW mode \in Modes, NEW pc \in {"creating", "uploading"},
             PrepareStart(r, mode, pc)
      PROVE  ShowInv'
  <2>1. start'[r].pc \in Calls /\ start'[r].operation = generation'
    BY <1>3 DEF PrepareStart, ShowInv, TypeOK, Calls
  <2>2. \A q \in Runs \ {r} : start'[q] = start[q]
    BY <1>3 DEF PrepareStart, ShowInv, TypeOK
  <2>3. /\ UNCHANGED poll /\ generation' = generation + 1 /\ runId' = Nothing
        /\ progress' = Nothing /\ report' = Nothing /\ error' = Nothing
        /\ terminalMessage' = Nothing
    BY <1>3 DEF PrepareStart, loops
  <2>. QED BY <2>1, <2>2, <2>3, Cleared
<1>. QED BY <1>1, <1>2, <1>3 DEF UserStep, Start

\* A command's answer is about the command.
LEMMA CommandShows ==
    ASSUME ShowInv, TypeOK', RowsLast, RowInv', NEW c \in sent, CommandStep(c) \/ CommandFails(c)
    PROVE  ShowInv'
<1>1. UNCHANGED <<start, generation, poll, runId, progress, report, terminalMessage>>
  BY DEF CommandStep, CommandRead, CommandCommit, CommandAnswered, CommandFails, CommandError,
         loops, state
<1>2. UNCHANGED error \/ error'.from = "command"
  BY DEF CommandStep, CommandRead, CommandCommit, CommandAnswered, CommandFails, CommandError,
         state
<1>3. Moved BY <1>1 DEF Moved
<1>. QED BY <1>1, <1>2, <1>3, Same

\* ShowInv is inductive.
LEMMA ShowInvStep == ShowInv /\ [Next]_vars => ShowInv'
<1>. SUFFICES ASSUME ShowInv, [Next]_vars PROVE ShowInv'
  OBVIOUS
<1>1. TypeOK' BY TypeStep DEF ShowInv
<1>2. CASE UNCHANGED vars
  <2>1. RowsLast /\ RowInv' /\ Moved
    BY <1>2, SameRows DEF ShowInv, Moved, vars
  <2>. QED BY <1>1, <1>2, <2>1, Same DEF vars, state, loops
<1>3. CASE Next
  <2>1. RowsLast /\ RowInv' BY <1>3, RowsStep DEF ShowInv
  <2>2. ASSUME NEW r \in Runs, BackendStep(r) \/ StartStep(r) \/ UploadFails(r)
                               \/ CreateFails(r) \/ StartFails(r) \/ ReconcileFails(r)
        PROVE  ShowInv'
    BY <1>1, <2>1, <2>2, StartShows
  <2>3. CASE PollStep BY <1>1, <2>3, AsksShow, PollShows, FetchShows DEF PollStep
  <2>4. CASE PollFails BY <1>1, <2>4, PollFailureShows
  <2>5. CASE \E c \in sent : CommandStep(c) \/ CommandFails(c)
    BY <1>1, <2>1, <2>5, CommandShows
  <2>6. CASE Effect BY <1>1, <2>6, EffectShows
  <2>7. CASE UserStep BY <1>1, <2>1, <2>7, UserShows
  <2>. QED BY <1>3, <2>2, <2>3, <2>4, <2>5, <2>6, <2>7 DEF Next, SystemStep, CallFails
<1>. QED BY <1>2, <1>3

\* At first nothing is shown.
LEMMA ShowInvInit == Init => ShowInv
<1>. SUFFICES ASSUME Init PROVE ShowInv
  OBVIOUS
<1>1. TypeOK BY TypeInit
<1>2. Numbered BY DEF Init, Numbered, NotStarted, NoPoll, Calls
<1>3. Followed /\ Answered
  BY DEF Init, Followed, Answered, IsCurrent, InFlight, Calls, NotStarted, NoPoll
<1>4. RowInv BY StartInvInit DEF StartInv
<1>5. ShownIsCurrent /\ ReportIsFinal BY DEF Init, ShownIsCurrent, ReportIsFinal
<1>. QED BY <1>1, <1>2, <1>3, <1>4, <1>5 DEF ShowInv

\* Every reachable state satisfies ShowInv.
THEOREM ShowInvariance == Spec => []ShowInv
BY ShowInvInit, ShowInvStep, PTL DEF Spec

\* What the hook shows is the followed run's or the newest start's, however many
\* starts, polls and commands are superseded, lost or answered late.
THEOREM ShownIsTheNewest == Spec => []ShownIsCurrent
<1>1. ShowInv => ShownIsCurrent BY DEF ShowInv
<1>. QED BY <1>1, ShowInvariance, PTL

\* The report of a completed run is shown beside its completion, never of a run
\* that may still change its verdict, unless its strategies were chosen twice.
THEOREM ReportsAreFinal == Spec => []ReportIsFinal
<1>1. ShowInv => ReportIsFinal BY DEF ShowInv
<1>. QED BY <1>1, ShowInvariance, PTL

-----------------------------------------------------------------------------
(* What the spinner and its absence mean.                                  *)

\* The effect last ran for a run that was shown, if for any: a run is put on
\* the screen by its own start, once.
ShownOnce == \A r \in Runs : runId = r \/ settled[2] = r => start[r].pc = "shown"

\* The current loop waits for an answer.
Polling == poll.pc \in {"asking", "answered", "fetching"} /\ IsCurrent

\* A followed run without the spinner shows why.
FollowedIsExplained ==
    runId # Nothing /\ ~busy =>
        \/ error # Nothing \/ terminalMessage # Nothing \/ report # Nothing
        \/ ~Rendered \/ Polling

\* With ShowInv, what is inductive: without ShownOnce a start could show a run
\* whose loop the effect would not begin again.
Core == PendingIsBusy /\ FollowedIsExplained /\ ShownOnce

\* While no run is followed, only an error turns the spinner off.  A page that
\* is loaded again has lost its errors: it starts from Core alone.
QuietOnError == requested /\ ~busy /\ runId = Nothing => error # Nothing

IdleInv == Core /\ QuietOnError

\* What every step keeps.
StillExplained == Core' /\ (QuietOnError => QuietOnError')

\* A start that put its run on the screen is over.
ShownStays == \A r \in Runs : start[r].pc = "shown" => start'[r].pc = "shown"

\* The newest start is in flight.
Pending == \E r \in Runs : InFlight(r) /\ Current(r)

\* What a failure and a report put on the screen is not null.
LEMMA Something ==
    ASSUME NEW r \in Runs
    PROVE  /\ \A from \in {"start", "poll", "command"} : [from |-> from, of |-> r] # Nothing
           /\ \A clean \in BOOLEAN : [run |-> r, clean |-> clean] # Nothing
BY NothingIsNull DEF Errors, RunReport

\* A call that goes on, or returns, is not one that was shown.
LEMMA GoesKeepsShown ==
    ASSUME TypeOK, NEW r \in Runs, NEW pc \in Calls \cup Returns, start[r].pc \in Calls,
           Goes(r, pc)
    PROVE  ShownStays /\ start'[r].pc = pc
BY DEF Goes, ShownStays, TypeOK, Starts, Calls

\* The current loop and a start in flight do not go together.
LEMMA LoopOrStart ==
    ASSUME ShowInv, IsCurrent
    PROVE  ~Pending
BY DEF ShowInv, Numbered, IsCurrent, Pending, InFlight, Current, Calls

\* A start that has returned was the only one the hook was busy with.
LEMMA ReturnEndsPending ==
    ASSUME ShowInv, Moved, NEW r \in Runs, start[r].pc \in Calls, Current(r),
           start'[r].pc \in Returns, UNCHANGED generation
    PROVE  ~Pending'
<1>. SUFFICES ASSUME NEW q \in Runs, InFlight(q)', Current(q)' PROVE FALSE
  BY DEF Pending
<1>1. start[q].pc \in Calls /\ start[q].operation = generation
  BY DEF InFlight, Current, Moved
<1>2. q = r BY <1>1 DEF ShowInv, Numbered, Current, Calls
<1>. QED BY <1>2 DEF InFlight, Calls, Returns

\* Steps that change nothing the user sees, and leave the current loop waiting
\* for an answer if it was.
LEMMA SameScreen ==
    ASSUME Core, Moved, ShownStays, UNCHANGED <<settled, generation, state>>,
           Polling => Polling'
    PROVE  StillExplained
<1>1. Pending' => Pending BY DEF Pending, InFlight, Current, Moved
<1>2. PendingIsBusy' BY <1>1 DEF Core, PendingIsBusy, Pending, state
<1>3. FollowedIsExplained' BY DEF Core, FollowedIsExplained, Rendered, Polling, state
<1>4. ShownOnce' BY DEF Core, ShownOnce, ShownStays, state
<1>5. QuietOnError => QuietOnError' BY DEF QuietOnError, state
<1>. QED BY <1>2, <1>3, <1>4, <1>5 DEF StillExplained, Core

\* A failure explains an idle hook.
LEMMA Complains ==
    ASSUME Core, ShownStays, UNCHANGED <<settled, runId>>, error' # Nothing,
           error'.from = "command" \/ ~Pending'
    PROVE  StillExplained
<1>1. PendingIsBusy' BY DEF PendingIsBusy, Pending
<1>2. FollowedIsExplained' BY DEF FollowedIsExplained
<1>3. ShownOnce' BY DEF Core, ShownOnce, ShownStays
<1>4. QuietOnError' BY DEF QuietOnError
<1>. QED BY <1>1, <1>2, <1>3, <1>4 DEF StillExplained, Core

\* A run that is put on the screen is new to the effect.
LEMMA Follows ==
    ASSUME ShowInv, Core, TypeOK', Moved, ShownStays, NEW r \in Runs, start[r].pc \in Calls,
           Current(r), start'[r].pc = "shown", runId' = r, UNCHANGED <<settled, generation>>
    PROVE  StillExplained
<1>1. ~Pending' BY ReturnEndsPending DEF Returns
<1>2. settled[2] # r BY DEF Core, ShownOnce, Calls
<1>3. ~Rendered' BY <1>2 DEF Rendered
<1>4. PendingIsBusy' BY <1>1 DEF PendingIsBusy, Pending
<1>5. FollowedIsExplained' BY <1>3 DEF FollowedIsExplained
<1>6. ShownOnce' BY DEF Core, ShownOnce, ShownStays
<1>7. QuietOnError' BY LiveRunAssumption DEF QuietOnError
<1>. QED BY <1>4, <1>5, <1>6, <1>7 DEF StillExplained, Core

\* A catch block explains itself, or is nobody's.
LEMMA ReturnErrorExplains ==
    ASSUME ShowInv, Core, NEW r \in Runs,
           NEW pc \in {"failed", "unconfirmed", "superseded", "withdrawn", "overtaken"},
           start[r].pc \in Calls, ReturnError(r, pc), UNCHANGED <<poll, settled, generation>>
    PROVE  StillExplained
<1>1. TypeOK /\ pc \in Returns BY DEF ShowInv, Returns
<1>2. Goes(r, pc) BY DEF ReturnError
<1>3. Moved /\ ShownStays /\ start'[r].pc = pc BY <1>1, <1>2, GoesOn, GoesKeepsShown
<1>4. CASE Current(r)
  <2>1. error' = [from |-> "start", of |-> r] /\ UNCHANGED runId
    BY <1>4 DEF ReturnError
  <2>2. error' # Nothing BY <2>1, Something
  <2>3. ~Pending' BY <1>1, <1>3, <1>4, ReturnEndsPending
  <2>. QED BY <1>3, <2>1, <2>2, <2>3, Complains
<1>5. CASE ~Current(r)
  <2>1. UNCHANGED state BY <1>5 DEF ReturnError, state
  <2>. QED BY <1>3, <2>1, SameScreen DEF Polling, IsCurrent
<1>. QED BY <1>4, <1>5

\* A start leaves the hook busy, explains why it is not, or shows its run.
LEMMA StartExplains ==
    ASSUME ShowInv, Core, TypeOK', NEW r \in Runs,
           BackendStep(r) \/ StartStep(r) \/ UploadFails(r) \/ CreateFails(r)
           \/ StartFails(r) \/ ReconcileFails(r)
    PROVE  StillExplained
<1>a. TypeOK BY DEF ShowInv
<1>b. {"creating", "starting", "superseded", "shown", "reconciling", "withdrawing", "cancelling"}
         \subseteq Calls \cup Returns
  BY DEF Calls, Returns
<1>c. {"uploading", "creating", "starting", "reconciling", "reconciled", "withdrawing",
       "cancelling"} \subseteq Calls
  BY DEF Calls
<1>1. CASE BackendStep(r) \/ CreateServed(r) \/ StartRead(r) \/ StartCommit(r)
  <2>1. UNCHANGED <<start, poll, settled, generation, state>>
    BY <1>1 DEF BackendStep, SetStage, AwaitStrategy, Decide, CreateServed, StartRead, StartCommit,
                loops
  <2>2. Moved /\ ShownStays BY <2>1 DEF Moved, ShownStays
  <2>. QED BY <2>1, <2>2, SameScreen DEF Polling, IsCurrent
<1>2. ASSUME NEW pc \in Calls \cup Returns, start[r].pc \in Calls, Goes(r, pc),
             UNCHANGED <<poll, settled, generation, state>>
      PROVE  StillExplained
  <2>1. Moved /\ ShownStays BY <1>2, <1>a, GoesOn, GoesKeepsShown
  <2>. QED BY <1>2, <2>1, SameScreen DEF Polling, IsCurrent
<1>3. CASE UploadAnswered(r) \/ CreateAnswered(r) \/ StartFails(r)
  BY <1>2, <1>3, <1>b, <1>c DEF UploadAnswered, CreateAnswered, StartFails, loops
<1>4. CASE ReconcileServed(r)
  <2>1. start[r].pc \in Calls /\ start'[r].pc \in Calls
        /\ (\A q \in Runs \ {r} : start'[q] = start[q])
        /\ start'[r].operation = start[r].operation
    BY <1>4, <1>a, <1>c DEF ReconcileServed, TypeOK, Starts
  <2>2. Moved /\ ShownStays BY <2>1 DEF Moved, ShownStays, Calls, Returns
  <2>3. UNCHANGED <<poll, settled, generation, state>> BY <1>4 DEF ReconcileServed, loops
  <2>. QED BY <2>2, <2>3, SameScreen DEF Polling, IsCurrent
<1>5. CASE UploadFails(r) \/ CreateFails(r) \/ ReconcileFails(r)
  BY <1>5, <1>c, ReturnErrorExplains DEF UploadFails, CreateFails, ReconcileFails, loops
<1>9. ASSUME Withdrawn(r), start[r].pc \in Calls, UNCHANGED <<poll, settled, generation>>
      PROVE  StillExplained
  BY <1>9, ReturnErrorExplains DEF Withdrawn
<1>10. CASE WithdrawRead(r)
  <2>1. start[r].pc \in Calls /\ UNCHANGED <<poll, settled, generation>>
    BY <1>10, <1>c DEF WithdrawRead, loops
  <2>2. CASE Goes(r, "cancelling") /\ UNCHANGED state BY <1>2, <1>b, <2>1, <2>2
  <2>. QED BY <1>9, <1>10, <2>1, <2>2 DEF WithdrawRead
<1>11. CASE WithdrawCommit(r) BY <1>9, <1>11, <1>c DEF WithdrawCommit, loops
<1>6. ASSUME Goes(r, "shown"), runId' = r, start[r].pc \in Calls, Current(r),
             UNCHANGED <<settled, generation>>
      PROVE  StillExplained
  <2>1. Moved /\ ShownStays /\ start'[r].pc = "shown"
    BY <1>6, <1>a, <1>b, GoesOn, GoesKeepsShown
  <2>. QED BY <1>6, <2>1, Follows
<1>7. CASE StartAnswered(r)
  <2>1. CASE Current(r)
    BY <1>6, <1>7, <1>c, <2>1 DEF StartAnswered, loops
  <2>2. CASE ~Current(r)
    <3>1. Goes(r, "superseded") /\ UNCHANGED <<poll, settled, generation, state>>
      BY <1>7, <2>2 DEF StartAnswered, loops, state
    <3>. QED BY <1>2, <1>7, <1>b, <1>c, <3>1 DEF StartAnswered
  <2>. QED BY <2>1, <2>2
<1>8. CASE ReconcileAnswered(r)
  <2>0. start[r].pc \in Calls /\ UNCHANGED <<poll, settled, generation>>
    BY <1>8, <1>c DEF ReconcileAnswered, loops
  <2>1. CASE Current(r) /\ start[r].seen \in {"running", "completed"}
    BY <1>6, <1>8, <2>0, <2>1 DEF ReconcileAnswered
  <2>2. CASE Goes(r, "withdrawing") /\ UNCHANGED state
    BY <1>2, <1>b, <2>0, <2>2
  <2>3. CASE \E pc \in {"superseded", "failed"} : ReturnError(r, pc)
    BY <2>0, <2>3, ReturnErrorExplains
  <2>. QED BY <1>8, <2>1, <2>2, <2>3 DEF ReconcileAnswered
<1>. QED BY <1>1, <1>3, <1>4, <1>5, <1>7, <1>8, <1>10, <1>11 DEF StartStep

\* What the current loop learns leaves the spinner on, or is shown.
LEMMA LoopExplains ==
    ASSUME ShowInv, Core, IsCurrent, UNCHANGED <<start, settled, generation, runId>>,
           \/ busy' = TRUE
           \/ error' # Nothing \/ terminalMessage' # Nothing \/ report' # Nothing
           \/ Polling'
    PROVE  StillExplained
<1>1. ~Pending BY LoopOrStart
<1>2. ~Pending' BY <1>1 DEF Pending, InFlight, Current
<1>3. PendingIsBusy' BY <1>2 DEF PendingIsBusy, Pending
<1>4. FollowedIsExplained' BY DEF FollowedIsExplained, Polling
<1>5. ShownOnce' BY DEF Core, ShownOnce
<1>6. QuietOnError' BY DEF QuietOnError, ShowInv, Followed
<1>. QED BY <1>3, <1>4, <1>5, <1>6 DEF StillExplained, Core

\* A step of the loop.
LEMMA PollExplains ==
    ASSUME ShowInv, Core, PollStep \/ PollFails
    PROVE  StillExplained
<1>a. poll \in Polls /\ (poll.pc # "off" => poll.run \in Runs) /\ Nothing \notin Runs
  BY LiveRunAssumption DEF ShowInv, TypeOK
<1>b. UNCHANGED <<start, settled, generation>>
  BY DEF PollStep, PollServed, PollAnswered, FetchAnswered, Timer, PollFails
<1>c. Moved /\ ShownStays BY <1>b DEF Moved, ShownStays
<1>1. CASE PollServed \/ Timer
  <2>1. UNCHANGED state BY <1>1 DEF PollServed, Timer
  <2>2. poll'.pc \in {"answered", "asking"} /\ poll'.active = poll.active
        /\ poll'.operation = poll.operation
    BY <1>1, <1>a DEF PollServed, Timer, Polls
  <2>. QED BY <1>b, <1>c, <2>1, <2>2, SameScreen DEF Polling, IsCurrent
<1>2. CASE ~IsCurrent /\ (PollAnswered \/ FetchAnswered \/ PollFails)
  <2>1. UNCHANGED state BY <1>2 DEF PollAnswered, FetchAnswered, PollFails
  <2>. QED BY <1>2, <1>b, <1>c, <2>1, SameScreen DEF Polling
<1>3. CASE IsCurrent /\ PollAnswered
  <2>1. UNCHANGED runId BY <1>3 DEF PollAnswered
  <2>2. poll.run # Nothing BY <1>3, <1>a DEF PollAnswered
  <2>3. \/ Continues("fetching") \/ terminalMessage' # Nothing \/ busy' = TRUE
    BY <1>3, <2>2 DEF PollAnswered
  <2>4. Continues("fetching") => Polling'
    BY <1>3, <1>a, <1>b DEF Continues, Polling, IsCurrent, Polls
  <2>. QED BY <1>3, <1>b, <2>1, <2>3, <2>4, LoopExplains
<1>4. CASE IsCurrent /\ FetchAnswered
  <2>1. UNCHANGED runId BY <1>4 DEF FetchAnswered
  <2>2. poll.run # Nothing BY <1>4, <1>a DEF FetchAnswered
  <2>3. \/ terminalMessage' = poll.run
        \/ \E clean \in BOOLEAN : report' = [run |-> poll.run, clean |-> clean]
    BY <1>4 DEF FetchAnswered
  <2>4. terminalMessage' # Nothing \/ report' # Nothing
    BY <1>4, <1>a, <2>2, <2>3, Something DEF FetchAnswered
  <2>. QED BY <1>4, <1>b, <2>1, <2>4, LoopExplains
<1>5. CASE IsCurrent /\ PollFails
  <2>1. error' = [from |-> "poll", of |-> poll.run] /\ UNCHANGED runId
    BY <1>5 DEF PollFails
  <2>2. error' # Nothing BY <1>5, <1>a, <2>1, Something DEF PollFails
  <2>. QED BY <1>5, <1>b, <2>1, <2>2, LoopExplains
<1>. QED BY <1>1, <1>2, <1>3, <1>4, <1>5 DEF PollStep

\* The effect asks about the run on the screen, or there is nothing to ask.
LEMMA EffectExplains ==
    ASSUME ShowInv, Core, Effect
    PROVE  StillExplained
<1>1. UNCHANGED <<start, state>> /\ settled'[2] = runId /\ Rendered'
  BY DEF Effect, Rendered, state
<1>2. generation \in Nat /\ \A r \in Runs : start[r].operation \in Nat
  BY DEF ShowInv, TypeOK, Starts
<1>3. ShownOnce' BY <1>1 DEF Core, ShownOnce, state
<1>4. QuietOnError => QuietOnError' BY <1>1 DEF QuietOnError, state
<1>5. CASE UNCHANGED generation /\ (runId = Nothing \/ report # Nothing)
  <2>1. PendingIsBusy' BY <1>1, <1>5 DEF Core, PendingIsBusy, InFlight, Current, state
  <2>2. FollowedIsExplained' BY <1>1, <1>5 DEF FollowedIsExplained, state
  <2>. QED BY <1>3, <1>4, <2>1, <2>2 DEF StillExplained, Core
<1>6. CASE /\ generation' = generation + 1
           /\ poll' = [NoPoll EXCEPT !.pc = "asking", !.run = runId,
                                     !.operation = generation', !.active = TRUE]
  <2>1. \A r \in Runs : ~Current(r)'
    <3>. SUFFICES ASSUME NEW r \in Runs, Current(r)' PROVE FALSE
      OBVIOUS
    <3>1. start[r].operation = generation + 1 BY <1>1, <1>6 DEF Current
    <3>2. start[r].operation <= generation BY DEF ShowInv, Numbered
    <3>. QED BY <1>2, <3>1, <3>2
  <2>2. Polling' BY <1>6 DEF Polling, IsCurrent, NoPoll
  <2>3. PendingIsBusy' BY <2>1 DEF PendingIsBusy
  <2>4. FollowedIsExplained' BY <2>2 DEF FollowedIsExplained, Polling
  <2>. QED BY <1>3, <1>4, <2>3, <2>4 DEF StillExplained, Core
<1>. QED BY <1>5, <1>6 DEF Effect

\* What the user does turns the spinner on, or is asked for nothing.
LEMMA UserExplains ==
    ASSUME ShowInv, Core, UserStep
    PROVE  StillExplained
<1>a. TypeOK BY DEF ShowInv
<1>1. CASE Cancel
  <2>1. UNCHANGED <<start, poll, settled, generation, state>> BY <1>1 DEF Cancel, loops
  <2>2. Moved /\ ShownStays BY <2>1 DEF Moved, ShownStays
  <2>. QED BY <2>1, <2>2, SameScreen DEF Polling, IsCurrent
<1>2. CASE Configure
  <2>1. UNCHANGED <<start, settled, runId>> /\ busy' = TRUE BY <1>2 DEF Configure, loops
  <2>2. PendingIsBusy' /\ FollowedIsExplained' /\ QuietOnError'
    BY <2>1 DEF PendingIsBusy, FollowedIsExplained, QuietOnError
  <2>3. ShownOnce' BY <2>1 DEF Core, ShownOnce
  <2>. QED BY <2>2, <2>3 DEF StillExplained, Core
<1>3. CASE Reset
  <2>1. /\ UNCHANGED <<start, settled>> /\ runId' = Nothing /\ requested' = FALSE
        /\ generation' = generation + 1
    BY <1>3 DEF Reset, ResetState, loops
  <2>2. \A r \in Runs : ~Current(r)'
    <3>. SUFFICES ASSUME NEW r \in Runs, Current(r)' PROVE FALSE
      OBVIOUS
    <3>1. start[r].operation = generation + 1 BY <2>1 DEF Current
    <3>2. start[r].operation <= generation BY DEF ShowInv, Numbered
    <3>3. generation \in Nat /\ start[r].operation \in Nat BY <1>a DEF TypeOK, Starts
    <3>. QED BY <3>1, <3>2, <3>3
  <2>3. PendingIsBusy' BY <2>2 DEF PendingIsBusy
  <2>4. FollowedIsExplained' /\ QuietOnError' BY <2>1 DEF FollowedIsExplained, QuietOnError
  <2>5. ShownOnce' BY <2>1, LiveRunAssumption DEF Core, ShownOnce
  <2>. QED BY <2>3, <2>4, <2>5 DEF StillExplained, Core
<1>4. ASSUME NEW r \in Runs, NEW mode \in Modes, NEW pc \in {"creating", "uploading"},
             PrepareStart(r, mode, pc)
      PROVE  StillExplained
  <2>1. /\ UNCHANGED settled /\ runId' = Nothing /\ busy' = TRUE /\ start[r].pc = "idle"
        /\ \A q \in Runs \ {r} : start'[q] = start[q]
    BY <1>4, <1>a DEF PrepareStart, TypeOK, loops
  <2>2. PendingIsBusy' /\ FollowedIsExplained' /\ QuietOnError'
    BY <2>1 DEF PendingIsBusy, FollowedIsExplained, QuietOnError
  <2>3. ShownOnce' BY <2>1, LiveRunAssumption DEF Core, ShownOnce
  <2>. QED BY <2>2, <2>3 DEF StillExplained, Core
<1>. QED BY <1>1, <1>2, <1>3, <1>4 DEF UserStep, Start

\* A command that fails says so; one that is accepted changes nothing.
LEMMA CommandExplains ==
    ASSUME ShowInv, Core, NEW c \in sent, CommandStep(c) \/ CommandFails(c)
    PROVE  StillExplained
<1>a. c.run \in Runs BY DEF ShowInv, TypeOK, Commands
<1>1. UNCHANGED <<start, poll, settled, generation, runId>>
  BY DEF CommandStep, CommandRead, CommandCommit, CommandAnswered, CommandFails, CommandError,
         loops, state
<1>2. Moved /\ ShownStays BY <1>1 DEF Moved, ShownStays
<1>3. CASE UNCHANGED state
  BY <1>1, <1>2, <1>3, SameScreen DEF Polling, IsCurrent
<1>4. CASE CommandError(c)
  <2>1. error' # Nothing /\ error'.from = "command"
    BY <1>4, <1>a, Something DEF CommandError
  <2>. QED BY <1>1, <1>2, <2>1, Complains
<1>. QED BY <1>3, <1>4 DEF CommandStep, CommandRead, CommandCommit, CommandAnswered, CommandFails

\* Every step keeps what Core says, and what QuietOnError says.
LEMMA CoreStep == ShowInv /\ ShowInv' /\ Core /\ [Next]_vars => StillExplained
<1>. SUFFICES ASSUME ShowInv, ShowInv', Core, [Next]_vars PROVE StillExplained
  OBVIOUS
<1>1. TypeOK' BY DEF ShowInv
<1>2. CASE UNCHANGED vars
  <2>1. Moved /\ ShownStays BY <1>2 DEF Moved, ShownStays, vars
  <2>. QED BY <1>2, <2>1, SameScreen DEF Polling, IsCurrent, vars, loops
<1>3. CASE \E r \in Runs : \/ BackendStep(r) \/ StartStep(r) \/ UploadFails(r)
                           \/ CreateFails(r) \/ StartFails(r) \/ ReconcileFails(r)
  BY <1>1, <1>3, StartExplains
<1>4. CASE PollStep \/ PollFails BY <1>4, PollExplains
<1>5. CASE \E c \in sent : CommandStep(c) \/ CommandFails(c) BY <1>5, CommandExplains
<1>6. CASE Effect BY <1>6, EffectExplains
<1>7. CASE UserStep BY <1>7, UserExplains
<1>. QED BY <1>2, <1>3, <1>4, <1>5, <1>6, <1>7 DEF Next, SystemStep, CallFails

\* IdleInv is inductive beside ShowInv.
LEMMA IdleInvStep == ShowInv /\ ShowInv' /\ IdleInv /\ [Next]_vars => IdleInv'
BY CoreStep DEF IdleInv, StillExplained

\* At first nothing was asked for.
LEMMA IdleInvInit == Init => IdleInv
<1>. SUFFICES ASSUME Init PROVE IdleInv
  OBVIOUS
<1>1. PendingIsBusy BY DEF Init, PendingIsBusy, InFlight, Calls, NotStarted
<1>2. FollowedIsExplained /\ QuietOnError BY DEF Init, FollowedIsExplained, QuietOnError
<1>3. ShownOnce BY LiveRunAssumption DEF Init, ShownOnce
<1>. QED BY <1>1, <1>2, <1>3 DEF IdleInv, Core

\* Every reachable state satisfies IdleInv.
THEOREM IdleInvariance == Spec => []IdleInv
BY ShowInvariance, IdleInvInit, IdleInvStep, PTL DEF Spec

\* A start in flight has its spinner, however many starts were superseded before
\* it; only the catch block of configure and cancel, which compares no
\* generation, turns it off.
THEOREM PendingStartsAreBusy == Spec => []PendingIsBusy
<1>1. IdleInv => PendingIsBusy BY DEF IdleInv, Core
<1>. QED BY <1>1, IdleInvariance, PTL

\* No spinner, no error, no report and no end: that state is never on the
\* screen of a hook that was asked for a run, unless the effect or the polling
\* call that ends it is already due.
THEOREM IdleHooksSayWhy == Spec => []IdleIsExplained
<1>1. IdleInv => IdleIsExplained
  BY DEF IdleInv, Core, QuietOnError, FollowedIsExplained, IdleIsExplained, Polling
<1>. QED BY <1>1, IdleInvariance, PTL
=============================================================================
