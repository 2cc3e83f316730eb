---------------------------- MODULE VerifyScripts ----------------------------
(***************************************************************************)
(* frontend/scripts/verify-real-*.mjs: scripts that start a backend of     *)
(* their own in a temporary directory, drive the application in a browser, *)
(* and take everything down; and verify-responsive-layout.mjs, which looks *)
(* at the screens without one.  They are run one after another, and all    *)
(* backends use the same port; a process that was not stopped outlives its *)
(* script.  The preview server and the browser end with the script.        *)
(*                                                                         *)
(* What a group of page assertions looks at is left out: it passes or      *)
(* throws, and passes only with the backend it talks to.                   *)
(***************************************************************************)
EXTENDS Naturals, Sequences

CONSTANT MaxScripts  \* how many scripts are run

VARIABLES
    platform,       \* process.platform
    kind,           \* the script
    pc,             \* where it is
    phase,          \* how many groups of assertions have passed
    failed,         \* whether the try block threw
    cleanupFailed,  \* whether cleanup throws
    tempRoot,       \* its temporary directory
    process,        \* the backend it spawned
    answeredBy,     \* the scripts whose backends answered it
    failures        \* what its cleanup tried in vain: taskkill, rm

vars == <<platform, kind, pc, phase, failed, cleanupFailed, tempRoot, process, answeredBy, failures>>

ASSUME MaxScriptsAssumption == MaxScripts \in Nat

Scripts == 1..MaxScripts
Kinds == {"upload", "benchmark", "custom", "layout"}

Trying == {"provider", "tempRoot", "backend", "health", "preview", "browser", "checks"}
Cleaning == {"closing", "stopping", "exiting", "forcing", "gone", "removing"}
Over == {"ended", "crashed"}

Alive == {"starting", "serving", "terminated", "killed"}

Init ==
    /\ platform \in {"win32", "posix"}
    /\ kind \in [Scripts -> Kinds]
    /\ pc = [i \in Scripts |-> "idle"]
    /\ phase = [i \in Scripts |-> 0]
    /\ failed = [i \in Scripts |-> FALSE]
    /\ cleanupFailed = [i \in Scripts |-> FALSE]
    /\ tempRoot = [i \in Scripts |-> "none"]
    /\ process = [i \in Scripts |-> "none"]
    /\ answeredBy = [i \in Scripts |-> {}]
    /\ failures = [i \in Scripts |-> {}]

-----------------------------------------------------------------------------
(* The backend processes.                                                   *)

Serving(j) == process[j] = "serving"

Becomes(j, p) == process' = [process EXCEPT ![j] = p]

Rest(i) == UNCHANGED <<platform, kind, phase, failed, cleanupFailed, tempRoot, answeredBy, failures>>

\* uvicorn binds the port, or finds it taken and exits.
Bind(j) ==
    /\ process[j] = "starting"
    /\ Becomes(j, IF \E k \in Scripts : Serving(k) THEN "exited" ELSE "serving")
    /\ UNCHANGED pc /\ Rest(j)

\* It ends by itself, or as it was told.
Exit(j) ==
    /\ process[j] \in Alive
    /\ Becomes(j, "exited")
    /\ UNCHANGED pc /\ Rest(j)

-----------------------------------------------------------------------------
(* The try block.                                                           *)

Goes(i, p) == pc' = [pc EXCEPT ![i] = p]

\* The first call that is awaited.
FirstStep == [upload |-> "tempRoot", benchmark |-> "tempRoot",
              custom |-> "provider", layout |-> "preview"]

Invoke(i) ==
    /\ pc[i] = "idle"
    /\ \A j \in 1..(i - 1) : pc[j] \in Over
    /\ Goes(i, FirstStep[kind[i]])
    /\ UNCHANGED process /\ Rest(i)

\* The stand-in for the model provider listens.
Listen(i) ==
    /\ pc[i] = "provider"
    /\ Goes(i, "tempRoot")
    /\ UNCHANGED process /\ Rest(i)

MakeTempRoot(i) ==
    /\ pc[i] = "tempRoot"
    /\ Goes(i, "backend")
    /\ tempRoot' = [tempRoot EXCEPT ![i] = "there"]
    /\ UNCHANGED <<platform, kind, phase, failed, cleanupFailed, process, answeredBy, failures>>

Spawn(i) ==
    /\ pc[i] = "backend"
    /\ Becomes(i, "starting")
    /\ Goes(i, "health")
    /\ Rest(i)

\* Only the upload script listens for the error event of spawn; without a
\* listener it ends the script.
SpawnFails(i) ==
    /\ pc[i] = "backend"
    /\ Becomes(i, "unspawned")
    /\ Goes(i, IF kind[i] = "upload" THEN "health" ELSE "crashed")
    /\ Rest(i)

\* Whoever answers at the port.
WaitForHealth(i) ==
    /\ pc[i] = "health"
    /\ \E j \in Scripts :
          /\ Serving(j)
          /\ answeredBy' = [answeredBy EXCEPT ![i] = @ \cup {j}]
    /\ Goes(i, "preview")
    /\ UNCHANGED <<platform, kind, phase, failed, cleanupFailed, tempRoot, process, failures>>

StartPreview(i) ==
    /\ pc[i] = "preview"
    /\ Goes(i, "browser")
    /\ UNCHANGED process /\ Rest(i)

LaunchBrowser(i) ==
    /\ pc[i] = "browser"
    /\ Goes(i, "checks")
    /\ UNCHANGED process /\ Rest(i)

\* The groups of assertions of the scripts, in their order.
UploadChecks == <<"clean", "repair", "refresh", "syntax", "aborted">>
BenchmarkChecks == <<"overview", "task", "repair", "refresh">>
CustomChecks == <<"clean", "repair", "refresh">>
LayoutChecks == <<"narrow", "wide">>

Phases(k) == CASE k = "upload" -> UploadChecks
               [] k = "benchmark" -> BenchmarkChecks
               [] k = "custom" -> CustomChecks
               [] k = "layout" -> LayoutChecks

\* The overview and the empty screens of the layout ask the backend nothing,
\* and the aborted call never leaves the page.
NeedsBackend(check) == check \notin {"overview", "aborted", "narrow", "wide"}

\* Only the backend of a custom script has a model provider to call.
Suits(i, j) == kind[i] = "custom" => kind[j] = "custom"

\* Mutant: a group is counted twice.
CheckCountsTwice(i) ==
    /\ pc[i] = "checks"
    /\ phase[i] < Len(Phases(kind[i]))
    /\ phase' = [phase EXCEPT ![i] = @ + 2]
    /\ \/ ~NeedsBackend(Phases(kind[i])[phase[i] + 1])
       \/ \E j \in Scripts : Serving(j) /\ Suits(i, j)
    /\ UNCHANGED <<platform, kind, pc, failed, cleanupFailed, tempRoot, process, answeredBy, failures>>

Check(i) ==
    /\ pc[i] = "checks"
    /\ phase[i] < Len(Phases(kind[i]))
    /\ phase' = [phase EXCEPT ![i] = @ + 1]
    /\ IF NeedsBackend(Phases(kind[i])[phase[i] + 1])
       THEN \E j \in Scripts :
               /\ Serving(j)
               /\ Suits(i, j)
               /\ answeredBy' = [answeredBy EXCEPT ![i] = @ \cup {j}]
       ELSE UNCHANGED answeredBy
    /\ UNCHANGED <<platform, kind, pc, failed, cleanupFailed, tempRoot, process, failures>>

Checked(i) ==
    /\ pc[i] = "checks"
    /\ phase[i] = Len(Phases(kind[i]))
    /\ Goes(i, "closing")
    /\ UNCHANGED process /\ Rest(i)

\* A step fails, an assertion does not hold, or a deadline passes.
Throws(i) ==
    /\ pc[i] \in Trying \ {"backend"}
    /\ kind[i] = "layout" => pc[i] = "checks"
    /\ failed' = [failed EXCEPT ![i] = TRUE]
    /\ Goes(i, "closing")
    /\ UNCHANGED <<platform, kind, phase, cleanupFailed, tempRoot, process, answeredBy, failures>>

\* The layout script starts its server and browser outside its try block.
ThrowsUncaught(i) ==
    /\ pc[i] \in {"preview", "browser"}
    /\ kind[i] = "layout"
    /\ Goes(i, "crashed")
    /\ UNCHANGED process /\ Rest(i)

-----------------------------------------------------------------------------
(* The finally block.                                                       *)

\* The benchmark and the custom script swallow the errors of their cleanup.
CleanupError(i) ==
    cleanupFailed' = [cleanupFailed EXCEPT ![i] = @ \/ kind[i] \in {"upload", "layout"}]

Fails(i, what) == failures' = [failures EXCEPT ![i] = @ \cup {what}]

\* browser.close and server.close; each may reject.
Close(i) ==
    /\ pc[i] = "closing"
    /\ Goes(i, IF kind[i] = "layout" THEN "ended" ELSE "stopping")
    /\ CleanupError(i) \/ UNCHANGED cleanupFailed
    /\ UNCHANGED <<platform, kind, phase, failed, tempRoot, process, answeredBy, failures>>

\* Mutant: the exit is not waited for.
StopBackendAtOnce(i) ==
    /\ pc[i] = "stopping"
    /\ kind[i] = "upload"
    /\ Becomes(i, IF process[i] \in Alive THEN "terminated" ELSE process[i])
    /\ Goes(i, "removing")
    /\ Rest(i)

\* stopBackend up to its second wait: kill, which may throw, unless it has exited.
StopBackend(i) ==
    /\ pc[i] = "stopping"
    /\ kind[i] = "upload"
    /\ IF process[i] \in Alive
       THEN /\ \/ Becomes(i, IF platform = "win32" THEN "killed" ELSE "terminated")
               \/ platform = "win32" /\ UNCHANGED process
            /\ Goes(i, "exiting")
       ELSE UNCHANGED process /\ Goes(i, "removing")
    /\ Rest(i)

\* waitForBackendExit: it has exited, or three seconds have passed.
WaitForBackendExit(i) ==
    /\ pc[i] = "exiting"
    /\ Goes(i, IF process[i] \in Alive THEN "forcing" ELSE "removing")
    /\ UNCHANGED process /\ Rest(i)

\* SIGKILL, or taskkill, which alone may fail and says nothing of it.
KillTree(i) ==
    IF process[i] \in Alive
    THEN \/ Becomes(i, "killed") /\ UNCHANGED failures
         \/ platform = "win32" /\ UNCHANGED process /\ Fails(i, "taskkill")
    ELSE UNCHANGED <<process, failures>>

\* forceTerminateBackendTree.
ForceTerminate(i) ==
    /\ pc[i] = "forcing"
    /\ Goes(i, "gone")
    /\ KillTree(i)
    /\ UNCHANGED <<platform, kind, phase, failed, cleanupFailed, tempRoot, answeredBy>>

\* Mutant: a backend that does not exit is not reported.
GoneUnreported(i) ==
    /\ pc[i] = "gone"
    /\ Goes(i, IF process[i] \in Alive THEN "ended" ELSE "removing")
    /\ UNCHANGED process /\ Rest(i)

\* The last wait: the directory is removed only after the exit.
Gone(i) ==
    /\ pc[i] = "gone"
    /\ IF process[i] \in Alive
       THEN CleanupError(i) /\ Goes(i, "ended")
       ELSE UNCHANGED cleanupFailed /\ Goes(i, "removing")
    /\ UNCHANGED <<platform, kind, phase, failed, tempRoot, process, answeredBy, failures>>

\* Mutant: the processes are left to the system.
StopTreeLeaves(i) ==
    /\ pc[i] = "stopping"
    /\ kind[i] # "upload"
    /\ Goes(i, "removing")
    /\ UNCHANGED process /\ Rest(i)

\* stopTree of the other scripts: kill, and do not wait.
StopTree(i) ==
    /\ pc[i] = "stopping"
    /\ kind[i] # "upload"
    /\ Goes(i, "removing")
    /\ KillTree(i)
    /\ UNCHANGED <<platform, kind, phase, failed, cleanupFailed, tempRoot, answeredBy>>

\* rm, which may give up.
RemoveTempRoot(i) ==
    /\ pc[i] = "removing"
    /\ Goes(i, "ended")
    /\ \/ /\ tempRoot' = [tempRoot EXCEPT ![i] = IF @ = "there" THEN "removed" ELSE @]
          /\ UNCHANGED <<cleanupFailed, failures>>
       \/ /\ tempRoot[i] = "there"
          /\ CleanupError(i)
          /\ Fails(i, "rm")
          /\ UNCHANGED tempRoot
    /\ UNCHANGED <<platform, kind, phase, failed, process, answeredBy>>

-----------------------------------------------------------------------------

TryStep(i) == \/ Listen(i) \/ MakeTempRoot(i) \/ Spawn(i) \/ SpawnFails(i)
              \/ WaitForHealth(i) \/ StartPreview(i) \/ LaunchBrowser(i)
              \/ Check(i) \/ Checked(i) \/ Throws(i) \/ ThrowsUncaught(i)

CleanupStep(i) == \/ Close(i) \/ StopBackend(i) \/ WaitForBackendExit(i)
                  \/ ForceTerminate(i) \/ Gone(i) \/ StopTree(i) \/ RemoveTempRoot(i)

Next == \E i \in Scripts : \/ Invoke(i) \/ TryStep(i) \/ CleanupStep(i)
                           \/ Bind(i) \/ Exit(i)

Spec == Init /\ [][Next]_vars

-----------------------------------------------------------------------------

\* What the variables range over.
TypeOK ==
    /\ platform \in {"win32", "posix"}
    /\ kind \in [Scripts -> Kinds]
    /\ pc \in [Scripts -> {"idle"} \cup Trying \cup Cleaning \cup Over]
    /\ phase \in [Scripts -> 0..5]
    /\ failed \in [Scripts -> BOOLEAN]
    /\ cleanupFailed \in [Scripts -> BOOLEAN]
    /\ tempRoot \in [Scripts -> {"none", "there", "removed"}]
    /\ process \in [Scripts -> {"none", "unspawned", "exited"} \cup Alive]
    /\ answeredBy \in [Scripts -> SUBSET Scripts]
    /\ failures \in [Scripts -> SUBSET {"taskkill", "rm"}]

Passed(i) == pc[i] = "ended" /\ ~failed[i] /\ ~cleanupFailed[i]

\* The upload script removes the directory of a backend only once it is gone:
\* no database, artifact or work directory goes under a process that writes.
RemovedRootIsUnused ==
    \A i \in Scripts : kind[i] = "upload" /\ tempRoot[i] = "removed" =>
                           process[i] \notin Alive

\* What a script that passes may leave behind: its directory if rm gave up, and
\* its backend if taskkill failed, or killed and about to exit.  An upload script
\* that passes leaves neither, for it waits for the exit and reports the rest.
PassedLeavesNothing ==
    \A i \in Scripts : Passed(i) =>
        /\ tempRoot[i] = "there" => "rm" \in failures[i]
        /\ process[i] \in Alive \ {"killed"} => "taskkill" \in failures[i]
        /\ kind[i] = "upload" => tempRoot[i] = "removed" /\ process[i] \notin Alive

\* A script checks the backend it started.  Another one can answer it only if
\* the taskkill of its script failed, and an upload script has reported that.
AnsweredByItsOwn ==
    \A i, j \in Scripts : j \in answeredBy[i] /\ i # j =>
        "taskkill" \in failures[j] /\ (kind[j] = "upload" => cleanupFailed[j])
=============================================================================
