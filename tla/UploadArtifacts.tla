-------------------------- MODULE UploadArtifacts ---------------------------
(***************************************************************************)
(* The life of uploaded sources: uploads/service.py and uploads/store.py,  *)
(* the startup of main.py, and the binding of an upload to a run in        *)
(* services.py.  A source is a directory of the artifact store and a row   *)
(* of upload_artifacts, changed by different system calls: a directory     *)
(* operation and a commit are separate steps, and the process may stop     *)
(* between them.                                                           *)
(*                                                                         *)
(* POST /uploads is an async endpoint that does not await between its      *)
(* cleanup and its commit, so the event loop serves one at a time; it is   *)
(* the actor loop.  create_run runs in a thread of its own, a Creator.     *)
(* Time is one bit per row: whether its 24 hours are over.  An upload is   *)
(* named by the identifier it will get, a run by the one it will.          *)
(***************************************************************************)
EXTENDS Naturals, FiniteSets

CONSTANTS
    Uploads,     \* identifiers store hands out (uuid4: never twice)
    Runs,        \* identifiers create_run hands out
    Creators,    \* request threads that create runs
    Nothing,     \* Python's None
    MaxRaces,    \* bound on uploads that expire while a run is created over them
    MaxCrashes   \* bound on process stops

VARIABLES
    directory,  \* store.root / upload_id
    record,     \* the rows of upload_artifacts
    expired,    \* the uploads whose expires_at has passed
    source,     \* runs.upload_id of the runs that exist
    status,     \* "active" or "terminal", for the runs that exist
    loop,       \* what the event loop (or the startup) is doing
    creator,    \* what each creating thread is doing
    races,
    crashes

store == <<directory, record>>
runs == <<source, status>>
bounds == <<races, crashes>>
vars == <<store, expired, runs, loop, creator, bounds>>

\* "temporary": only root/.tmp_* exists.
Directories == {"none", "temporary", "stored"}
Rows == [state : {"none", "available", "deleted"}, bound : Runs \cup {Nothing}]
NoRow == [state |-> "none", bound |-> Nothing]

LoopSteps == {"down", "serving", "scan", "delete", "store", "replace", "insert"}
\* at is the upload being accepted, Nothing during the startup; seen the rows a
\* cleanup read, todo those it has not decided on, gone those it deleted.
LoopStates == [pc : LoopSteps, at : Uploads \cup {Nothing},
               seen : [Uploads -> Rows] \cup {Nothing},
               todo : SUBSET Uploads, gone : SUBSET Uploads]
Loop(pc) == [pc |-> pc, at |-> Nothing, seen |-> Nothing, todo |-> {}, gone |-> {}]

ASSUME ArtifactAssumption ==
    /\ Nothing \notin Uploads \cup Runs \cup [Uploads -> Rows]
    /\ MaxRaces \in Nat
    /\ MaxCrashes \in Nat

Existing == DOMAIN source
Serving == loop.pc = "serving" \/ loop.at # Nothing
Creating(u) == \E c \in Creators : creator[c] = u

Init ==
    /\ directory = [u \in Uploads |-> "none"]
    /\ record = [u \in Uploads |-> NoRow]
    /\ expired = {}
    /\ source = << >>
    /\ status = << >>
    /\ loop = Loop("down")
    /\ creator = [c \in Creators |-> Nothing]
    /\ races = 0
    /\ crashes = 0

-----------------------------------------------------------------------------
(* The event loop: startup and uploads.                                     *)

\* lifespan: the cleanup runs before the first request is served.
Boot ==
    /\ loop.pc = "down"
    /\ loop' = Loop("scan")
    /\ UNCHANGED <<store, expired, runs, creator, bounds>>

\* POST /uploads, once the body has been read.
Upload(u) ==
    /\ loop.pc = "serving"
    /\ directory[u] = "none"
    /\ record[u] = NoRow
    /\ loop' = [Loop("scan") EXCEPT !.at = u]
    /\ UNCHANGED <<store, expired, runs, creator, bounds>>

\* Mutant: expires_at is not compared.
CleanupScanAll ==
    /\ loop.pc = "scan"
    /\ loop' = [loop EXCEPT !.pc = "delete", !.seen = record,
                            !.todo = {u \in Uploads : record[u].state = "available"}]
    /\ UNCHANGED <<store, expired, runs, creator, bounds>>

\* cleanup_expired_uploads takes the time, then reads the rows not yet deleted.
CleanupScan ==
    /\ loop.pc = "scan"
    /\ loop' = [loop EXCEPT !.pc = "delete", !.seen = record,
                            !.todo = {u \in expired : record[u].state = "available"}]
    /\ UNCHANGED <<store, expired, runs, creator, bounds>>

\* Mutant: the run of a bound upload is not looked at.
InUseNever(u) == FALSE

\* The row as it was read, the run it names as it is now.
InUse(u) == /\ loop.seen[u].bound \in Existing
            /\ status[loop.seen[u].bound] = "active"

CleanupArtifact(u) ==
    /\ loop.pc = "delete"
    /\ u \in loop.todo
    /\ IF InUse(u)
       THEN /\ loop' = [loop EXCEPT !.todo = @ \ {u}]
            /\ UNCHANGED directory
       ELSE /\ directory' = [directory EXCEPT ![u] = "none"]
            /\ loop' = [loop EXCEPT !.todo = @ \ {u}, !.gone = @ \cup {u}]
    /\ UNCHANGED <<record, expired, runs, creator, bounds>>

AfterCleanup == IF loop.at = Nothing THEN Loop("serving")
                ELSE [Loop("store") EXCEPT !.at = loop.at]

\* Mutant: every expired row is marked, those in use too.
CleanupCommitAll ==
    /\ loop.pc = "delete"
    /\ loop.todo = {}
    /\ record' = [u \in Uploads |->
                    IF u \in expired THEN [record[u] EXCEPT !.state = "deleted"]
                    ELSE record[u]]
    /\ loop' = AfterCleanup
    /\ UNCHANGED <<directory, expired, runs, creator, bounds>>

\* The state and deleted_at of the rows, and nothing else of them.
CleanupCommit ==
    /\ loop.pc = "delete"
    /\ loop.todo = {}
    /\ record' = [u \in Uploads |->
                    IF u \in loop.gone THEN [record[u] EXCEPT !.state = "deleted"]
                    ELSE record[u]]
    /\ loop' = AfterCleanup
    /\ UNCHANGED <<directory, expired, runs, creator, bounds>>

\* A removal or the commit raises: the request is a 500, the startup an exit.
CleanupRaises ==
    /\ loop.pc = "delete"
    /\ loop' = IF loop.at = Nothing THEN Loop("down") ELSE Loop("serving")
    /\ UNCHANGED <<store, expired, runs, creator, bounds>>

\* validate_source refuses: an audit row is all that is written.
Reject ==
    /\ loop.pc = "store"
    /\ loop' = Loop("serving")
    /\ UNCHANGED <<store, expired, runs, creator, bounds>>

\* ArtifactStore.store fills a temporary directory and renames it.
StoreTemporary ==
    /\ loop.pc = "store"
    /\ directory' = [directory EXCEPT ![loop.at] = "temporary"]
    /\ loop' = [loop EXCEPT !.pc = "replace"]
    /\ UNCHANGED <<record, expired, runs, creator, bounds>>

StoreReplace ==
    /\ loop.pc = "replace"
    /\ \/ /\ directory' = [directory EXCEPT ![loop.at] = "stored"]
          /\ loop' = [loop EXCEPT !.pc = "insert"]
       \/ /\ directory' = [directory EXCEPT ![loop.at] = "none"]
          /\ loop' = Loop("serving")
    /\ UNCHANGED <<record, expired, runs, creator, bounds>>

\* Mutant: the directory stays when the commit raises.
AcceptCommitKeepsDirectory ==
    /\ loop.pc = "insert"
    /\ \/ record' = [record EXCEPT ![loop.at] = [state |-> "available", bound |-> Nothing]]
       \/ UNCHANGED record
    /\ loop' = Loop("serving")
    /\ UNCHANGED <<directory, expired, runs, creator, bounds>>

\* accept_upload: the row, or the directory taken back when the commit raises.
AcceptCommit ==
    /\ loop.pc = "insert"
    /\ \/ /\ record' = [record EXCEPT ![loop.at] = [state |-> "available", bound |-> Nothing]]
          /\ UNCHANGED directory
       \/ /\ directory' = [directory EXCEPT ![loop.at] = "none"]
          /\ UNCHANGED record
    /\ loop' = Loop("serving")
    /\ UNCHANGED <<expired, runs, creator, bounds>>

LoopNext == \/ Boot \/ CleanupScan \/ CleanupCommit \/ CleanupRaises \/ Reject
            \/ StoreTemporary \/ StoreReplace \/ AcceptCommit
            \/ \E u \in Uploads : Upload(u) \/ CleanupArtifact(u)

-----------------------------------------------------------------------------
(* Runs over an upload.                                                     *)

\* _source_artifact: the row is read and found usable; otherwise 404, 410, 409.
CreateRead(c, u) ==
    /\ Serving
    /\ creator[c] = Nothing
    /\ record[u] = [state |-> "available", bound |-> Nothing]
    /\ u \notin expired
    /\ creator' = [creator EXCEPT ![c] = u]
    /\ UNCHANGED <<store, expired, runs, loop, bounds>>

\* Mutant: the UPDATE lost its condition.
ClaimableAlways(u) == TRUE

\* The UPDATE that claims the row, if it is still unbound, and the run's row,
\* in one transaction.
Claimable(u) == record[u].bound = Nothing

CreateCommit(c, r) ==
    LET u == creator[c] IN
    /\ u # Nothing
    /\ r \notin Existing
    /\ creator' = [creator EXCEPT ![c] = Nothing]
    /\ IF Claimable(u)
       THEN /\ record' = [record EXCEPT ![u].bound = r]
            /\ source' = [x \in Existing \cup {r} |-> IF x = r THEN u ELSE source[x]]
            /\ status' = [x \in Existing \cup {r} |-> IF x = r THEN "active" ELSE status[x]]
       ELSE UNCHANGED <<record, runs>>
    /\ UNCHANGED <<directory, expired, loop, bounds>>

\* Mutant: a status nobody else knows.
RunEndsUnknown(r) ==
    /\ Serving
    /\ r \in Existing
    /\ status[r] = "active"
    /\ status' = [status EXCEPT ![r] = "ended"]
    /\ UNCHANGED <<store, expired, source, loop, creator, bounds>>

\* A run completes, fails or is cancelled.
RunEnds(r) ==
    /\ Serving
    /\ r \in Existing
    /\ status[r] = "active"
    /\ status' = [status EXCEPT ![r] = "terminal"]
    /\ UNCHANGED <<store, expired, source, loop, creator, bounds>>

-----------------------------------------------------------------------------

\* Time passes expires_at.
Expire(u) ==
    /\ record[u].state = "available"
    /\ u \notin expired
    /\ IF Creating(u) THEN races < MaxRaces /\ races' = races + 1
                      ELSE UNCHANGED races
    /\ expired' = expired \cup {u}
    /\ UNCHANGED <<store, runs, loop, creator, crashes>>

\* The process stops; directories and committed rows stay.
Crash ==
    /\ loop.pc # "down"
    /\ crashes < MaxCrashes
    /\ crashes' = crashes + 1
    /\ loop' = Loop("down")
    /\ creator' = [c \in Creators |-> Nothing]
    /\ UNCHANGED <<store, expired, runs, races>>

Next == \/ LoopNext
        \/ \E c \in Creators : \/ \E u \in Uploads : CreateRead(c, u)
                               \/ \E r \in Runs : CreateCommit(c, r)
        \/ \E r \in Runs : RunEnds(r)
        \/ \E u \in Uploads : Expire(u)
        \/ Crash

Spec == Init /\ [][Next]_vars

-----------------------------------------------------------------------------
(* Properties.                                                              *)

\* Every variable has its type (models.py).
TypeOK ==
    /\ directory \in [Uploads -> Directories]
    /\ record \in [Uploads -> Rows]
    /\ expired \in SUBSET Uploads
    /\ Existing \subseteq Runs
    /\ source \in [Existing -> Uploads]
    /\ status \in [Existing -> {"active", "terminal"}]
    /\ loop \in LoopStates
    /\ creator \in [Creators -> Uploads \cup {Nothing}]
    /\ races \in 0..MaxRaces
    /\ crashes \in 0..MaxCrashes

\* An upload is the source of one run at most, however many requests found it
\* unbound, and the row names that run: the guarded UPDATE decides.
ClaimedOnce ==
    \A r \in Existing : record[source[r]].bound = r

\* A row a client may still build a run on has its directory, whatever call
\* raised and wherever the process stopped: directory first, row second.
AvailableHasSource ==
    \A u \in Uploads \ expired :
        record[u].state = "available" => directory[u] = "stored"

\* The retention holds on disk once a row says so: the directory goes first.
DeletedHasNoSource ==
    \A u \in Uploads : record[u].state = "deleted" => directory[u] = "none"

\* As long as the process has not died, what is on disk is known to the
\* database or belongs to the upload in progress, so a cleanup can find it.
NoOrphanWithoutCrash ==
    crashes = 0 => \A u \in Uploads :
        directory[u] # "none" => record[u].state = "available" \/ loop.at = u

\* An active run has the source it was created over, expired or not
\* (test_upload_api.py:154).
ActiveRunKeepsSource ==
    \A r \in Existing : status[r] = "active" => directory[source[r]] = "stored"

\* It has it at least when no upload expired while a run was created over it.
SourceKeptWithoutRace == races = 0 => ActiveRunKeepsSource

=============================================================================
