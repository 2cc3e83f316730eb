----------------------- MODULE UploadArtifactsProofs ------------------------
(***************************************************************************)
(* The invariants of the uploaded sources, for every number of uploads,    *)
(* runs, creating threads, races and stops.                                *)
(***************************************************************************)
EXTENDS UploadArtifacts, TLAPS

\* The upload being accepted has no row yet, and no directory before store.
Accepting ==
    /\ loop.at # Nothing =>
         /\ record[loop.at] = NoRow
         /\ loop.pc \in {"scan", "delete", "store"} => directory[loop.at] = "none"
         /\ loop.pc = "insert" => directory[loop.at] = "stored"
    /\ loop.pc \in {"store", "replace", "insert"} => loop.at # Nothing
    /\ loop.pc \in {"down", "serving"} => loop.at = Nothing

\* A cleanup only holds rows that are expired and still available, and those
\* it is about to mark have lost their directory.
Cleaning ==
    /\ loop.pc = "scan" => loop.gone = {}
    /\ loop.pc = "delete" =>
         /\ loop.seen \in [Uploads -> Rows]
         /\ \A u \in loop.todo \cup loop.gone :
               u \in expired /\ record[u].state = "available"
         /\ \A u \in loop.gone : directory[u] = "none"

\* A creating thread has read a row, so its upload was accepted.
CreatorsHaveRead ==
    \A c \in Creators : creator[c] # Nothing => record[creator[c]].state # "none"

\* Without a race, a creating thread's upload is live, and what a cleanup read
\* of the rows it decides on is still what they say.
NothingRaced ==
    races = 0 =>
        /\ \A c \in Creators : creator[c] # Nothing =>
              record[creator[c]].state = "available" /\ creator[c] \notin expired
        /\ loop.pc = "delete" =>
              \A u \in loop.todo : loop.seen[u].bound = record[u].bound

Safe == ClaimedOnce /\ AvailableHasSource /\ DeletedHasNoSource
        /\ NoOrphanWithoutCrash /\ SourceKeptWithoutRace

Helped == Accepting /\ Cleaning /\ CreatorsHaveRead /\ NothingRaced

IInv == TypeOK /\ Helped /\ Safe

USE DEF Existing, Directories, Rows, NoRow, LoopSteps, LoopStates, Loop

\* The invariant holds before the first startup.
LEMMA InitIInv == Init => IInv
  <1>1. SUFFICES ASSUME Init PROVE IInv
    OBVIOUS
  <1> USE <1>1, ArtifactAssumption DEF Init
  <1>2. TypeOK
    BY DEF TypeOK
  <1>3. Helped
    BY DEF Helped, Accepting, Cleaning, CreatorsHaveRead, NothingRaced
  <1>4. Safe
    BY DEF Safe, ClaimedOnce, AvailableHasSource, DeletedHasNoSource,
           NoOrphanWithoutCrash, SourceKeptWithoutRace, ActiveRunKeepsSource
  <1>5. QED
    BY <1>2, <1>3, <1>4 DEF IInv

\* Starting up touches nothing yet.
LEMMA BootKeeps ==
  ASSUME IInv, Boot PROVE IInv'
  <1> USE ArtifactAssumption DEF IInv, Boot, store, runs, bounds
  <1>1. TypeOK'
    BY DEF TypeOK
  <1>2. Helped'
    <2> USE DEF Helped, Safe, TypeOK
    <2>1. Accepting'
      BY DEF Accepting, Cleaning, CreatorsHaveRead
    <2>2. Cleaning'
      BY DEF Accepting, Cleaning
    <2>3. CreatorsHaveRead'
      BY DEF Accepting, Cleaning, CreatorsHaveRead
    <2>4. NothingRaced'
      BY DEF Accepting, Cleaning, CreatorsHaveRead, NothingRaced
    <2>5. QED
      BY <2>1, <2>2, <2>3, <2>4
  <1>3. Safe'
    <2> USE DEF Helped, Safe, TypeOK
    <2>1. ClaimedOnce'
      BY DEF ClaimedOnce, Accepting, Cleaning
    <2>2. AvailableHasSource'
      BY DEF AvailableHasSource, Accepting, Cleaning
    <2>3. DeletedHasNoSource'
      BY DEF DeletedHasNoSource, Accepting, Cleaning, CreatorsHaveRead
    <2>4. NoOrphanWithoutCrash'
      BY DEF NoOrphanWithoutCrash, Accepting, Cleaning, CreatorsHaveRead
    <2>5. SourceKeptWithoutRace'
      BY DEF SourceKeptWithoutRace, ActiveRunKeepsSource, ClaimedOnce,
             AvailableHasSource, Accepting, Cleaning, NothingRaced
    <2>6. QED
      BY <2>1, <2>2, <2>3, <2>4, <2>5
  <1>4. QED
    BY <1>1, <1>2, <1>3

\* A new upload begins without row and without directory.
LEMMA UploadKeeps ==
  ASSUME NEW u \in Uploads, IInv, Upload(u) PROVE IInv'
  <1> USE ArtifactAssumption DEF IInv, Upload, store, runs, bounds
  <1>1. TypeOK'
    BY DEF TypeOK
  <1>2. Helped'
    <2> USE DEF Helped, Safe, TypeOK
    <2>1. Accepting'
      BY DEF Accepting, Cleaning, CreatorsHaveRead
    <2>2. Cleaning'
      BY DEF Accepting, Cleaning
    <2>3. CreatorsHaveRead'
      BY DEF Accepting, Cleaning, CreatorsHaveRead
    <2>4. NothingRaced'
      BY DEF Accepting, Cleaning, CreatorsHaveRead, NothingRaced
    <2>5. QED
      BY <2>1, <2>2, <2>3, <2>4
  <1>3. Safe'
    <2> USE DEF Helped, Safe, TypeOK
    <2>1. ClaimedOnce'
      BY DEF ClaimedOnce, Accepting, Cleaning
    <2>2. AvailableHasSource'
      BY DEF AvailableHasSource, Accepting, Cleaning
    <2>3. DeletedHasNoSource'
      BY DEF DeletedHasNoSource, Accepting, Cleaning, CreatorsHaveRead
    <2>4. NoOrphanWithoutCrash'
      BY DEF NoOrphanWithoutCrash, Accepting, Cleaning, CreatorsHaveRead
    <2>5. SourceKeptWithoutRace'
      BY DEF SourceKeptWithoutRace, ActiveRunKeepsSource, ClaimedOnce,
             AvailableHasSource, Accepting, Cleaning, NothingRaced
    <2>6. QED
      BY <2>1, <2>2, <2>3, <2>4, <2>5
  <1>4. QED
    BY <1>1, <1>2, <1>3

\* What a cleanup has just read is what the rows say.
LEMMA CleanupScanKeeps ==
  ASSUME IInv, CleanupScan PROVE IInv'
  <1> USE ArtifactAssumption DEF IInv, CleanupScan, store, runs, bounds
  <1>1. TypeOK'
    BY DEF TypeOK
  <1>2. Helped'
    <2> USE DEF Helped, Safe, TypeOK
    <2>1. Accepting'
      BY DEF Accepting, Cleaning, CreatorsHaveRead
    <2>2. Cleaning'
      BY DEF Accepting, Cleaning
    <2>3. CreatorsHaveRead'
      BY DEF Accepting, Cleaning, CreatorsHaveRead
    <2>4. NothingRaced'
      BY DEF Accepting, Cleaning, CreatorsHaveRead, NothingRaced
    <2>5. QED
      BY <2>1, <2>2, <2>3, <2>4
  <1>3. Safe'
    <2> USE DEF Helped, Safe, TypeOK
    <2>1. ClaimedOnce'
      BY DEF ClaimedOnce, Accepting, Cleaning
    <2>2. AvailableHasSource'
      BY DEF AvailableHasSource, Accepting, Cleaning
    <2>3. DeletedHasNoSource'
      BY DEF DeletedHasNoSource, Accepting, Cleaning, CreatorsHaveRead
    <2>4. NoOrphanWithoutCrash'
      BY DEF NoOrphanWithoutCrash, Accepting, Cleaning, CreatorsHaveRead
    <2>5. SourceKeptWithoutRace'
      BY DEF SourceKeptWithoutRace, ActiveRunKeepsSource, ClaimedOnce,
             AvailableHasSource, Accepting, Cleaning, NothingRaced
    <2>6. QED
      BY <2>1, <2>2, <2>3, <2>4, <2>5
  <1>4. QED
    BY <1>1, <1>2, <1>3

\* A cleanup deletes only directories of expired uploads, and none in use
\* unless a creation raced it.
LEMMA CleanupArtifactKeeps ==
  ASSUME NEW u \in Uploads, IInv, CleanupArtifact(u) PROVE IInv'
  <1> USE ArtifactAssumption DEF IInv, CleanupArtifact, InUse, store, runs, bounds
  <1>a. /\ loop' \in LoopStates
        /\ loop'.pc = "delete" /\ loop'.at = loop.at /\ loop'.seen = loop.seen
        /\ loop'.todo = loop.todo \ {u}
        /\ \/ loop'.gone = loop.gone /\ directory' = directory
           \/ /\ loop'.gone = loop.gone \cup {u}
              /\ directory' = [directory EXCEPT ![u] = "none"]
    <2> USE DEF TypeOK
    <2>1. CASE InUse(u)
      <3>1. loop' = [loop EXCEPT !.todo = @ \ {u}] /\ directory' = directory
        BY <2>1
      <3>2. QED
        BY <3>1
    <2>2. CASE ~InUse(u)
      <3>1. /\ loop' = [loop EXCEPT !.todo = @ \ {u}, !.gone = @ \cup {u}]
            /\ directory' = [directory EXCEPT ![u] = "none"]
        BY <2>2
      <3>2. QED
        BY <3>1
    <2>3. QED
      BY <2>1, <2>2
  <1>1. TypeOK'
    <2> USE DEF TypeOK
    <2>1. directory' \in [Uploads -> Directories]
      OBVIOUS
    <2>2. record' \in [Uploads -> Rows]
      OBVIOUS
    <2>3. expired' \in SUBSET Uploads
      OBVIOUS
    <2>4. /\ Existing' \subseteq Runs
         /\ source' \in [Existing' -> Uploads]
         /\ status' \in [Existing' -> {"active", "terminal"}]
      OBVIOUS
    <2>5. loop' \in LoopStates
      BY <1>a
    <2>6. creator' \in [Creators -> Uploads \cup {Nothing}]
      OBVIOUS
    <2>7. races' \in 0..MaxRaces /\ crashes' \in 0..MaxCrashes
      OBVIOUS
    <2>8. QED
      BY <2>1, <2>2, <2>3, <2>4, <2>5, <2>6, <2>7
  <1>2. Helped'
    <2> USE DEF Helped, Safe, TypeOK
    <2>1. Accepting'
      BY <1>a DEF Accepting, Cleaning, CreatorsHaveRead
    <2>2. Cleaning'
      BY <1>a DEF Accepting, Cleaning
    <2>3. CreatorsHaveRead'
      BY <1>a DEF Accepting, Cleaning, CreatorsHaveRead
    <2>4. NothingRaced'
      BY <1>a DEF Accepting, Cleaning, CreatorsHaveRead, NothingRaced
    <2>5. QED
      BY <2>1, <2>2, <2>3, <2>4
  <1>3. Safe'
    <2> USE DEF Helped, Safe, TypeOK
    <2>1. ClaimedOnce'
      BY DEF ClaimedOnce, Accepting, Cleaning
    <2>2. AvailableHasSource'
      BY DEF AvailableHasSource, Accepting, Cleaning
    <2>3. DeletedHasNoSource'
      BY DEF DeletedHasNoSource, Accepting, Cleaning, CreatorsHaveRead
    <2>4. NoOrphanWithoutCrash'
      BY DEF NoOrphanWithoutCrash, Accepting, Cleaning, CreatorsHaveRead
    <2>5. SourceKeptWithoutRace'
      BY DEF SourceKeptWithoutRace, ActiveRunKeepsSource, ClaimedOnce,
             AvailableHasSource, Accepting, Cleaning, NothingRaced
    <2>6. QED
      BY <2>1, <2>2, <2>3, <2>4, <2>5
  <1>4. QED
    BY <1>1, <1>2, <1>3

\* The rows marked deleted are those whose directory is gone.
LEMMA CleanupCommitKeeps ==
  ASSUME IInv, CleanupCommit PROVE IInv'
  <1> USE ArtifactAssumption DEF IInv, CleanupCommit, AfterCleanup, store, runs, bounds
  <1>1. TypeOK'
    <2> USE DEF TypeOK
    <2>1. directory' \in [Uploads -> Directories]
      OBVIOUS
    <2>2. record' \in [Uploads -> Rows]
      OBVIOUS
    <2>3. expired' \in SUBSET Uploads
      OBVIOUS
    <2>4. /\ Existing' \subseteq Runs
         /\ source' \in [Existing' -> Uploads]
         /\ status' \in [Existing' -> {"active", "terminal"}]
      OBVIOUS
    <2>5. loop' \in LoopStates
      OBVIOUS
    <2>6. creator' \in [Creators -> Uploads \cup {Nothing}]
      OBVIOUS
    <2>7. races' \in 0..MaxRaces /\ crashes' \in 0..MaxCrashes
      OBVIOUS
    <2>8. QED
      BY <2>1, <2>2, <2>3, <2>4, <2>5, <2>6, <2>7
  <1>2. Helped'
    <2> USE DEF Helped, Safe, TypeOK
    <2>1. Accepting'
      BY DEF Accepting, Cleaning, CreatorsHaveRead
    <2>2. Cleaning'
      BY DEF Accepting, Cleaning
    <2>3. CreatorsHaveRead'
      BY DEF Accepting, Cleaning, CreatorsHaveRead
    <2>4. NothingRaced'
      BY DEF Accepting, Cleaning, CreatorsHaveRead, NothingRaced
    <2>5. QED
      BY <2>1, <2>2, <2>3, <2>4
  <1>3. Safe'
    <2> USE DEF Helped, Safe, TypeOK
    <2>1. ClaimedOnce'
      BY DEF ClaimedOnce, Accepting, Cleaning
    <2>2. AvailableHasSource'
      BY DEF AvailableHasSource, Accepting, Cleaning
    <2>3. DeletedHasNoSource'
      BY DEF DeletedHasNoSource, Accepting, Cleaning, CreatorsHaveRead
    <2>4. NoOrphanWithoutCrash'
      BY DEF NoOrphanWithoutCrash, Accepting, Cleaning, CreatorsHaveRead
    <2>5. SourceKeptWithoutRace'
      BY DEF SourceKeptWithoutRace, ActiveRunKeepsSource, ClaimedOnce,
             AvailableHasSource, Accepting, Cleaning, NothingRaced
    <2>6. QED
      BY <2>1, <2>2, <2>3, <2>4, <2>5
  <1>4. QED
    BY <1>1, <1>2, <1>3

\* A cleanup that raises leaves its rows available, and all of them expired.
LEMMA CleanupRaisesKeeps ==
  ASSUME IInv, CleanupRaises PROVE IInv'
  <1> USE ArtifactAssumption DEF IInv, CleanupRaises, store, runs, bounds
  <1>1. TypeOK'
    BY DEF TypeOK
  <1>2. Helped'
    <2> USE DEF Helped, Safe, TypeOK
    <2>1. Accepting'
      BY DEF Accepting, Cleaning, CreatorsHaveRead
    <2>2. Cleaning'
      BY DEF Accepting, Cleaning
    <2>3. CreatorsHaveRead'
      BY DEF Accepting, Cleaning, CreatorsHaveRead
    <2>4. NothingRaced'
      BY DEF Accepting, Cleaning, CreatorsHaveRead, NothingRaced
    <2>5. QED
      BY <2>1, <2>2, <2>3, <2>4
  <1>3. Safe'
    <2> USE DEF Helped, Safe, TypeOK
    <2>1. ClaimedOnce'
      BY DEF ClaimedOnce, Accepting, Cleaning
    <2>2. AvailableHasSource'
      BY DEF AvailableHasSource, Accepting, Cleaning
    <2>3. DeletedHasNoSource'
      BY DEF DeletedHasNoSource, Accepting, Cleaning, CreatorsHaveRead
    <2>4. NoOrphanWithoutCrash'
      BY DEF NoOrphanWithoutCrash, Accepting, Cleaning, CreatorsHaveRead
    <2>5. SourceKeptWithoutRace'
      BY DEF SourceKeptWithoutRace, ActiveRunKeepsSource, ClaimedOnce,
             AvailableHasSource, Accepting, Cleaning, NothingRaced
    <2>6. QED
      BY <2>1, <2>2, <2>3, <2>4, <2>5
  <1>4. QED
    BY <1>1, <1>2, <1>3

\* A rejected upload has left nothing.
LEMMA RejectKeeps ==
  ASSUME IInv, Reject PROVE IInv'
  <1> USE ArtifactAssumption DEF IInv, Reject, store, runs, bounds
  <1>1. TypeOK'
    BY DEF TypeOK
  <1>2. Helped'
    <2> USE DEF Helped, Safe, TypeOK
    <2>1. Accepting'
      BY DEF Accepting, Cleaning, CreatorsHaveRead
    <2>2. Cleaning'
      BY DEF Accepting, Cleaning
    <2>3. CreatorsHaveRead'
      BY DEF Accepting, Cleaning, CreatorsHaveRead
    <2>4. NothingRaced'
      BY DEF Accepting, Cleaning, CreatorsHaveRead, NothingRaced
    <2>5. QED
      BY <2>1, <2>2, <2>3, <2>4
  <1>3. Safe'
    <2> USE DEF Helped, Safe, TypeOK
    <2>1. ClaimedOnce'
      BY DEF ClaimedOnce, Accepting, Cleaning
    <2>2. AvailableHasSource'
      BY DEF AvailableHasSource, Accepting, Cleaning
    <2>3. DeletedHasNoSource'
      BY DEF DeletedHasNoSource, Accepting, Cleaning, CreatorsHaveRead
    <2>4. NoOrphanWithoutCrash'
      BY DEF NoOrphanWithoutCrash, Accepting, Cleaning, CreatorsHaveRead
    <2>5. SourceKeptWithoutRace'
      BY DEF SourceKeptWithoutRace, ActiveRunKeepsSource, ClaimedOnce,
             AvailableHasSource, Accepting, Cleaning, NothingRaced
    <2>6. QED
      BY <2>1, <2>2, <2>3, <2>4, <2>5
  <1>4. QED
    BY <1>1, <1>2, <1>3

\* The temporary directory belongs to the upload in progress.
LEMMA StoreTemporaryKeeps ==
  ASSUME IInv, StoreTemporary PROVE IInv'
  <1> USE ArtifactAssumption DEF IInv, StoreTemporary, store, runs, bounds
  <1>1. TypeOK'
    BY DEF TypeOK
  <1>2. Helped'
    <2> USE DEF Helped, Safe, TypeOK
    <2>1. Accepting'
      BY DEF Accepting, Cleaning, CreatorsHaveRead
    <2>2. Cleaning'
      BY DEF Accepting, Cleaning
    <2>3. CreatorsHaveRead'
      BY DEF Accepting, Cleaning, CreatorsHaveRead
    <2>4. NothingRaced'
      BY DEF Accepting, Cleaning, CreatorsHaveRead, NothingRaced
    <2>5. QED
      BY <2>1, <2>2, <2>3, <2>4
  <1>3. Safe'
    <2> USE DEF Helped, Safe, TypeOK
    <2>1. ClaimedOnce'
      BY DEF ClaimedOnce, Accepting, Cleaning
    <2>2. AvailableHasSource'
      BY DEF AvailableHasSource, Accepting, Cleaning
    <2>3. DeletedHasNoSource'
      BY DEF DeletedHasNoSource, Accepting, Cleaning, CreatorsHaveRead
    <2>4. NoOrphanWithoutCrash'
      BY DEF NoOrphanWithoutCrash, Accepting, Cleaning, CreatorsHaveRead
    <2>5. SourceKeptWithoutRace'
      BY DEF SourceKeptWithoutRace, ActiveRunKeepsSource, ClaimedOnce,
             AvailableHasSource, Accepting, Cleaning, NothingRaced
    <2>6. QED
      BY <2>1, <2>2, <2>3, <2>4, <2>5
  <1>4. QED
    BY <1>1, <1>2, <1>3

\* A store ends with the directory in place or gone.
LEMMA StoreReplaceKeeps ==
  ASSUME IInv, StoreReplace PROVE IInv'
  <1> USE ArtifactAssumption DEF IInv, StoreReplace, store, runs, bounds
  <1>1. TypeOK'
    <2> USE DEF TypeOK
    <2>1. directory' \in [Uploads -> Directories]
      OBVIOUS
    <2>2. record' \in [Uploads -> Rows]
      OBVIOUS
    <2>3. expired' \in SUBSET Uploads
      OBVIOUS
    <2>4. /\ Existing' \subseteq Runs
         /\ source' \in [Existing' -> Uploads]
         /\ status' \in [Existing' -> {"active", "terminal"}]
      OBVIOUS
    <2>5. loop' \in LoopStates
      OBVIOUS
    <2>6. creator' \in [Creators -> Uploads \cup {Nothing}]
      OBVIOUS
    <2>7. races' \in 0..MaxRaces /\ crashes' \in 0..MaxCrashes
      OBVIOUS
    <2>8. QED
      BY <2>1, <2>2, <2>3, <2>4, <2>5, <2>6, <2>7
  <1>2. Helped'
    <2> USE DEF Helped, Safe, TypeOK
    <2>1. Accepting'
      BY DEF Accepting, Cleaning, CreatorsHaveRead
    <2>2. Cleaning'
      BY DEF Accepting, Cleaning
    <2>3. CreatorsHaveRead'
      BY DEF Accepting, Cleaning, CreatorsHaveRead
    <2>4. NothingRaced'
      BY DEF Accepting, Cleaning, CreatorsHaveRead, NothingRaced
    <2>5. QED
      BY <2>1, <2>2, <2>3, <2>4
  <1>3. Safe'
    <2> USE DEF Helped, Safe, TypeOK
    <2>1. ClaimedOnce'
      BY DEF ClaimedOnce, Accepting, Cleaning
    <2>2. AvailableHasSource'
      BY DEF AvailableHasSource, Accepting, Cleaning
    <2>3. DeletedHasNoSource'
      BY DEF DeletedHasNoSource, Accepting, Cleaning, CreatorsHaveRead
    <2>4. NoOrphanWithoutCrash'
      BY DEF NoOrphanWithoutCrash, Accepting, Cleaning, CreatorsHaveRead
    <2>5. SourceKeptWithoutRace'
      BY DEF SourceKeptWithoutRace, ActiveRunKeepsSource, ClaimedOnce,
             AvailableHasSource, Accepting, Cleaning, NothingRaced
    <2>6. QED
      BY <2>1, <2>2, <2>3, <2>4, <2>5
  <1>4. QED
    BY <1>1, <1>2, <1>3

\* An accepted upload has both its row and its directory, any other neither.
LEMMA AcceptCommitKeeps ==
  ASSUME IInv, AcceptCommit PROVE IInv'
  <1> USE ArtifactAssumption DEF IInv, AcceptCommit, store, runs, bounds
  <1>a. /\ loop.at \in Uploads /\ loop'.pc = "serving" /\ loop'.at = Nothing
        /\ \A u \in Uploads \ {loop.at} :
             record'[u] = record[u] /\ directory'[u] = directory[u]
        /\ \/ directory'[loop.at] = "stored" /\ record'[loop.at].state = "available"
           \/ directory'[loop.at] = "none" /\ record'[loop.at] = NoRow
    BY DEF TypeOK, Helped, Accepting
  <1>1. TypeOK'
    <2> USE DEF TypeOK
    <2>1. directory' \in [Uploads -> Directories]
      OBVIOUS
    <2>2. record' \in [Uploads -> Rows]
      OBVIOUS
    <2>3. expired' \in SUBSET Uploads
      OBVIOUS
    <2>4. /\ Existing' \subseteq Runs
         /\ source' \in [Existing' -> Uploads]
         /\ status' \in [Existing' -> {"active", "terminal"}]
      OBVIOUS
    <2>5. loop' \in LoopStates
      OBVIOUS
    <2>6. creator' \in [Creators -> Uploads \cup {Nothing}]
      OBVIOUS
    <2>7. races' \in 0..MaxRaces /\ crashes' \in 0..MaxCrashes
      OBVIOUS
    <2>8. QED
      BY <2>1, <2>2, <2>3, <2>4, <2>5, <2>6, <2>7
  <1>2. Helped'
    <2> USE DEF Helped, Safe, TypeOK
    <2>1. Accepting'
      BY DEF Accepting, Cleaning, CreatorsHaveRead
    <2>2. Cleaning'
      BY DEF Accepting, Cleaning
    <2>3. CreatorsHaveRead'
      BY DEF Accepting, Cleaning, CreatorsHaveRead
    <2>4. NothingRaced'
      BY DEF Accepting, Cleaning, CreatorsHaveRead, NothingRaced
    <2>5. QED
      BY <2>1, <2>2, <2>3, <2>4
  <1>3. Safe'
    <2> USE DEF Helped, Safe, TypeOK
    <2>1. ClaimedOnce'
      BY DEF ClaimedOnce, Accepting, Cleaning
    <2>2. AvailableHasSource'
      BY <1>a DEF AvailableHasSource, Accepting, Cleaning
    <2>3. DeletedHasNoSource'
      BY DEF DeletedHasNoSource, Accepting, Cleaning, CreatorsHaveRead
    <2>4. NoOrphanWithoutCrash'
      BY <1>a DEF NoOrphanWithoutCrash, Accepting, Cleaning, CreatorsHaveRead
    <2>5. SourceKeptWithoutRace'
      BY DEF SourceKeptWithoutRace, ActiveRunKeepsSource, ClaimedOnce,
             AvailableHasSource, Accepting, Cleaning, NothingRaced
    <2>6. QED
      BY <2>1, <2>2, <2>3, <2>4, <2>5
  <1>4. QED
    BY <1>1, <1>2, <1>3

\* A creation goes on only over a live upload.
LEMMA CreateReadKeeps ==
  ASSUME NEW c \in Creators, NEW u \in Uploads, IInv, CreateRead(c, u) PROVE IInv'
  <1> USE ArtifactAssumption DEF IInv, CreateRead, Serving, store, runs, bounds
  <1>1. TypeOK'
    BY DEF TypeOK
  <1>2. Helped'
    <2> USE DEF Helped, Safe, TypeOK
    <2>1. Accepting'
      BY DEF Accepting, Cleaning, CreatorsHaveRead
    <2>2. Cleaning'
      BY DEF Accepting, Cleaning
    <2>3. CreatorsHaveRead'
      BY DEF Accepting, Cleaning, CreatorsHaveRead
    <2>4. NothingRaced'
      BY DEF Accepting, Cleaning, CreatorsHaveRead, NothingRaced
    <2>5. QED
      BY <2>1, <2>2, <2>3, <2>4
  <1>3. Safe'
    <2> USE DEF Helped, Safe, TypeOK
    <2>1. ClaimedOnce'
      BY DEF ClaimedOnce, Accepting, Cleaning
    <2>2. AvailableHasSource'
      BY DEF AvailableHasSource, Accepting, Cleaning
    <2>3. DeletedHasNoSource'
      BY DEF DeletedHasNoSource, Accepting, Cleaning, CreatorsHaveRead
    <2>4. NoOrphanWithoutCrash'
      BY DEF NoOrphanWithoutCrash, Accepting, Cleaning, CreatorsHaveRead
    <2>5. SourceKeptWithoutRace'
      BY DEF SourceKeptWithoutRace, ActiveRunKeepsSource, ClaimedOnce,
             AvailableHasSource, Accepting, Cleaning, NothingRaced
    <2>6. QED
      BY <2>1, <2>2, <2>3, <2>4, <2>5
  <1>4. QED
    BY <1>1, <1>2, <1>3

\* A claim takes an unbound row; if nothing raced, no cleanup holds that row.
LEMMA CreateCommitKeeps ==
  ASSUME NEW c \in Creators, NEW r \in Runs, IInv, CreateCommit(c, r) PROVE IInv'
  <1> USE ArtifactAssumption DEF IInv, CreateCommit, Claimable, store, runs, bounds
  <1>a. /\ creator[c] \in Uploads
        /\ \A u \in Uploads : /\ record'[u].state = record[u].state
                              /\ u # creator[c] => record'[u] = record[u]
    BY DEF TypeOK
  <1>1. TypeOK'
    <2> USE DEF TypeOK
    <2>1. directory' \in [Uploads -> Directories]
      OBVIOUS
    <2>2. record' \in [Uploads -> Rows]
      OBVIOUS
    <2>3. expired' \in SUBSET Uploads
      OBVIOUS
    <2>4. /\ Existing' \subseteq Runs
         /\ source' \in [Existing' -> Uploads]
         /\ status' \in [Existing' -> {"active", "terminal"}]
      <3>1. CASE Claimable(creator[c])
        <4>1. /\ source' = [x \in Existing \cup {r} |-> IF x = r THEN creator[c] ELSE source[x]]
              /\ status' = [x \in Existing \cup {r} |-> IF x = r THEN "active" ELSE status[x]]
          BY <3>1
        <4>2. DOMAIN source' = DOMAIN source \cup {r}
          BY <4>1
        <4>3. QED
          BY <1>a, <4>1, <4>2
      <3>2. CASE ~Claimable(creator[c])
        BY <3>2
      <3>3. QED
        BY <3>1, <3>2
    <2>5. loop' \in LoopStates
      OBVIOUS
    <2>6. creator' \in [Creators -> Uploads \cup {Nothing}]
      OBVIOUS
    <2>7. races' \in 0..MaxRaces /\ crashes' \in 0..MaxCrashes
      OBVIOUS
    <2>8. QED
      BY <2>1, <2>2, <2>3, <2>4, <2>5, <2>6, <2>7
  <1>2. Helped'
    <2> USE DEF Helped, Safe, TypeOK
    <2>1. Accepting'
      BY DEF Accepting, Cleaning, CreatorsHaveRead
    <2>2. Cleaning'
      BY <1>a DEF Accepting, Cleaning
    <2>3. CreatorsHaveRead'
      BY DEF Accepting, Cleaning, CreatorsHaveRead
    <2>4. NothingRaced'
      <3>1. SUFFICES ASSUME races = 0 PROVE NothingRaced'
        BY DEF NothingRaced
      <3>2. loop.pc = "delete" => creator[c] \notin loop.todo
        BY <1>a, <3>1 DEF NothingRaced, Cleaning
      <3>3. \A d \in Creators : creator'[d] # Nothing =>
              record'[creator'[d]].state = "available" /\ creator'[d] \notin expired'
        BY <1>a, <3>1 DEF NothingRaced
      <3>4. loop'.pc = "delete" =>
              \A u \in loop'.todo : loop'.seen[u].bound = record'[u].bound
        BY <1>a, <3>1, <3>2 DEF NothingRaced
      <3>5. QED
        BY <3>3, <3>4 DEF NothingRaced
    <2>5. QED
      BY <2>1, <2>2, <2>3, <2>4
  <1>3. Safe'
    <2> USE DEF Helped, Safe, TypeOK
    <2>1. ClaimedOnce'
      BY DEF ClaimedOnce, Accepting, Cleaning
    <2>2. AvailableHasSource'
      BY DEF AvailableHasSource, Accepting, Cleaning
    <2>3. DeletedHasNoSource'
      BY DEF DeletedHasNoSource, Accepting, Cleaning, CreatorsHaveRead
    <2>4. NoOrphanWithoutCrash'
      BY DEF NoOrphanWithoutCrash, Accepting, Cleaning, CreatorsHaveRead
    <2>5. SourceKeptWithoutRace'
      BY DEF SourceKeptWithoutRace, ActiveRunKeepsSource, ClaimedOnce,
             AvailableHasSource, Accepting, Cleaning, NothingRaced
    <2>6. QED
      BY <2>1, <2>2, <2>3, <2>4, <2>5
  <1>4. QED
    BY <1>1, <1>2, <1>3

\* A run that ends needs its source no longer.
LEMMA RunEndsKeeps ==
  ASSUME NEW r \in Runs, IInv, RunEnds(r) PROVE IInv'
  <1> USE ArtifactAssumption DEF IInv, RunEnds, Serving, store, runs, bounds
  <1>1. TypeOK'
    BY DEF TypeOK
  <1>2. Helped'
    <2> USE DEF Helped, Safe, TypeOK
    <2>1. Accepting'
      BY DEF Accepting, Cleaning, CreatorsHaveRead
    <2>2. Cleaning'
      BY DEF Accepting, Cleaning
    <2>3. CreatorsHaveRead'
      BY DEF Accepting, Cleaning, CreatorsHaveRead
    <2>4. NothingRaced'
      BY DEF Accepting, Cleaning, CreatorsHaveRead, NothingRaced
    <2>5. QED
      BY <2>1, <2>2, <2>3, <2>4
  <1>3. Safe'
    <2> USE DEF Helped, Safe, TypeOK
    <2>1. ClaimedOnce'
      BY DEF ClaimedOnce, Accepting, Cleaning
    <2>2. AvailableHasSource'
      BY DEF AvailableHasSource, Accepting, Cleaning
    <2>3. DeletedHasNoSource'
      BY DEF DeletedHasNoSource, Accepting, Cleaning, CreatorsHaveRead
    <2>4. NoOrphanWithoutCrash'
      BY DEF NoOrphanWithoutCrash, Accepting, Cleaning, CreatorsHaveRead
    <2>5. SourceKeptWithoutRace'
      BY DEF SourceKeptWithoutRace, ActiveRunKeepsSource, ClaimedOnce,
             AvailableHasSource, Accepting, Cleaning, NothingRaced
    <2>6. QED
      BY <2>1, <2>2, <2>3, <2>4, <2>5
  <1>4. QED
    BY <1>1, <1>2, <1>3

\* An expiry under a creation counts as a race, and any other harms nobody.
LEMMA ExpireKeeps ==
  ASSUME NEW u \in Uploads, IInv, Expire(u) PROVE IInv'
  <1> USE ArtifactAssumption DEF IInv, Expire, Creating, store, runs, bounds
  <1>1. TypeOK'
    BY DEF TypeOK
  <1>2. Helped'
    <2> USE DEF Helped, Safe, TypeOK
    <2>1. Accepting'
      BY DEF Accepting, Cleaning, CreatorsHaveRead
    <2>2. Cleaning'
      BY DEF Accepting, Cleaning
    <2>3. CreatorsHaveRead'
      BY DEF Accepting, Cleaning, CreatorsHaveRead
    <2>4. NothingRaced'
      BY DEF Accepting, Cleaning, CreatorsHaveRead, NothingRaced
    <2>5. QED
      BY <2>1, <2>2, <2>3, <2>4
  <1>3. Safe'
    <2> USE DEF Helped, Safe, TypeOK
    <2>1. ClaimedOnce'
      BY DEF ClaimedOnce, Accepting, Cleaning
    <2>2. AvailableHasSource'
      BY DEF AvailableHasSource, Accepting, Cleaning
    <2>3. DeletedHasNoSource'
      BY DEF DeletedHasNoSource, Accepting, Cleaning, CreatorsHaveRead
    <2>4. NoOrphanWithoutCrash'
      BY DEF NoOrphanWithoutCrash, Accepting, Cleaning, CreatorsHaveRead
    <2>5. SourceKeptWithoutRace'
      BY DEF SourceKeptWithoutRace, ActiveRunKeepsSource, ClaimedOnce,
             AvailableHasSource, Accepting, Cleaning, NothingRaced
    <2>6. QED
      BY <2>1, <2>2, <2>3, <2>4, <2>5
  <1>4. QED
    BY <1>1, <1>2, <1>3

\* A stop leaves rows and directories as they are.
LEMMA CrashKeeps ==
  ASSUME IInv, Crash PROVE IInv'
  <1> USE ArtifactAssumption DEF IInv, Crash, store, runs, bounds
  <1>1. TypeOK'
    BY DEF TypeOK
  <1>2. Helped'
    <2> USE DEF Helped, Safe, TypeOK
    <2>1. Accepting'
      BY DEF Accepting, Cleaning, CreatorsHaveRead
    <2>2. Cleaning'
      BY DEF Accepting, Cleaning
    <2>3. CreatorsHaveRead'
      BY DEF Accepting, Cleaning, CreatorsHaveRead
    <2>4. NothingRaced'
      BY DEF Accepting, Cleaning, CreatorsHaveRead, NothingRaced
    <2>5. QED
      BY <2>1, <2>2, <2>3, <2>4
  <1>3. Safe'
    <2> USE DEF Helped, Safe, TypeOK
    <2>1. ClaimedOnce'
      BY DEF ClaimedOnce, Accepting, Cleaning
    <2>2. AvailableHasSource'
      BY DEF AvailableHasSource, Accepting, Cleaning
    <2>3. DeletedHasNoSource'
      BY DEF DeletedHasNoSource, Accepting, Cleaning, CreatorsHaveRead
    <2>4. NoOrphanWithoutCrash'
      BY DEF NoOrphanWithoutCrash, Accepting, Cleaning, CreatorsHaveRead
    <2>5. SourceKeptWithoutRace'
      BY DEF SourceKeptWithoutRace, ActiveRunKeepsSource, ClaimedOnce,
             AvailableHasSource, Accepting, Cleaning, NothingRaced
    <2>6. QED
      BY <2>1, <2>2, <2>3, <2>4, <2>5
  <1>4. QED
    BY <1>1, <1>2, <1>3

\* A step that changes nothing keeps everything.
LEMMA StutterKeeps ==
  ASSUME IInv, UNCHANGED vars PROVE IInv'
  BY DEF IInv, TypeOK, Helped, Safe, Accepting, Cleaning, CreatorsHaveRead,
         NothingRaced, ClaimedOnce, AvailableHasSource, DeletedHasNoSource,
         NoOrphanWithoutCrash, SourceKeptWithoutRace, ActiveRunKeepsSource,
         vars, store, runs, bounds

\* Every step keeps the invariant.
LEMMA NextKeeps ==
  ASSUME IInv, [Next]_vars PROVE IInv'
  <1>1. CASE LoopNext
    <2>1. ASSUME NEW u \in Uploads, Upload(u) \/ CleanupArtifact(u) PROVE IInv'
      BY <2>1, UploadKeeps, CleanupArtifactKeeps
    <2>2. QED
      BY <1>1, <2>1, BootKeeps, CleanupScanKeeps, CleanupCommitKeeps,
         CleanupRaisesKeeps, RejectKeeps, StoreTemporaryKeeps, StoreReplaceKeeps,
         AcceptCommitKeeps DEF LoopNext
  <1>2. ASSUME NEW c \in Creators, NEW u \in Uploads, CreateRead(c, u) PROVE IInv'
    BY <1>2, CreateReadKeeps
  <1>3. ASSUME NEW c \in Creators, NEW r \in Runs, CreateCommit(c, r) PROVE IInv'
    BY <1>3, CreateCommitKeeps
  <1>4. ASSUME NEW r \in Runs, RunEnds(r) PROVE IInv'
    BY <1>4, RunEndsKeeps
  <1>5. ASSUME NEW u \in Uploads, Expire(u) PROVE IInv'
    BY <1>5, ExpireKeeps
  <1>6. CASE Crash
    BY <1>6, CrashKeeps
  <1>7. CASE UNCHANGED vars
    BY <1>7, StutterKeeps
  <1>8. QED
    BY <1>1, <1>2, <1>3, <1>4, <1>5, <1>6, <1>7 DEF Next

\* Every reachable state satisfies the inductive invariant.
THEOREM Invariant == Spec => []IInv
  BY InitIInv, NextKeeps, PTL DEF Spec

\* Every variable keeps its type, however directory operations, commits,
\* expiries and stops interleave.
THEOREM TypeCorrect == Spec => []TypeOK
  <1>1. IInv => TypeOK
    BY DEF IInv
  <1>2. QED
    BY <1>1, Invariant, PTL

\* _source_artifact's guarded UPDATE makes every claim exclusive: no two runs
\* have the same upload.
THEOREM ClaimsAreExclusive == Spec => []ClaimedOnce
  <1>1. IInv => ClaimedOnce
    BY DEF IInv, Safe
  <1>2. QED
    BY <1>1, Invariant, PTL

\* A row that offers a source has its directory, whatever raised and wherever
\* the process stopped.
THEOREM UsableRowsHaveSources == Spec => []AvailableHasSource
  <1>1. IInv => AvailableHasSource
    BY DEF IInv, Safe
  <1>2. QED
    BY <1>1, Invariant, PTL

\* A row marked deleted has lost its directory: nothing the user was told is
\* gone stays behind.
THEOREM DeletedRowsHaveNone == Spec => []DeletedHasNoSource
  <1>1. IInv => DeletedHasNoSource
    BY DEF IInv, Safe
  <1>2. QED
    BY <1>1, Invariant, PTL

\* accept_upload takes its directory back whatever raises: only a stop of the
\* process leaves a directory the database does not know.
THEOREM OnlyCrashesOrphan == Spec => []NoOrphanWithoutCrash
  <1>1. IInv => NoOrphanWithoutCrash
    BY DEF IInv, Safe
  <1>2. QED
    BY <1>1, Invariant, PTL

\* An active run loses its source only to an upload that expired while the run
\* was being created: every other order of the two endpoints is safe.
THEOREM SourceLostOnlyToRaces == Spec => []SourceKeptWithoutRace
  <1>1. IInv => SourceKeptWithoutRace
    BY DEF IInv, Safe
  <1>2. QED
    BY <1>1, Invariant, PTL

=============================================================================
