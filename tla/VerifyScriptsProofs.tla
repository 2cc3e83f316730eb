------------------------- MODULE VerifyScriptsProofs -------------------------
(***************************************************************************)
(* The invariants of VerifyScripts, for any number of scripts.             *)
(*                                                                         *)
(* The scripts follow each other (InOrder), a process comes from Spawn     *)
(* alone (Cleaned says what each step of the finally block has made of     *)
(* it), and a directory that was not made is a failure (Rooted).           *)
(***************************************************************************)
EXTENDS VerifyScripts, TLAPS

Unstarted == {"idle", "provider", "tempRoot"}

\* No two scripts run at once, and a script not yet run has no process.
InOrder ==
    /\ \A i, j \in Scripts : j < i /\ pc[i] # "idle" => pc[j] \in Over
    /\ \A i \in Scripts : pc[i] \in Unstarted \cup {"backend", "crashed"} =>
                              process[i] \notin Alive

\* What is left of the process at each step of the finally block.
Cleaned ==
    \A i \in Scripts :
        /\ kind[i] = "upload" /\ pc[i] = "removing" => process[i] \notin Alive
        /\ kind[i] = "upload" /\ pc[i] = "ended" /\ ~cleanupFailed[i] =>
               process[i] \notin Alive /\ tempRoot[i] # "there"
        /\ kind[i] # "upload" => pc[i] \notin {"exiting", "forcing", "gone"}
        /\ kind[i] = "layout" =>
               /\ pc[i] \in {"idle", "preview", "browser", "checks", "closing"} \cup Over
               /\ process[i] \notin Alive
        /\ pc[i] \in {"gone", "removing", "ended"} /\ process[i] \in Alive \ {"killed"} =>
               "taskkill" \in failures[i]

\* What has become of the directory.
Rooted ==
    \A i \in Scripts :
        /\ tempRoot[i] = "none" /\ pc[i] \notin Unstarted => failed[i] \/ kind[i] = "layout"
        /\ tempRoot[i] = "removed" => pc[i] = "ended"
        /\ kind[i] = "layout" => tempRoot[i] = "none"
        /\ tempRoot[i] = "there" /\ pc[i] = "ended" /\ "rm" \notin failures[i] =>
               kind[i] = "upload" /\ cleanupFailed[i]
        /\ kind[i] = "upload" /\ tempRoot[i] = "removed" => process[i] \notin Alive

IInv == TypeOK /\ InOrder /\ Cleaned /\ Rooted /\ AnsweredByItsOwn

\* The groups of assertions of a script are at most five.
LEMMA PhasesBounded ==
    ASSUME NEW k \in Kinds
    PROVE  Len(Phases(k)) \in 0..5
<1>1. CASE k = "upload"    BY <1>1 DEF Phases, UploadChecks
<1>2. CASE k = "benchmark" BY <1>2 DEF Phases, BenchmarkChecks
<1>3. CASE k = "custom"    BY <1>3 DEF Phases, CustomChecks
<1>4. CASE k = "layout"    BY <1>4 DEF Phases, LayoutChecks
<1>. QED BY <1>1, <1>2, <1>3, <1>4 DEF Kinds

\* Every step keeps the variables within their ranges.
LEMMA TypeStep == TypeOK /\ [Next]_vars => TypeOK'
<1>. SUFFICES ASSUME TypeOK, [Next]_vars PROVE TypeOK'
  OBVIOUS
<1>. USE DEF TypeOK, Trying, Cleaning, Over, Alive
<1>0. CASE UNCHANGED vars BY <1>0 DEF vars
<1>. SUFFICES ASSUME NEW i \in Scripts,
                     Invoke(i) \/ TryStep(i) \/ CleanupStep(i) \/ Bind(i) \/ Exit(i)
              PROVE  TypeOK'
  BY <1>0 DEF Next
<1>1. CASE Invoke(i) BY <1>1 DEF Invoke, Goes, Rest, FirstStep, Kinds
<1>2. CASE TryStep(i)
  <2>1. CASE Listen(i) BY <2>1 DEF Listen, Goes, Rest
  <2>2. CASE MakeTempRoot(i) BY <2>2 DEF MakeTempRoot, Goes
  <2>3. CASE Spawn(i) \/ SpawnFails(i) BY <2>3 DEF Spawn, SpawnFails, Goes, Rest, Becomes
  <2>4. CASE WaitForHealth(i)
    <3>1. PICK j \in Scripts : answeredBy' = [answeredBy EXCEPT ![i] = @ \cup {j}]
      BY <2>4 DEF WaitForHealth
    <3>2. answeredBy' \in [Scripts -> SUBSET Scripts] BY <3>1
    <3>. QED BY <2>4, <3>2 DEF WaitForHealth, Goes
  <2>5. CASE StartPreview(i) BY <2>5 DEF StartPreview, Goes, Rest
  <2>6. CASE LaunchBrowser(i) BY <2>6 DEF LaunchBrowser, Goes, Rest
  <2>7. CASE Check(i)
    <3>1. answeredBy' \in [Scripts -> SUBSET Scripts]
      <4>1. CASE NeedsBackend(Phases(kind[i])[phase[i] + 1])
        <5>1. PICK j \in Scripts : answeredBy' = [answeredBy EXCEPT ![i] = @ \cup {j}]
          BY <2>7, <4>1 DEF Check
        <5>. QED BY <5>1
      <4>2. CASE ~NeedsBackend(Phases(kind[i])[phase[i] + 1])
        BY <2>7, <4>2 DEF Check
      <4>. QED BY <4>1, <4>2
    <3>2. phase[i] + 1 \in 0..5
      <4>1. Len(Phases(kind[i])) \in 0..5 BY PhasesBounded
      <4>2. phase[i] < Len(Phases(kind[i])) BY <2>7 DEF Check
      <4>3. \A p, n \in 0..5 : p < n => p + 1 \in 0..5 OBVIOUS
      <4>. QED BY <4>1, <4>2, <4>3, Zenon
    <3>3. phase' \in [Scripts -> 0..5] BY <2>7, <3>2 DEF Check
    <3>. QED BY <2>7, <3>1, <3>3 DEF Check
  <2>8. CASE Checked(i) BY <2>8 DEF Checked, Goes, Rest
  <2>9. CASE Throws(i) \/ ThrowsUncaught(i) BY <2>9 DEF Throws, ThrowsUncaught, Goes, Rest
  <2>. QED BY <1>2, <2>1, <2>2, <2>3, <2>4, <2>5, <2>6, <2>7, <2>8, <2>9 DEF TryStep
<1>3. CASE CleanupStep(i)
  <2>1. CASE Close(i)
    <3>1. cleanupFailed' \in [Scripts -> BOOLEAN] BY <2>1 DEF Close, CleanupError
    <3>. QED BY <2>1, <3>1 DEF Close, Goes
  <2>2. CASE StopBackend(i) BY <2>2 DEF StopBackend, Goes, Rest, Becomes
  <2>3. CASE WaitForBackendExit(i) BY <2>3 DEF WaitForBackendExit, Goes, Rest
  <2>4. CASE ForceTerminate(i) BY <2>4 DEF ForceTerminate, Goes, KillTree, Becomes, Fails
  <2>5. CASE Gone(i)
    <3>1. cleanupFailed' \in [Scripts -> BOOLEAN] BY <2>5 DEF Gone, CleanupError
    <3>2. pc' \in [Scripts -> {"idle"} \cup Trying \cup Cleaning \cup Over]
      BY <2>5 DEF Gone, Goes
    <3>. QED BY <2>5, <3>1, <3>2 DEF Gone
  <2>6. CASE StopTree(i) BY <2>6 DEF StopTree, Goes, KillTree, Becomes, Fails
  <2>7. CASE RemoveTempRoot(i)
    <3>1. cleanupFailed' \in [Scripts -> BOOLEAN] BY <2>7 DEF RemoveTempRoot, CleanupError
    <3>2. tempRoot' \in [Scripts -> {"none", "there", "removed"}] BY <2>7 DEF RemoveTempRoot
    <3>3. failures' \in [Scripts -> SUBSET {"taskkill", "rm"}] BY <2>7 DEF RemoveTempRoot, Fails
    <3>. QED BY <2>7, <3>1, <3>2, <3>3 DEF RemoveTempRoot, Goes
  <2>. QED BY <1>3, <2>1, <2>2, <2>3, <2>4, <2>5, <2>6, <2>7 DEF CleanupStep
<1>4. CASE Bind(i) BY <1>4 DEF Bind, Becomes, Rest
<1>5. CASE Exit(i) BY <1>5 DEF Exit, Becomes, Rest
<1>. QED BY <1>1, <1>2, <1>3, <1>4, <1>5

\* A step of a script is one of these.
Step(i) == \/ Invoke(i) \/ Listen(i) \/ MakeTempRoot(i) \/ Spawn(i) \/ SpawnFails(i)
           \/ WaitForHealth(i) \/ StartPreview(i) \/ LaunchBrowser(i) \/ Check(i)
           \/ Checked(i) \/ Throws(i) \/ ThrowsUncaught(i)
           \/ Close(i) \/ StopBackend(i) \/ WaitForBackendExit(i) \/ ForceTerminate(i)
           \/ Gone(i) \/ StopTree(i) \/ RemoveTempRoot(i) \/ Bind(i) \/ Exit(i)

\* Next is a step of some script.
LEMMA NextIsStep == Next => \E i \in Scripts : Step(i)
BY Zenon DEF Next, TryStep, CleanupStep, Step

\* The scripts stay in order.
LEMMA OrderStep ==
    ASSUME TypeOK, InOrder, Cleaned, TypeOK', NEW i \in Scripts, Step(i)
    PROVE  InOrder'
<1>. USE DEF TypeOK, InOrder, Cleaned, Trying, Cleaning, Over, Alive, Unstarted, Scripts
<1>1. CASE Invoke(i) BY <1>1 DEF Invoke, Goes, Rest, FirstStep, Kinds
<1>2. CASE Listen(i) BY <1>2 DEF Listen, Goes, Rest
<1>3. CASE MakeTempRoot(i) BY <1>3 DEF MakeTempRoot, Goes
<1>4. CASE Spawn(i) \/ SpawnFails(i) BY <1>4 DEF Spawn, SpawnFails, Goes, Rest, Becomes
<1>5. CASE WaitForHealth(i) BY <1>5 DEF WaitForHealth, Goes
<1>6. CASE StartPreview(i) BY <1>6 DEF StartPreview, Goes, Rest
<1>7. CASE LaunchBrowser(i) BY <1>7 DEF LaunchBrowser, Goes, Rest
<1>8. CASE Check(i) BY <1>8 DEF Check
<1>9. CASE Checked(i) BY <1>9 DEF Checked, Goes, Rest
<1>10. CASE Throws(i) \/ ThrowsUncaught(i)
  BY <1>10 DEF Throws, ThrowsUncaught, Goes, Rest
<1>11. CASE Close(i) BY <1>11 DEF Close, Goes, CleanupError
<1>12. CASE StopBackend(i) BY <1>12 DEF StopBackend, Goes, Rest, Becomes
<1>13. CASE WaitForBackendExit(i) BY <1>13 DEF WaitForBackendExit, Goes, Rest
<1>14. CASE ForceTerminate(i) BY <1>14 DEF ForceTerminate, Goes, KillTree, Becomes, Fails
<1>15. CASE Gone(i) BY <1>15 DEF Gone, Goes, CleanupError
<1>16. CASE StopTree(i) BY <1>16 DEF StopTree, Goes, KillTree, Becomes, Fails
<1>17. CASE RemoveTempRoot(i) BY <1>17 DEF RemoveTempRoot, Goes, CleanupError, Fails
<1>18. CASE Bind(i) BY <1>18 DEF Bind, Becomes, Rest
<1>19. CASE Exit(i) BY <1>19 DEF Exit, Becomes, Rest
<1>. QED BY <1>1, <1>2, <1>3, <1>4, <1>5, <1>6, <1>7, <1>8, <1>9, <1>10,
          <1>11, <1>12, <1>13, <1>14, <1>15, <1>16, <1>17, <1>18, <1>19 DEF Step

\* The finally block leaves what Cleaned says.
LEMMA CleanedStep ==
    ASSUME TypeOK, InOrder, Cleaned, Rooted, TypeOK', NEW i \in Scripts, Step(i)
    PROVE  Cleaned'
<1>. USE DEF TypeOK, InOrder, Cleaned, Rooted, Trying, Cleaning, Over, Alive, Unstarted
<1>1. CASE Invoke(i) BY <1>1 DEF Invoke, Goes, Rest, FirstStep, Kinds
<1>2. CASE Listen(i) BY <1>2 DEF Listen, Goes, Rest
<1>3. CASE MakeTempRoot(i) BY <1>3 DEF MakeTempRoot, Goes
<1>4. CASE Spawn(i) \/ SpawnFails(i) BY <1>4 DEF Spawn, SpawnFails, Goes, Rest, Becomes
<1>5. CASE WaitForHealth(i) BY <1>5 DEF WaitForHealth, Goes
<1>6. CASE StartPreview(i) BY <1>6 DEF StartPreview, Goes, Rest
<1>7. CASE LaunchBrowser(i) BY <1>7 DEF LaunchBrowser, Goes, Rest
<1>8. CASE Check(i) BY <1>8 DEF Check
<1>9. CASE Checked(i) BY <1>9 DEF Checked, Goes, Rest
<1>10. CASE Throws(i) \/ ThrowsUncaught(i)
  BY <1>10 DEF Throws, ThrowsUncaught, Goes, Rest
<1>11. CASE Close(i) BY <1>11 DEF Close, Goes, CleanupError
<1>12. CASE StopBackend(i) BY <1>12 DEF StopBackend, Goes, Rest, Becomes
<1>13. CASE WaitForBackendExit(i) BY <1>13 DEF WaitForBackendExit, Goes, Rest
<1>14. CASE ForceTerminate(i) BY <1>14 DEF ForceTerminate, Goes, KillTree, Becomes, Fails
<1>15. CASE Gone(i) BY <1>15 DEF Gone, Goes, CleanupError
<1>16. CASE StopTree(i) BY <1>16 DEF StopTree, Goes, KillTree, Becomes, Fails
<1>17. CASE RemoveTempRoot(i) BY <1>17 DEF RemoveTempRoot, Goes, CleanupError, Fails
<1>18. CASE Bind(i) BY <1>18 DEF Bind, Becomes, Rest
<1>19. CASE Exit(i) BY <1>19 DEF Exit, Becomes, Rest
<1>. QED BY <1>1, <1>2, <1>3, <1>4, <1>5, <1>6, <1>7, <1>8, <1>9, <1>10,
          <1>11, <1>12, <1>13, <1>14, <1>15, <1>16, <1>17, <1>18, <1>19 DEF Step

\* The directory is what Rooted says.
LEMMA RootedStep ==
    ASSUME TypeOK, InOrder, Cleaned, Rooted, TypeOK', NEW i \in Scripts, Step(i)
    PROVE  Rooted'
<1>. USE DEF TypeOK, InOrder, Cleaned, Rooted, Trying, Cleaning, Over, Alive, Unstarted
<1>1. CASE Invoke(i) BY <1>1 DEF Invoke, Goes, Rest, FirstStep, Kinds
<1>2. CASE Listen(i) BY <1>2 DEF Listen, Goes, Rest
<1>3. CASE MakeTempRoot(i) BY <1>3 DEF MakeTempRoot, Goes
<1>4. CASE Spawn(i) \/ SpawnFails(i) BY <1>4 DEF Spawn, SpawnFails, Goes, Rest, Becomes
<1>5. CASE WaitForHealth(i) BY <1>5 DEF WaitForHealth, Goes
<1>6. CASE StartPreview(i) BY <1>6 DEF StartPreview, Goes, Rest
<1>7. CASE LaunchBrowser(i) BY <1>7 DEF LaunchBrowser, Goes, Rest
<1>8. CASE Check(i) BY <1>8 DEF Check
<1>9. CASE Checked(i) BY <1>9 DEF Checked, Goes, Rest
<1>10. CASE Throws(i) \/ ThrowsUncaught(i)
  BY <1>10 DEF Throws, ThrowsUncaught, Goes, Rest
<1>11. CASE Close(i) BY <1>11 DEF Close, Goes, CleanupError
<1>12. CASE StopBackend(i) BY <1>12 DEF StopBackend, Goes, Rest, Becomes
<1>13. CASE WaitForBackendExit(i) BY <1>13 DEF WaitForBackendExit, Goes, Rest
<1>14. CASE ForceTerminate(i) BY <1>14 DEF ForceTerminate, Goes, KillTree, Becomes, Fails
<1>15. CASE Gone(i) BY <1>15 DEF Gone, Goes, CleanupError
<1>16. CASE StopTree(i) BY <1>16 DEF StopTree, Goes, KillTree, Becomes, Fails
<1>17. CASE RemoveTempRoot(i) BY <1>17 DEF RemoveTempRoot, Goes, CleanupError, Fails
<1>18. CASE Bind(i) BY <1>18 DEF Bind, Becomes, Rest
<1>19. CASE Exit(i) BY <1>19 DEF Exit, Becomes, Rest
<1>. QED BY <1>1, <1>2, <1>3, <1>4, <1>5, <1>6, <1>7, <1>8, <1>9, <1>10,
          <1>11, <1>12, <1>13, <1>14, <1>15, <1>16, <1>17, <1>18, <1>19 DEF Step

\* While a script tries, only another one whose cleanup failed still serves.
LEMMA OthersServing ==
    ASSUME TypeOK, InOrder, Cleaned, NEW i \in Scripts, pc[i] \in {"health", "checks"},
           NEW j \in Scripts, Serving(j), i # j
    PROVE  "taskkill" \in failures[j] /\ (kind[j] = "upload" => cleanupFailed[j])
<1>1. CASE j < i
  <2>1. pc[j] \in Over BY <1>1 DEF InOrder
  <2>2. pc[j] = "ended" BY <2>1 DEF InOrder, Over, Serving, Alive
  <2>. QED BY <2>2 DEF TypeOK, Cleaned, Serving, Alive
<1>2. CASE i < j
  <2>1. pc[j] = "idle" BY <1>2 DEF InOrder, Over
  <2>. QED BY <2>1 DEF InOrder, Serving, Alive, Unstarted
<1>. QED BY <1>1, <1>2 DEF Scripts

\* An answer from another backend comes with its excuse, which stays.
LEMMA AnsweredStep ==
    ASSUME IInv, TypeOK', NEW i \in Scripts, Step(i)
    PROVE  AnsweredByItsOwn'
<1>. SUFFICES ASSUME NEW a \in Scripts, NEW j \in Scripts, j \in answeredBy'[a], a # j
              PROVE  "taskkill" \in failures'[j] /\ (kind'[j] = "upload" => cleanupFailed'[j])
  BY DEF AnsweredByItsOwn
<1>1. kind' = kind
  BY Zenon DEF Step, Rest, Invoke, Listen, MakeTempRoot, Spawn, SpawnFails, WaitForHealth, StartPreview,
     LaunchBrowser, Check, Checked, Throws, ThrowsUncaught, Close, StopBackend, WaitForBackendExit,
     ForceTerminate, Gone, StopTree, RemoveTempRoot, Bind, Exit
<1>2. cleanupFailed[j] => cleanupFailed'[j]
  <2>1. CASE UNCHANGED cleanupFailed BY <2>1
  <2>2. CASE CleanupError(i) BY <2>2 DEF CleanupError, IInv, TypeOK
  <2>3. UNCHANGED cleanupFailed \/ CleanupError(i)
    BY Zenon DEF Step, Rest, Invoke, Listen, MakeTempRoot, Spawn, SpawnFails, WaitForHealth, StartPreview,
       LaunchBrowser, Check, Checked, Throws, ThrowsUncaught, Close, StopBackend, WaitForBackendExit,
       ForceTerminate, Gone, StopTree, RemoveTempRoot, Bind, Exit
  <2>. QED BY <2>1, <2>2, <2>3
<1>6. failures[j] \subseteq failures'[j]
  <2>1. CASE UNCHANGED failures BY <2>1
  <2>2. CASE Fails(i, "taskkill") \/ Fails(i, "rm") BY <2>2 DEF Fails, IInv, TypeOK
  <2>3. UNCHANGED failures \/ Fails(i, "taskkill") \/ Fails(i, "rm")
    BY Zenon DEF Step, Rest, Invoke, Listen, MakeTempRoot, Spawn, SpawnFails, WaitForHealth, StartPreview,
       LaunchBrowser, Check, Checked, Throws, ThrowsUncaught, Close, StopBackend, WaitForBackendExit,
       ForceTerminate, KillTree, Gone, StopTree, RemoveTempRoot, Bind, Exit
  <2>. QED BY <2>1, <2>2, <2>3
<1>3. j \in answeredBy[a] \/ (a = i /\ pc[i] \in {"health", "checks"} /\ Serving(j))
  <2>1. CASE WaitForHealth(i)
    <3>1. PICK s \in Scripts : Serving(s) /\ answeredBy' = [answeredBy EXCEPT ![i] = @ \cup {s}]
      BY <2>1 DEF WaitForHealth
    <3>. QED BY <2>1, <3>1 DEF WaitForHealth, IInv, TypeOK
  <2>2. CASE Check(i)
    <3>1. CASE UNCHANGED answeredBy BY <3>1
    <3>2. ASSUME NEW s \in Scripts, Serving(s),
                 answeredBy' = [answeredBy EXCEPT ![i] = @ \cup {s}]
          PROVE  j \in answeredBy[a] \/ (a = i /\ pc[i] \in {"health", "checks"} /\ Serving(j))
      BY <2>2, <3>2 DEF Check, IInv, TypeOK
    <3>3. \/ UNCHANGED answeredBy
          \/ \E s \in Scripts : Serving(s) /\ answeredBy' = [answeredBy EXCEPT ![i] = @ \cup {s}]
      BY <2>2, Zenon DEF Check
    <3>. QED BY <3>1, <3>2, <3>3
  <2>3. UNCHANGED answeredBy \/ WaitForHealth(i) \/ Check(i)
    BY Zenon DEF Step, Rest, Invoke, Listen, MakeTempRoot, Spawn, SpawnFails, StartPreview,
       LaunchBrowser, Checked, Throws, ThrowsUncaught, Close, StopBackend, WaitForBackendExit,
       ForceTerminate, Gone, StopTree, RemoveTempRoot, Bind, Exit
  <2>. QED BY <2>1, <2>2, <2>3
<1>4. CASE j \in answeredBy[a] BY <1>1, <1>2, <1>4, <1>6 DEF IInv, AnsweredByItsOwn
<1>5. CASE a = i /\ pc[i] \in {"health", "checks"} /\ Serving(j)
  BY <1>1, <1>2, <1>5, <1>6, OthersServing DEF IInv
<1>. QED BY <1>3, <1>4, <1>5

\* The invariant is inductive.
LEMMA InvariantStep == IInv /\ [Next]_vars => IInv'
<1>. SUFFICES ASSUME IInv, [Next]_vars PROVE IInv'
  OBVIOUS
<1>1. TypeOK' BY TypeStep DEF IInv
<1>2. CASE UNCHANGED vars
  BY <1>2 DEF IInv, TypeOK, InOrder, Cleaned, Rooted, AnsweredByItsOwn, vars
<1>3. CASE Next
  <2>1. PICK i \in Scripts : Step(i) BY <1>3, NextIsStep
  <2>2. InOrder' BY <1>1, <2>1, OrderStep DEF IInv
  <2>3. Cleaned' BY <1>1, <2>1, CleanedStep DEF IInv
  <2>4. Rooted' BY <1>1, <2>1, RootedStep DEF IInv
  <2>5. AnsweredByItsOwn' BY <1>1, <2>1, AnsweredStep
  <2>. QED BY <1>1, <2>2, <2>3, <2>4, <2>5 DEF IInv
<1>. QED BY <1>2, <1>3

\* The first state satisfies it.
LEMMA InvariantInit == Init => IInv
BY DEF Init, IInv, TypeOK, InOrder, Cleaned, Rooted, AnsweredByItsOwn, Unstarted, Trying,
   Cleaning, Over, Alive

\* The invariant holds throughout.
THEOREM Invariance == Spec => []IInv
BY InvariantInit, InvariantStep, PTL DEF Spec

\* The variables keep to their ranges, however many scripts are run.
THEOREM TypeCorrect == Spec => []TypeOK
<1>1. IInv => TypeOK BY DEF IInv
<1>. QED BY <1>1, Invariance, PTL

\* An upload script never removes the directory of a backend that still runs.
THEOREM RemovedRootUnused == Spec => []RemovedRootIsUnused
<1>1. IInv => RemovedRootIsUnused BY DEF IInv, Rooted, RemovedRootIsUnused
<1>. QED BY <1>1, Invariance, PTL

\* A script that passed left its directory only if rm gave up, and its backend
\* only if taskkill failed or it was killed and is about to exit; an upload
\* script left neither.
THEOREM NothingLeft == Spec => []PassedLeavesNothing
<1>1. IInv => PassedLeavesNothing
  BY DEF IInv, TypeOK, Cleaned, Rooted, Unstarted, PassedLeavesNothing, Passed
<1>. QED BY <1>1, Invariance, PTL

\* A script is answered by its own backend, or by one whose script failed to
\* taskkill it, and that an upload script has reported.
THEOREM OwnBackend == Spec => []AnsweredByItsOwn
<1>1. IInv => AnsweredByItsOwn BY DEF IInv
<1>. QED BY <1>1, Invariance, PTL
=============================================================================
