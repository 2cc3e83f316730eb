----------------------------- MODULE MCLiveRun ------------------------------
EXTENDS LiveRun

\* One bound on what comes from outside: of the failed calls, the command and
\* the reset, any three.  No fairness is asked of these steps.
AnyThree == faults + commands + resets <= 3
=============================================================================
