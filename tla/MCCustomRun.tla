---------------------------- MODULE MCCustomRun -----------------------------
EXTENDS CustomRun, TLC

\* Threads are interchangeable.  Not for liveness.
Interchangeable == Permutations(Workers) \cup Permutations(Handlers)
=============================================================================
