------------------------- MODULE MCUploadArtifacts --------------------------
EXTENDS UploadArtifacts, TLC

\* Uploads, runs and threads are interchangeable.
Interchangeable == Permutations(Uploads) \cup Permutations(Runs) \cup Permutations(Creators)
=============================================================================
