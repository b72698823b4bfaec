--------------------------- MODULE MCRemoteSubmit --------------------------
EXTENDS RemoteSubmit, TLC

\* Detail and cancel calls are interchangeable.
SyncSymmetry == Permutations(Sync)
=============================================================================
