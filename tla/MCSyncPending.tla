---------------------------- MODULE MCSyncPending ----------------------------
EXTENDS SyncPending, TLC

\* The processes are interchangeable; used only in the run without liveness.
ProcessSymmetry == Permutations(Processes)
=============================================================================
