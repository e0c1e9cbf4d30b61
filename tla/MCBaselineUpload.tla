-------------------------- MODULE MCBaselineUpload --------------------------
EXTENDS BaselineUpload, TLC

\* The processes are interchangeable; used only in runs without liveness.
ClientSymmetry == Permutations(Clients)
=============================================================================
