------------------------ MODULE MCRepositoryBindings ------------------------
EXTENDS RepositoryBindings, TLC

\* Processes, paths and source documents are interchangeable; used only in
\* the runs without liveness.
Symmetries == Permutations(Processes) \cup Permutations(Paths) \cup Permutations(Sources)
=============================================================================
