---------------------------- MODULE MCWatchRuns ----------------------------
EXTENDS WatchRuns, TLC
Symmetry == Permutations(Worker) \cup Permutations(Copy) \cup Permutations(Run)
=============================================================================
