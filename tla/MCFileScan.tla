----------------------------- MODULE MCFileScan -----------------------------
EXTENDS FileScan, TLC
Symmetry == Permutations(Request) \cup Permutations(Worker) \cup Permutations(Message)
=============================================================================
