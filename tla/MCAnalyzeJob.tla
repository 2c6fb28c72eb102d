----------------------------- MODULE MCAnalyzeJob -----------------------------
EXTENDS AnalyzeJob, TLC
Symmetry == Permutations(Worker) \cup Permutations(Caller) \cup Permutations(Message)
=============================================================================
