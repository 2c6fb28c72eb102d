-------------------------- MODULE MCSourceCircuit --------------------------
EXTENDS SourceCircuit, TLC
Symmetry == Permutations(Worker)
=============================================================================
