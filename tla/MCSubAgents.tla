---------------------------- MODULE MCSubAgents ----------------------------
EXTENDS SubAgents, TLC

Symmetry == Permutations(Task)
=============================================================================
