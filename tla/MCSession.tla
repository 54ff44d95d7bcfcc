------------------------------ MODULE MCSession ------------------------------
EXTENDS SessionProperties, TLC
Symm == Permutations(Calls) \cup Permutations(Runs) \cup Permutations(Msgs)
=============================================================================
