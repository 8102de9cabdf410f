----------------------------- MODULE MCMSQueue ------------------------------
EXTENDS MSQueue, TLC

Symmetry == Permutations(Caller) \cup Permutations(Node) \cup Permutations(Value)
=============================================================================
