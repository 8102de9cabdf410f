---------------------------- MODULE MCContainers ----------------------------
\* Instances of Containers for TLC.
EXTENDS Containers, TLC

Symmetry == Permutations(Node) \cup Permutations(Data)
=============================================================================
