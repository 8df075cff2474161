------------------------------- MODULE MCData -------------------------------
EXTENDS DataStructure, TLC

Symmetry == Permutations(Nodes) \cup Permutations(Data)
=============================================================================
