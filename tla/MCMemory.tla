------------------------------ MODULE MCMemory ------------------------------
EXTENDS Memory, TLC

\* The values of the preference are interchangeable.
Symmetry == Permutations(Values)
=============================================================================
