---------------------------- MODULE MCEventQueue ----------------------------
EXTENDS EventQueue, TLC

\* Heap addresses are interchangeable.
HeapSymmetry == Permutations(HeapNodes)
=============================================================================
