---------------------------- MODULE MCDispatchLane ----------------------------
EXTENDS DispatchLane, TLC
Symmetry == Permutations(Workers)
=============================================================================
