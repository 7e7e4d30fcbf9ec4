---------------------------- MODULE MCUpdateDispatch ----------------------------
EXTENDS UpdateDispatch, TLC

Symmetry == Permutations(Runs) \cup Permutations(Sources)
===============================================================================
