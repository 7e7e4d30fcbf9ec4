---------------------------- MODULE MCFollowDigests ----------------------------
EXTENDS FollowDigests, TLC

Symmetry == Permutations(Releases)
================================================================================
