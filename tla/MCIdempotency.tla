---------------------------- MODULE MCIdempotency -----------------------------
EXTENDS Idempotency, TLC

Symmetry == Permutations(Requests) \cup Permutations(Hashes)
===============================================================================
