---------------------------- MODULE MCAsyncLookups ----------------------------
(* AsyncLookups for TLC: threads and addresses are interchangeable.        *)
EXTENDS AsyncLookups, TLC

Symmetry == Permutations(Threads) \cup Permutations(Requests)
=============================================================================
