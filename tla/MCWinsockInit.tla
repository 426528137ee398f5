---------------------------- MODULE MCWinsockInit ----------------------------
(* WinsockInit for TLC, with a version on either side of each comparison.  *)
EXTENDS WinsockInit, TLC

SomeVersions == {<<0, 9>>, <<1, 0>>, <<1, 1>>, <<2, 2>>}

Symmetry == Permutations(Threads)
=============================================================================
