----------------------------- MODULE MCWSAEvents -----------------------------
(* WSAEvents for TLC: threads, handles and descriptors are interchangeable. *)
EXTENDS WSAEvents, TLC

Symmetry == Permutations(Threads) \cup Permutations(Events) \cup Permutations(Fds)
=============================================================================
