------------------------------ MODULE MCStreamIO ------------------------------
(* StreamIO for TLC: a WSASend larger than the kernel's buffer, a          *)
(* TransmitFile with head, file and tail, of which the file does not fit   *)
(* behind the head and may end early, a TransmitPackets, and a ConnectEx.  *)
EXTENDS StreamIO, TLC

SomeJobs == {[api |-> "WSASend", parts |-> <<3>>, ends |-> {}],
             [api |-> "TransmitFile", parts |-> <<1, 2, 1>>, ends |-> {2}],
             [api |-> "TransmitPackets", parts |-> <<2, 1>>, ends |-> {}],
             [api |-> "ConnectEx", parts |-> <<2>>, ends |-> {}]}

(* The file is as long as it is said to be. *)
WholeFile == {[api |-> "TransmitFile", parts |-> <<1, 2, 1>>, ends |-> {}]}

Symmetry == Permutations(Threads)
=============================================================================
