---------------------------- MODULE MCEventSelect ----------------------------
(* EventSelect for TLC.  The application asks for reading, or for nothing  *)
(* (to take an event off); sockets become readable.  Liveness is checked,  *)
(* so there is no symmetry.                                                *)
EXTENDS EventSelect

ReadOrNothing == {{}, {"FD_READ"}}
ReadOnly == {{"FD_READ"}}
=============================================================================
