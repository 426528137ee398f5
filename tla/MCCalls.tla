------------------------------ MODULE MCCalls ------------------------------
(***************************************************************************)
(* The instance that TLC checks of two components that share no state,     *)
(* SocketFds and Addresses: in each behaviour one of them moves, so that   *)
(* the run explores the states of each once and not their product.         *)
(***************************************************************************)
EXTENDS SocketFds, Addresses, TLC

VARIABLE which   \* the component that moves

CallsInit == Init /\ AddressesInit /\ which \in {"sockets", "addresses"}

CallsNext ==
  \/ which = "sockets" /\ Next /\ UNCHANGED <<which, addressVars>>
  \/ which = "addresses" /\ AddressesNext /\ UNCHANGED <<which, vars>>

CallsSpec == CallsInit /\ [][CallsNext]_<<which, vars, addressVars>>

Permuted == Permutations(Threads) \cup Permutations(Fds) \cup Permutations(Peers)

SocketErrorsOf == {Errno.EMFILE, ENOMEM}
AcceptErrorsOf == {Errno.EWOULDBLOCK, EPROTO}
ConnectErrorsOf == {Errno.EINPROGRESS}
IoctlErrorsOf == {Errno.EBADF, ENOTTY}

C == COLON
X == STRANGE

(* 10.0.0.1, ::1 and ::1:2, of which the last has the longest string that  *)
(* INET6_ADDRSTRLEN allows.                                                *)
NtopOf == [AF_INET |-> [v4 |-> <<10>>], AF_INET6 |-> [v6 |-> <<C, C, 1>>, w6 |-> <<C, C, 1, C, 2>>]]

Answered(af, host, named) == [addr |-> [family |-> af, host |-> host, port |-> 80], name |-> named]
AnswersOf ==
  {<<Answered("AF_INET", "v4", named)>> : named \in BOOLEAN}
    \cup {<<Answered("AF_INET6", host, TRUE), Answered("AF_INET", "v4", FALSE)>> : host \in {"v6", "w6"}}

TextsOf ==
  {<<>>, <<10>>, <<10, C, 80>>, <<10, C, 2^16 + 80>>, <<C, C, 1>>, <<C, C, 1, C, 2>>, <<C>>,
   <<C, C, 1, X>>, <<C, C, 1, C, 2, C, 80>>, <<C, C, 1, C, 2, C, 80, 1>>, <<C, C, C, C, C, C, C>>}
=============================================================================
