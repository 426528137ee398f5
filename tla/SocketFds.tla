----------------------------- MODULE SocketFds -----------------------------
(***************************************************************************)
(* The calls that make, move and close sockets (wsa_extended.c,            *)
(* ms_extensions.c, winsock2.c) over the kernel's table of descriptors:    *)
(* which descriptors are open, what is behind each, and who has to close   *)
(* it.  The modes of a socket, which no call reads, are left out.  Nearly  *)
(* all calls are one system call.  AcceptEx is four: it accepts on a new   *)
(* descriptor, moves the connection over the caller's socket with dup2(),  *)
(* closes the new descriptor, and receives.                                *)
(***************************************************************************)
EXTENDS ErrorCodes

(* As in WSAEvents, MutX is X with a bug in it, for README.md's table.     *)

CONSTANTS Threads,
          Fds,           \* descriptor numbers
          Peers,         \* hosts that connect to a listening socket, once at a time
          SocketErrors,  \* what errno can be when socket() or socketpair() fails,
          AcceptErrors,  \*   accept(),
          ConnectErrors, \*   connect(),
          IoctlErrors,   \*   ioctl()
          NULL           \* no descriptor (INVALID_SOCKET), no peer

ASSUME NullAssumption == NULL \notin Threads \cup Fds \cup Peers
ASSUME ErrorsAssumption ==
  SocketErrors \cup AcceptErrors \cup ConnectErrors \cup IoctlErrors \subseteq Nat \ {0}

VARIABLES desc,    \* desc[fd]: the socket behind fd, or NULL when fd is closed
          mine,    \* the descriptors that the application has to close
          pc,      \* pc[t]: where thread t is
          arg,     \* arg[t]: the arguments of its call
          result,  \* result[t]: AcceptEx's local of that name
          last     \* what the latest step returned, with the last error it left

vars == <<desc, mine, pc, arg, result, last>>

Socket == [kind : {"fresh", "listening", "stream", "shut"}, peer : Peers \cup {NULL}]

ASSUME NullIsNoSocket == NULL \notin Socket

NoArg == [listen |-> NULL, s |-> NULL, receive |-> FALSE, before |-> NULL]
NoReturn == [code |-> 0, errno |-> 0]

Init ==
  /\ desc = [fd \in Fds |-> NULL]
  /\ mine = {}
  /\ pc = [t \in Threads |-> "idle"]
  /\ arg = [t \in Threads |-> NoArg]
  /\ result = [t \in Threads |-> NULL]
  /\ last = NoReturn

Free == {fd \in Fds : desc[fd] = NULL}
Opened == Fds \ Free
Absent == {p \in Peers : \A fd \in Opened : desc[fd].peer # p}
InUse == UNION {{arg[t].listen, arg[t].s} : t \in Threads}

Fresh == [kind |-> "fresh", peer |-> NULL]
Connected(p) == [kind |-> "stream", peer |-> p]

(***************************************************************************)
(* Returns.  last.errno is the error of the system call that a code was    *)
(* translated from, 0 where the function names the code itself.            *)
(***************************************************************************)
Leave(t, code, err) ==
  /\ pc' = [pc EXCEPT ![t] = "idle"]
  /\ arg' = [arg EXCEPT ![t] = NoArg]
  /\ result' = [result EXCEPT ![t] = NULL]
  /\ last' = [code |-> code, errno |-> err]

Return(t, code) == Leave(t, code, 0)

Sets(t, codes) == \E code \in codes : Return(t, code) /\ UNCHANGED <<desc, mine>>

set_wsa_error_from_errno(t, errs) ==
  /\ \E err \in errs : Leave(t, errno_to_wsa_error(err), err)
  /\ UNCHANGED <<desc, mine>>

Idle(t) == pc[t] = "idle"

Goto(t, from, to) ==
  /\ pc[t] = from
  /\ pc' = [pc EXCEPT ![t] = to]
  /\ last' = NoReturn

(***************************************************************************)
(* Calls of one system call                                                *)
(***************************************************************************)
WSASocketA(t) ==
  /\ Idle(t)
  /\ \/ \E fd \in Free :
          /\ desc' = [desc EXCEPT ![fd] = Fresh]
          /\ mine' = mine \cup {fd}
          /\ Return(t, 0)
     \/ set_wsa_error_from_errno(t, SocketErrors)

WSASocketPair(t) ==
  /\ Idle(t)
  /\ \/ \E fd, other \in Free :
          /\ fd # other
          /\ desc' = [desc EXCEPT ![fd] = Connected(NULL), ![other] = Connected(NULL)]
          /\ mine' = mine \cup {fd, other}
          /\ Return(t, 0)
     \/ set_wsa_error_from_errno(t, SocketErrors)

WSAAccept(t) ==
  /\ Idle(t)
  /\ \/ \E s \in mine, fd \in Free, p \in Absent :
          /\ desc[s].kind = "listening"
          /\ desc' = [desc EXCEPT ![fd] = Connected(p)]
          /\ mine' = mine \cup {fd}
          /\ Return(t, 0)
     \/ set_wsa_error_from_errno(t, AcceptErrors)

WSAConnect(t) ==
  /\ Idle(t)
  /\ \/ \E s \in mine :
          /\ desc[s].kind = "fresh"
          /\ desc' = [desc EXCEPT ![s].kind = "stream"]
          /\ Return(t, 0)
          /\ UNCHANGED mine
     \/ set_wsa_error_from_errno(t, ConnectErrors)

(* listen(), which the application calls itself *)
Listen(s) ==
  /\ s \in mine
  /\ desc[s].kind = "fresh"
  /\ desc' = [desc EXCEPT ![s].kind = "listening"]
  /\ last' = NoReturn
  /\ UNCHANGED <<mine, pc, arg, result>>

ioctlsocket(t) ==
  /\ Idle(t)
  /\ Sets(t, {0}) \/ set_wsa_error_from_errno(t, IoctlErrors)

(* Four codes are handed to ioctl(); a request for an extension function   *)
(* is refused in one of two ways, any other code in a third.               *)
WSAIoctl(t) ==
  /\ Idle(t)
  /\ \/ Sets(t, {0, WSA("EFAULT"), WSA("EOPNOTSUPP"), WSA("EINVAL")})
     \/ set_wsa_error_from_errno(t, IoctlErrors)

(* CreateIoCompletionPort always succeeds; the functions that would use a  *)
(* completion port or overlapped I/O, and the one that looks an extension  *)
(* function up, always fail.                                               *)
CompletionPortCall(t) ==
  /\ Idle(t)
  /\ Sets(t, {0, WSA("EOPNOTSUPP"), WSA("EFAULT"), WSA("EINVAL")})

(* So do the calls that hand a socket to another process ... *)
WSADuplicateSocketA(t) == Idle(t) /\ Sets(t, {WSA("EINVAL")})

(* ... and list the protocols, however large the buffer. *)
WSAEnumProtocolsA(t) == Idle(t) /\ Sets(t, {WSA("ENOBUFS")})

(* No other call is working on the socket.  close() of a socket fails only *)
(* when there is none.                                                     *)
closesocket(t) ==
  /\ Idle(t)
  /\ \/ \E s \in mine \ InUse :
          /\ desc' = [desc EXCEPT ![s] = NULL]
          /\ mine' = mine \ {s}
          /\ Return(t, 0)
     \/ set_wsa_error_from_errno(t, {Errno.EBADF})

(***************************************************************************)
(* DisconnectEx: shutdown(), then close() unless the caller passed         *)
(* TF_REUSE_SOCKET.  The kernel refuses to shut down what is not connected *)
(* or listening.                                                           *)
(***************************************************************************)
DisconnectEx(t) ==
  \E s \in mine \ InUse, reuse \in BOOLEAN :
    /\ Idle(t)
    /\ desc[s].kind \in {"stream", "listening"}
    /\ desc' = [desc EXCEPT ![s].kind = "shut"]
    /\ IF reuse
       THEN Return(t, 0)
       ELSE /\ Goto(t, "idle", "dx_close")
            /\ arg' = [arg EXCEPT ![t].s = s]
            /\ UNCHANGED result
    /\ UNCHANGED mine

DisconnectExFails(t) ==
  /\ Idle(t)
  /\ \E s \in mine : desc[s].kind \in {"fresh", "stream", "shut"}
  /\ Sets(t, {WSA("ENOTCONN")})

DisconnectExClose(t) ==
  /\ pc[t] = "dx_close"
  /\ desc' = [desc EXCEPT ![arg[t].s] = NULL]
  /\ mine' = mine \ {arg[t].s}
  /\ Return(t, 0)

(***************************************************************************)
(* AcceptEx(sListenSocket, sAcceptSocket, ...).  receive says that the     *)
(* caller passed a buffer and a length to receive; sAcceptSocket may be    *)
(* INVALID_SOCKET, and is no other call's; several calls may share the     *)
(* listening one.  `before` remembers whose connection it was.             *)
(***************************************************************************)
AcceptEx(t) ==
  \E l \in mine \ {arg[u].s : u \in Threads}, s \in (mine \ InUse) \cup {NULL}, receive \in BOOLEAN :
    /\ l # s
    /\ Goto(t, "idle", "ax_accept")
    /\ arg' = [arg EXCEPT ![t] = [listen |-> l, s |-> s, receive |-> receive,
                                  before |-> IF s = NULL THEN NULL ELSE desc[s].peer]]
    /\ UNCHANGED <<desc, mine, result>>

AcceptExAccept(t) ==
  /\ Goto(t, "ax_accept", "ax_dup")
  /\ desc[arg[t].listen].kind = "listening"
  /\ \E fd \in Free, p \in Absent :
       /\ desc' = [desc EXCEPT ![fd] = Connected(p)]
       /\ result' = [result EXCEPT ![t] = fd]
  /\ UNCHANGED <<mine, arg>>

MutAcceptExAcceptFails(t) ==   \* goes on to dup2()
  /\ Goto(t, "ax_accept", "ax_dup")
  /\ UNCHANGED <<desc, mine, arg, result>>

(* Whatever the error of accept(), EWOULDBLOCK included. *)
AcceptExAcceptFails(t) ==
  /\ pc[t] = "ax_accept"
  /\ Sets(t, {WSA("ECONNREFUSED")})

(* dup2() closes what was behind sAcceptSocket. *)
AcceptExDup(t) ==
  /\ Goto(t, "ax_dup", "ax_close")
  /\ arg[t].s # NULL
  /\ desc' = [desc EXCEPT ![arg[t].s] = desc[result[t]]]
  /\ UNCHANGED <<mine, arg, result>>

MutAcceptExDupFails(t) ==   \* without the close()
  /\ pc[t] = "ax_dup"
  /\ Return(t, WSA("EINVAL"))
  /\ UNCHANGED <<desc, mine>>

AcceptExDupFails(t) ==
  /\ pc[t] = "ax_dup"
  /\ desc' = [desc EXCEPT ![result[t]] = NULL]
  /\ Return(t, WSA("EINVAL"))
  /\ UNCHANGED mine

MutAcceptExClose(t) ==   \* gives the caller the new descriptor as well
  /\ Goto(t, "ax_close", "ax_recv")
  /\ mine' = mine \cup {result[t]}
  /\ result' = [result EXCEPT ![t] = NULL]
  /\ UNCHANGED <<desc, arg>>

AcceptExClose(t) ==
  /\ Goto(t, "ax_close", "ax_recv")
  /\ desc' = [desc EXCEPT ![result[t]] = NULL]
  /\ result' = [result EXCEPT ![t] = NULL]
  /\ UNCHANGED <<mine, arg>>

MutAcceptExRecvFails(t) ==   \* the code of a refused connection
  /\ pc[t] = "ax_recv"
  /\ arg[t].receive
  /\ Sets(t, {WSA("ECONNREFUSED")})

(* The connection stays where it is. *)
AcceptExRecvFails(t) ==
  /\ pc[t] = "ax_recv"
  /\ arg[t].receive
  /\ Sets(t, {WSA("ECONNRESET")})

(* What was received, and the addresses that a caller with a buffer finds  *)
(* in front of it, do not matter here.                                     *)
AcceptExReturn(t) ==
  /\ pc[t] = "ax_recv"
  /\ Return(t, 0)
  /\ UNCHANGED <<desc, mine>>

-----------------------------------------------------------------------------
AcceptExStep(t) ==
  \/ AcceptExAccept(t) \/ AcceptExAcceptFails(t)
  \/ AcceptExDup(t) \/ AcceptExDupFails(t)
  \/ AcceptExClose(t)
  \/ AcceptExRecvFails(t) \/ AcceptExReturn(t)

Next ==
  \/ \E t \in Threads :
       \/ WSASocketA(t) \/ WSASocketPair(t) \/ WSAAccept(t) \/ WSAConnect(t)
       \/ ioctlsocket(t) \/ WSAIoctl(t) \/ closesocket(t)
       \/ CompletionPortCall(t) \/ WSADuplicateSocketA(t) \/ WSAEnumProtocolsA(t)
       \/ DisconnectEx(t) \/ DisconnectExFails(t) \/ DisconnectExClose(t)
       \/ AcceptEx(t) \/ AcceptExStep(t)
  \/ \E s \in Fds : Listen(s)

Spec == Init /\ [][Next]_vars

-----------------------------------------------------------------------------
(***************************************************************************)
(* Properties                                                              *)
(***************************************************************************)
AcceptPCs == {"ax_accept", "ax_dup", "ax_close", "ax_recv"}
Holders == {t \in Threads : pc[t] \in {"ax_dup", "ax_close"}}

(* The type invariant.  A call in progress works on descriptors that the   *)
(* application has to close: its own call is what closes one.              *)
TypeOK ==
  /\ desc \in [Fds -> Socket \cup {NULL}]
  /\ mine \in SUBSET Fds
  /\ pc \in [Threads -> AcceptPCs \cup {"idle", "dx_close"}]
  /\ arg \in [Threads -> [listen : Fds \cup {NULL}, s : Fds \cup {NULL}, receive : BOOLEAN,
                          before : Peers \cup {NULL}]]
  /\ result \in [Threads -> Fds \cup {NULL}]
  /\ last.code \in Nat
  /\ last.errno \in Nat
  /\ \A t \in Threads :
       /\ result[t] # NULL <=> t \in Holders
       /\ arg[t].listen # NULL <=> pc[t] \in AcceptPCs
       /\ pc[t] \in {"ax_close", "ax_recv", "dx_close"} => arg[t].s # NULL

(* Every open descriptor is either one the application has been given and  *)
(* has not closed, or in the hands of one AcceptEx that is moving it: no   *)
(* failure path leaks one, and no call closes a descriptor that another    *)
(* has meanwhile been given.                                               *)
DescriptorsOwned ==
  /\ Opened = mine \cup {result[t] : t \in Holders}
  /\ \A t \in Holders : result[t] \notin mine
  /\ \A t, u \in Holders : result[t] = result[u] => t = u

(* A connection has one descriptor, except while AcceptEx is moving it: to *)
(* close the descriptor that was handed out is to close the connection.    *)
OneDescriptorEach ==
  \A fd, other \in Opened :
    fd # other /\ desc[fd].peer # NULL /\ desc[fd].peer = desc[other].peer
      => \E t \in Threads : pc[t] = "ax_close" /\ {fd, other} = {result[t], arg[t].s}

(* The last error that AcceptEx leaves tells whether the caller's socket   *)
(* is still its own: it has been replaced on success, and on WSAECONNRESET *)
(* although FALSE is returned, and on no other error.                      *)
CodeTellsIfReplaced ==
  [][\A t \in Threads :
       pc[t] \in AcceptPCs /\ pc'[t] = "idle" /\ arg[t].s # NULL =>
         (last'.code \in {0, WSA("ECONNRESET")} <=> desc[arg[t].s].peer # arg[t].before)]_vars

(* A code that was translated from errno is the one of the same name, and  *)
(* an error without a Winsock code is not taken for another, except that   *)
(* the mistaken ones always are: of what accept() may return, EPROTO comes *)
(* out as WSAEREMOTE and ENONET as WSAEHOSTDOWN.                           *)
CodesNameTheError ==
  last.errno # 0 =>
    IF last.errno \in Mistaken
    THEN \E name \in DOMAIN Winsock :
           last.code = WSA(name) /\ (name \in Cased => last.errno # Errno[name])
    ELSE \A name \in DOMAIN Winsock :
           last.code = WSA(name) <=> name \in Cased /\ last.errno = Errno[name]
=============================================================================
