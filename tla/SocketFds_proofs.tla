-------------------------- MODULE SocketFds_proofs --------------------------
(***************************************************************************)
(* Theorems about SocketFds, for any threads, descriptors and peers: no    *)
(* descriptor is lost or closed by another call, a connection has one      *)
(* descriptor, and the last error of AcceptEx tells whether the caller's   *)
(* socket was replaced.                                                    *)
(***************************************************************************)
EXTENDS SocketFds, TLAPS

(***************************************************************************)
(* The inductive invariant for the table of descriptors                    *)
(***************************************************************************)
(* The descriptors that a call works on are the application's. *)
Located ==
  \A t \in Threads :
    /\ pc[t] = "idle" => arg[t] = NoArg
    /\ pc[t] = "dx_close" => arg[t].listen = NULL
    /\ arg[t].s # NULL => arg[t].s \in mine
    /\ arg[t].listen # NULL => arg[t].listen \in mine

(* A socket that a call closes or replaces is in no other use. *)
Apart ==
  \A t, u \in Threads :
    arg[t].s # NULL => /\ arg[t].s # arg[u].listen
                       /\ t # u => arg[t].s # arg[u].s

(* DescriptorsOwned, descriptor by descriptor *)
Owned ==
  /\ \A fd \in Fds : desc[fd] # NULL <=> fd \in mine \/ \E t \in Holders : result[t] = fd
  /\ \A t \in Holders : result[t] \notin mine
  /\ \A t, u \in Holders : result[t] = result[u] => t = u

Inv == TypeOK /\ Owned /\ Located /\ Apart

(***************************************************************************)
(* Error codes                                                             *)
(***************************************************************************)
(* Every Winsock code of the table is a number. *)
LEMMA NumbersAreNatural == \A name \in Cased : WSA(name) \in Nat
  BY DEF Cased, Errno, Winsock, WSA, WSABASEERR

(* So is every code that errno is translated to. *)
LEMMA CodesAreNatural == ASSUME NEW err \in Nat PROVE errno_to_wsa_error(err) \in Nat
<1>1. CASE \E name \in Cased : Errno[name] = err
  BY <1>1, NumbersAreNatural DEF errno_to_wsa_error
<1>2. CASE ~ \E name \in Cased : Errno[name] = err
  BY <1>2 DEF errno_to_wsa_error, WSABASEERR
<1> QED BY <1>1, <1>2

(* And those that the functions name themselves. *)
LEMMA NamedAreNatural ==
  /\ \A name \in {"EFAULT", "EOPNOTSUPP", "EINVAL", "ENOBUFS", "ENOTCONN", "ECONNREFUSED",
                  "ECONNRESET"} : WSA(name) \in Nat
  /\ Errno.EBADF \in Nat
  BY DEF Errno, Winsock, WSA, WSABASEERR

(***************************************************************************)
(* What the parts of the actions preserve                                  *)
(***************************************************************************)
(* The two statements of ownership are the same. *)
LEMMA OwnedIsDescriptorsOwned == TypeOK => (Owned <=> DescriptorsOwned)
  BY NullAssumption DEF TypeOK, Owned, DescriptorsOwned, Opened, Free, Holders

(* listen(), connect() and shutdown() change the kind of a socket, not whose
   connection it is. *)
LEMMA KindOnly ==
  ASSUME TypeOK, NEW s \in Fds, desc[s] # NULL, NEW kind \in {"listening", "stream", "shut"},
         desc' = [desc EXCEPT ![s].kind = kind]
  PROVE  /\ desc' \in [Fds -> Socket \cup {NULL}]
         /\ \A fd \in Fds : desc'[fd] # NULL <=> desc[fd] # NULL
         /\ \A fd \in Fds : desc[fd] # NULL => desc'[fd].peer = desc[fd].peer
<1>1. desc[s] \in Socket
  BY DEF TypeOK
<1>2. [desc[s] EXCEPT !.kind = kind] \in Socket /\ [desc[s] EXCEPT !.kind = kind].peer = desc[s].peer
  BY <1>1 DEF Socket
<1>3. [desc[s] EXCEPT !.kind = kind] # NULL
  BY <1>2, NullIsNoSocket
<1>4. \A fd \in Fds : desc'[fd] = IF fd = s THEN [desc[s] EXCEPT !.kind = kind] ELSE desc[fd]
  BY DEF TypeOK
<1>5. desc' \in [Fds -> Socket \cup {NULL}]
  BY <1>2 DEF TypeOK
<1> QED BY <1>2, <1>3, <1>4, <1>5

(* A return that leaves the table as it is *)
LEMMA ReturnKeeps ==
  ASSUME Inv, NEW t \in Threads, t \notin Holders, NEW code \in Nat, NEW err \in Nat,
         Leave(t, code, err), UNCHANGED <<desc, mine>>
  PROVE  Inv'
<1> USE NullAssumption DEF Inv, Leave
<1>0. Holders' = Holders
  BY DEF Holders, TypeOK
<1>1. TypeOK'
  BY <1>0 DEF TypeOK, NoArg, AcceptPCs
<1>2. Owned'
  BY <1>0 DEF TypeOK, Owned, Holders
<1>3. Located'
  BY DEF TypeOK, Located, NoArg
<1>4. Apart'
  BY DEF TypeOK, Apart, NoArg
<1> QED BY <1>1, <1>2, <1>3, <1>4

(* A return with one of the codes that a function names *)
LEMMA SetsKeeps ==
  ASSUME Inv, NEW t \in Threads, t \notin Holders, NEW codes \in SUBSET Nat, Sets(t, codes)
  PROVE  Inv'
  BY ReturnKeeps DEF Sets, Return

(* A return with a code translated from errno *)
LEMMA FromErrnoKeeps ==
  ASSUME Inv, NEW t \in Threads, t \notin Holders, NEW errs \in SUBSET Nat,
         set_wsa_error_from_errno(t, errs)
  PROVE  Inv'
  BY ReturnKeeps, CodesAreNatural DEF set_wsa_error_from_errno

(* Calls that give the application new descriptors, or none *)
LEMMA MakesKeeps ==
  ASSUME Inv, NEW t \in Threads, t \notin Holders, NEW new \in SUBSET Free,
         desc' \in [Fds -> Socket \cup {NULL}],
         \A fd \in Fds : desc'[fd] # NULL <=> fd \in new \/ desc[fd] # NULL,
         mine' = mine \cup new, Return(t, 0)
  PROVE  Inv'
<1> USE NullAssumption, NullIsNoSocket, NamedAreNatural DEF Inv, Free, Return, Leave, NoArg
<1>1. TypeOK'
  BY DEF TypeOK, Holders, AcceptPCs, Located, Owned
<1>2. Owned'
  BY DEF TypeOK, Owned, Holders, Located
<1>3. Located'
  BY DEF TypeOK, Located, Apart, AcceptPCs, Owned, Holders
<1>4. Apart'
  BY DEF TypeOK, Apart, AcceptPCs, Located
<1> QED BY <1>1, <1>2, <1>3, <1>4

(* Calls that leave the same descriptors open *)
LEMMA MovesKeeps ==
  ASSUME Inv, NEW t \in Threads, t \notin Holders, desc' \in [Fds -> Socket \cup {NULL}],
         \A fd \in Fds : desc'[fd] # NULL <=> desc[fd] # NULL, UNCHANGED mine, Return(t, 0)
  PROVE  Inv'
<1> USE NullAssumption, NullIsNoSocket, NamedAreNatural DEF Inv, Return, Leave, NoArg
<1>1. TypeOK'
  BY DEF TypeOK, Holders, AcceptPCs, Located, Owned
<1>2. Owned'
  BY DEF TypeOK, Owned, Holders, Located
<1>3. Located'
  BY DEF TypeOK, Located, Apart, AcceptPCs, Owned, Holders
<1>4. Apart'
  BY DEF TypeOK, Apart, AcceptPCs, Located
<1> QED BY <1>1, <1>2, <1>3, <1>4

(* listen() *)
LEMMA ListenKeeps ==
  ASSUME Inv, NEW s \in Fds, Listen(s)
  PROVE  Inv'
<1> USE NullAssumption, NullIsNoSocket, NamedAreNatural DEF Inv, Listen, NoReturn, Socket
<1>1. TypeOK'
  BY DEF TypeOK, Holders, AcceptPCs, Located, Owned
<1>2. Owned'
  BY DEF TypeOK, Owned, Holders, Located
<1>3. Located'
  BY DEF TypeOK, Located, Apart, AcceptPCs, Owned, Holders
<1>4. Apart'
  BY DEF TypeOK, Apart, AcceptPCs, Located
<1> QED BY <1>1, <1>2, <1>3, <1>4

(* A close() of a socket that no other call uses *)
LEMMA ClosesKeeps ==
  ASSUME Inv, NEW t \in Threads, NEW s \in mine, t \notin Holders,
         \A u \in Threads \ {t} : s # arg[u].s /\ s # arg[u].listen,
         desc' = [desc EXCEPT ![s] = NULL], mine' = mine \ {s}, Return(t, 0)
  PROVE  Inv'
<1> USE NullAssumption, NullIsNoSocket, NamedAreNatural DEF Inv, Return, Leave, NoArg
<1>1. TypeOK'
  BY DEF TypeOK, Holders, AcceptPCs, Located, Owned
<1>2. Owned'
  BY DEF TypeOK, Owned, Holders, Located
<1>3. Located'
  BY DEF TypeOK, Located, Apart, AcceptPCs, Owned, Holders
<1>4. Apart'
  BY DEF TypeOK, Apart, AcceptPCs, Located
<1> QED BY <1>1, <1>2, <1>3, <1>4

(* DisconnectEx up to its close() *)
LEMMA DisconnectExKeeps ==
  ASSUME Inv, NEW t \in Threads, NEW s \in mine, \A u \in Threads : s # arg[u].s /\ s # arg[u].listen,
         desc' \in [Fds -> Socket \cup {NULL}],
         \A fd \in Fds : desc'[fd] # NULL <=> desc[fd] # NULL, Goto(t, "idle", "dx_close"),
         arg' = [arg EXCEPT ![t].s = s], UNCHANGED <<result, mine>>
  PROVE  Inv'
<1> USE NullAssumption, NullIsNoSocket, NamedAreNatural DEF Inv, Goto, NoReturn, NoArg
<1>a. s \in Fds /\ pc[t] = "idle" /\ s # NULL /\ arg[t] = NoArg
  BY DEF TypeOK, Located
<1>1. TypeOK'
  <2>1. /\ arg' \in [Threads -> [listen : Fds \cup {NULL}, s : Fds \cup {NULL}, receive : BOOLEAN,
                                before : Peers \cup {NULL}]]
        /\ pc' \in [Threads -> AcceptPCs \cup {"idle", "dx_close"}]
    BY <1>a DEF TypeOK
  <2>2. Holders' = Holders
    BY <1>a DEF TypeOK, Holders
  <2>3. \A u \in Threads \ {t} : arg'[u] = arg[u] /\ pc'[u] = pc[u]
    BY DEF TypeOK
  <2>4. arg'[t].s = s /\ arg'[t].listen = NULL /\ pc'[t] = "dx_close"
    BY <1>a DEF TypeOK
  <2> QED BY <1>a, <2>1, <2>2, <2>3, <2>4 DEF TypeOK, AcceptPCs
<1>2. Owned'
  BY DEF TypeOK, Owned, Holders, Located
<1>3. Located'
  BY DEF TypeOK, Located, Apart, AcceptPCs, Owned, Holders
<1>4. Apart'
  BY DEF TypeOK, Apart, AcceptPCs, Located
<1> QED BY <1>1, <1>2, <1>3, <1>4

(* AcceptEx takes descriptors of the application that no other call uses. *)
LEMMA AcceptExKeeps ==
  ASSUME Inv, NEW t \in Threads, AcceptEx(t)
  PROVE  Inv'
<1> USE NullAssumption, NullIsNoSocket, NamedAreNatural DEF Inv, AcceptEx, Goto, InUse, NoReturn, Socket
<1>1. TypeOK'
  BY DEF TypeOK, Holders, AcceptPCs, Located, Owned
<1>2. Owned'
  BY DEF TypeOK, Owned, Holders, Located
<1>3. Located'
  BY DEF TypeOK, Located, Apart, AcceptPCs, Owned, Holders
<1>4. Apart'
  BY DEF TypeOK, Apart, AcceptPCs, Located
<1> QED BY <1>1, <1>2, <1>3, <1>4

(* accept() hands a new descriptor to the call. *)
LEMMA AcceptExAcceptKeeps ==
  ASSUME Inv, NEW t \in Threads, AcceptExAccept(t)
  PROVE  Inv'
<1> USE NullAssumption, NullIsNoSocket, NamedAreNatural DEF Inv, AcceptExAccept, Goto, Free, Absent, Connected, NoReturn, Socket
<1>1. TypeOK'
  BY DEF TypeOK, Holders, AcceptPCs, Located, Owned
<1>2. Owned'
  BY DEF TypeOK, Owned, Holders, Located
<1>3. Located'
  BY DEF TypeOK, Located, Apart, AcceptPCs, Owned, Holders
<1>4. Apart'
  BY DEF TypeOK, Apart, AcceptPCs, Located
<1> QED BY <1>1, <1>2, <1>3, <1>4

(* dup2() puts the connection behind the caller's descriptor. *)
LEMMA AcceptExDupKeeps ==
  ASSUME Inv, NEW t \in Threads, AcceptExDup(t)
  PROVE  Inv'
<1> USE NullAssumption, NullIsNoSocket, NamedAreNatural DEF Inv, AcceptExDup, Goto, NoReturn
<1>1. TypeOK'
  BY DEF TypeOK, Holders, AcceptPCs, Located, Owned
<1>2. Owned'
  BY DEF TypeOK, Owned, Holders, Located
<1>3. Located'
  BY DEF TypeOK, Located, Apart, AcceptPCs, Owned, Holders
<1>4. Apart'
  BY DEF TypeOK, Apart, AcceptPCs, Located
<1> QED BY <1>1, <1>2, <1>3, <1>4

(* When dup2() fails, the call closes the descriptor it holds. *)
LEMMA AcceptExDupFailsKeeps ==
  ASSUME Inv, NEW t \in Threads, AcceptExDupFails(t)
  PROVE  Inv'
<1> USE NullAssumption, NullIsNoSocket, NamedAreNatural DEF Inv, AcceptExDupFails, Return, Leave, NoArg
<1>1. TypeOK'
  BY DEF TypeOK, Holders, AcceptPCs, Located, Owned
<1>2. Owned'
  BY DEF TypeOK, Owned, Holders, Located
<1>3. Located'
  BY DEF TypeOK, Located, Apart, AcceptPCs, Owned, Holders
<1>4. Apart'
  BY DEF TypeOK, Apart, AcceptPCs, Located
<1> QED BY <1>1, <1>2, <1>3, <1>4

(* After dup2() it closes that descriptor too. *)
LEMMA AcceptExCloseKeeps ==
  ASSUME Inv, NEW t \in Threads, AcceptExClose(t)
  PROVE  Inv'
<1> USE NullAssumption, NullIsNoSocket, NamedAreNatural DEF Inv, AcceptExClose, Goto, NoReturn
<1>1. TypeOK'
  BY DEF TypeOK, Holders, AcceptPCs, Located, Owned
<1>2. Owned'
  BY DEF TypeOK, Owned, Holders, Located
<1>3. Located'
  BY DEF TypeOK, Located, Apart, AcceptPCs, Owned, Holders
<1>4. Apart'
  BY DEF TypeOK, Apart, AcceptPCs, Located
<1> QED BY <1>1, <1>2, <1>3, <1>4

(* Every step preserves the invariant. *)
LEMMA StepKeeps == Inv /\ [Next]_vars => Inv'
<1> SUFFICES ASSUME Inv, [Next]_vars PROVE Inv'
  OBVIOUS
<1> USE NullAssumption
<1>0. \A t \in Threads : pc[t] \in {"idle", "ax_accept", "ax_recv", "dx_close"} => t \notin Holders
  BY DEF Holders
<1>n. {WSA("EFAULT"), WSA("EOPNOTSUPP"), WSA("EINVAL"), WSA("ENOBUFS"), WSA("ENOTCONN"),
       WSA("ECONNREFUSED"), WSA("ECONNRESET"), Errno.EBADF, 0} \subseteq Nat
  BY NamedAreNatural
<1>e. /\ SocketErrors \in SUBSET Nat /\ AcceptErrors \in SUBSET Nat
      /\ ConnectErrors \in SUBSET Nat /\ IoctlErrors \in SUBSET Nat
  BY ErrorsAssumption
<1>m. mine \subseteq Fds /\ \A s \in mine : desc[s] # NULL
  BY DEF Inv, TypeOK, Owned
<1>1. CASE UNCHANGED vars
  BY <1>1 DEF vars, Inv, TypeOK, Owned, Located, Apart, Holders
<1>2. ASSUME NEW t \in Threads, WSASocketA(t) PROVE Inv'
  <2>1. ASSUME NEW fd \in Free, desc' = [desc EXCEPT ![fd] = Fresh], mine' = mine \cup {fd},
               Return(t, 0)
        PROVE  Inv'
    <3>1. Fresh \in Socket
      BY DEF Fresh, Socket
    <3>2. desc' \in [Fds -> Socket \cup {NULL}]
      BY <2>1, <3>1 DEF Inv, TypeOK
    <3>3. \A other \in Fds : desc'[other] # NULL <=> other \in {fd} \/ desc[other] # NULL
      BY <2>1, <3>1, NullIsNoSocket DEF Inv, TypeOK
    <3>4. t \notin Holders /\ {fd} \in SUBSET Free
      BY <1>0, <1>2 DEF WSASocketA, Idle
    <3> QED BY <2>1, <3>2, <3>3, <3>4, MakesKeeps
  <2> QED BY <1>0, <1>2, <1>e, <2>1, FromErrnoKeeps DEF WSASocketA, Idle
<1>3. ASSUME NEW t \in Threads, WSASocketPair(t) PROVE Inv'
  <2>1. ASSUME NEW fd \in Free, NEW other \in Free,
               desc' = [desc EXCEPT ![fd] = Connected(NULL), ![other] = Connected(NULL)],
               mine' = mine \cup {fd, other}, Return(t, 0)
        PROVE  Inv'
    <3>1. Connected(NULL) \in Socket
      BY DEF Connected, Socket
    <3>2. desc' \in [Fds -> Socket \cup {NULL}]
      BY <2>1, <3>1 DEF Inv, TypeOK
    <3>3. \A x \in Fds : desc'[x] # NULL <=> x \in {fd, other} \/ desc[x] # NULL
      BY <2>1, <3>1, NullIsNoSocket DEF Inv, TypeOK
    <3>4. t \notin Holders /\ {fd, other} \in SUBSET Free
      BY <1>0, <1>3 DEF WSASocketPair, Idle
    <3> QED BY <2>1, <3>2, <3>3, <3>4, MakesKeeps
  <2> QED BY <1>0, <1>3, <1>e, <2>1, FromErrnoKeeps DEF WSASocketPair, Idle
<1>4. ASSUME NEW t \in Threads, WSAAccept(t) PROVE Inv'
  <2>1. ASSUME NEW fd \in Free, NEW p \in Absent, desc' = [desc EXCEPT ![fd] = Connected(p)],
               mine' = mine \cup {fd}, Return(t, 0)
        PROVE  Inv'
    <3>1. Connected(p) \in Socket
      BY DEF Connected, Socket, Absent
    <3>2. desc' \in [Fds -> Socket \cup {NULL}]
      BY <2>1, <3>1 DEF Inv, TypeOK
    <3>3. \A other \in Fds : desc'[other] # NULL <=> other \in {fd} \/ desc[other] # NULL
      BY <2>1, <3>1, NullIsNoSocket DEF Inv, TypeOK
    <3>4. t \notin Holders /\ {fd} \in SUBSET Free
      BY <1>0, <1>4 DEF WSAAccept, Idle
    <3> QED BY <2>1, <3>2, <3>3, <3>4, MakesKeeps
  <2> QED BY <1>0, <1>4, <1>e, <2>1, FromErrnoKeeps DEF WSAAccept, Idle
<1>5. ASSUME NEW t \in Threads, WSAConnect(t) PROVE Inv'
  <2>1. ASSUME NEW s \in mine, desc' = [desc EXCEPT ![s].kind = "stream"], Return(t, 0),
               UNCHANGED mine
        PROVE  Inv'
    <3>1. /\ desc' \in [Fds -> Socket \cup {NULL}]
          /\ \A fd \in Fds : desc'[fd] # NULL <=> desc[fd] # NULL
      BY <1>m, <2>1, KindOnly DEF Inv
    <3> QED BY <1>0, <1>5, <2>1, <3>1, MovesKeeps DEF WSAConnect, Idle
  <2> QED BY <1>0, <1>5, <1>e, <2>1, FromErrnoKeeps DEF WSAConnect, Idle
<1>6. ASSUME NEW t \in Threads,
             ioctlsocket(t) \/ WSAIoctl(t) \/ CompletionPortCall(t) \/ WSADuplicateSocketA(t)
               \/ WSAEnumProtocolsA(t) \/ DisconnectExFails(t)
      PROVE  Inv'
  BY <1>0, <1>6, <1>e, <1>n, SetsKeeps, FromErrnoKeeps
     DEF ioctlsocket, WSAIoctl, CompletionPortCall, WSADuplicateSocketA, WSAEnumProtocolsA,
         DisconnectExFails, Idle
<1>7. ASSUME NEW t \in Threads, closesocket(t) PROVE Inv'
  <2>1. ASSUME NEW s \in mine \ InUse, desc' = [desc EXCEPT ![s] = NULL], mine' = mine \ {s},
               Return(t, 0)
        PROVE  Inv'
    <3>1. \A u \in Threads : s # arg[u].s /\ s # arg[u].listen
      BY DEF InUse
    <3> QED BY <1>0, <1>7, <2>1, <3>1, ClosesKeeps DEF closesocket, Idle
  <2> QED BY <1>0, <1>7, <1>n, <2>1, FromErrnoKeeps DEF closesocket, Idle
<1>8. ASSUME NEW t \in Threads, DisconnectEx(t) PROVE Inv'
  <2>1. PICK s \in mine \ InUse : /\ pc[t] = "idle"
                                 /\ desc' = [desc EXCEPT ![s].kind = "shut"]
                                 /\ \/ Return(t, 0)
                                    \/ /\ Goto(t, "idle", "dx_close")
                                       /\ arg' = [arg EXCEPT ![t].s = s]
                                       /\ UNCHANGED result
                                 /\ UNCHANGED mine
    BY <1>8 DEF DisconnectEx, Idle
  <2>2. /\ desc' \in [Fds -> Socket \cup {NULL}]
        /\ \A fd \in Fds : desc'[fd] # NULL <=> desc[fd] # NULL
    BY <1>m, <2>1, KindOnly DEF Inv
  <2>3. CASE Return(t, 0)
    BY <1>0, <2>1, <2>2, <2>3, MovesKeeps
  <2>4. CASE ~Return(t, 0)
    <3>1. \A u \in Threads : s # arg[u].s /\ s # arg[u].listen
      BY <2>1 DEF InUse
    <3> QED BY <2>1, <2>2, <2>4, <3>1, DisconnectExKeeps
  <2> QED BY <2>3, <2>4
<1>9. ASSUME NEW t \in Threads, DisconnectExClose(t) PROVE Inv'
  <2>1. arg[t].s \in mine /\ \A u \in Threads \ {t} : arg[t].s # arg[u].s /\ arg[t].s # arg[u].listen
    BY <1>9 DEF DisconnectExClose, Inv, TypeOK, Located, Apart
  <2> QED BY <1>0, <1>9, <2>1, ClosesKeeps DEF DisconnectExClose
<1>10. ASSUME NEW t \in Threads, AcceptEx(t) \/ AcceptExStep(t) PROVE Inv'
  <2>1. CASE AcceptExAcceptFails(t) \/ AcceptExRecvFails(t)
    BY <1>0, <1>n, <2>1, SetsKeeps DEF AcceptExAcceptFails, AcceptExRecvFails
  <2>2. CASE AcceptExReturn(t)
    BY <1>0, <1>n, <2>2, ReturnKeeps DEF AcceptExReturn, Return
  <2> QED
    BY <1>10, <2>1, <2>2, AcceptExKeeps, AcceptExAcceptKeeps, AcceptExDupKeeps,
       AcceptExDupFailsKeeps, AcceptExCloseKeeps DEF AcceptExStep
<1>11. ASSUME NEW s \in Fds, Listen(s) PROVE Inv'
  BY <1>11, ListenKeeps
<1> QED BY <1>1, <1>2, <1>3, <1>4, <1>5, <1>6, <1>7, <1>8, <1>9, <1>10, <1>11 DEF Next

(***************************************************************************)
(* The invariant and what follows from it                                  *)
(***************************************************************************)
(* The table, the arguments of the calls and the descriptors in the hands  *)
(* of AcceptEx fit together in every reachable state.                      *)
THEOREM Invariance == Spec => []Inv
<1>1. Init => Inv
  BY NullAssumption
     DEF Init, Inv, TypeOK, Owned, Located, Apart, NoArg, NoReturn, Holders, AcceptPCs
<1> QED BY <1>1, StepKeeps, PTL DEF Spec

(* Type correctness of SocketFds.                                          *)
THEOREM TypeCorrect == Spec => []TypeOK
<1>1. Inv => TypeOK
  BY DEF Inv
<1> QED BY <1>1, Invariance, PTL

(* No failure path of the calls that make, move and close sockets leaks a  *)
(* descriptor, and none closes one that it does not own.                   *)
THEOREM NoDescriptorLost == Spec => []DescriptorsOwned
<1>1. Inv => DescriptorsOwned
  BY OwnedIsDescriptorsOwned DEF Inv
<1> QED BY <1>1, Invariance, PTL

(***************************************************************************)
(* Whose connection is where                                               *)
(***************************************************************************)
(* What AcceptEx holds is somebody's connection. *)
HeldIsConnected == \A t \in Holders : desc[result[t]].peer # NULL

(* The caller's socket is its own up to dup2() and another's after it. *)
ReplacedByDup ==
  \A t \in Threads :
    arg[t].s # NULL =>
      /\ pc[t] \in {"ax_accept", "ax_dup"} => desc[arg[t].s].peer = arg[t].before
      /\ pc[t] \in {"ax_close", "ax_recv"} => desc[arg[t].s].peer # arg[t].before

PeersInv == HeldIsConnected /\ OneDescriptorEach /\ ReplacedByDup

(* Nothing that PeersInv says of a thread other than t changes. *)
OthersStand(t) ==
  \A u \in Threads \ {t} : pc'[u] = pc[u] /\ arg'[u] = arg[u] /\ result'[u] = result[u]

(* Open descriptors keep their peers; of the new ones only n may have one,
   which had no connection before. *)
PeersStand(n) ==
  \A fd \in Fds :
    desc'[fd] # NULL =>
      \/ desc[fd] # NULL /\ desc'[fd].peer = desc[fd].peer
      \/ desc[fd] = NULL /\ desc'[fd].peer = NULL
      \/ desc[fd] = NULL /\ fd = n /\ desc'[fd].peer \in Absent

(* A step of a call that holds no descriptor, outside AcceptEx or out of it *)
Quiet(t, n) ==
  t \notin Holders /\ pc'[t] \in {"idle", "dx_close"} /\ OthersStand(t) /\ PeersStand(n)

(* Such a step preserves PeersInv. *)
LEMMA QuietKeeps ==
  ASSUME Inv, Inv', PeersInv, NEW t \in Threads, NEW n, Quiet(t, n)
  PROVE  PeersInv'
<1> USE NullAssumption DEF Inv, PeersInv, Quiet, OthersStand
<1>1. \A u \in Threads : pc'[u] \in AcceptPCs => u # t /\ pc'[u] = pc[u] /\ arg'[u] = arg[u]
                                                /\ result'[u] = result[u]
  BY DEF AcceptPCs
<1>2. Holders' = Holders
  BY <1>1 DEF Holders, AcceptPCs
<1>3. \A fd \in Fds : desc[fd] # NULL /\ desc'[fd] # NULL => desc'[fd].peer = desc[fd].peer
  BY DEF PeersStand
<1>4. HeldIsConnected'
  <2> SUFFICES ASSUME NEW u \in Holders PROVE desc'[result'[u]].peer # NULL
    BY <1>2 DEF HeldIsConnected
  <2>1. u \in Threads /\ pc[u] \in {"ax_dup", "ax_close"} /\ result'[u] = result[u]
    BY DEF Holders
  <2>2. result[u] \in Fds /\ desc[result[u]] # NULL /\ desc'[result[u]] # NULL
    BY <1>2, <2>1 DEF TypeOK, Owned
  <2> QED BY <1>3, <2>1, <2>2 DEF HeldIsConnected
<1>5. OneDescriptorEach'
  <2> SUFFICES ASSUME NEW fd \in Fds, NEW other \in Fds, desc'[fd] # NULL, desc'[other] # NULL,
                      fd # other, desc'[fd].peer # NULL, desc'[fd].peer = desc'[other].peer
               PROVE  \E u \in Threads : pc'[u] = "ax_close" /\ {fd, other} = {result'[u], arg'[u].s}
    BY DEF OneDescriptorEach, Opened, Free
  <2>1. desc[fd] # NULL /\ desc[other] # NULL
    BY DEF PeersStand, Absent, Opened, Free
  <2>2. PICK u \in Threads : pc[u] = "ax_close" /\ {fd, other} = {result[u], arg[u].s}
    BY <1>3, <2>1 DEF OneDescriptorEach, Opened, Free
  <2> QED BY <2>2 DEF Holders
<1>6. ReplacedByDup'
  <2> SUFFICES ASSUME NEW u \in Threads, pc'[u] \in AcceptPCs, arg'[u].s # NULL
               PROVE  desc'[arg'[u].s].peer = desc[arg[u].s].peer
    BY <1>1 DEF ReplacedByDup, AcceptPCs
  <2>1. arg'[u].s = arg[u].s /\ arg[u].s \in mine /\ arg[u].s \in mine'
    BY <1>1 DEF Located
  <2>2. arg[u].s \in Fds /\ desc[arg[u].s] # NULL /\ desc'[arg[u].s] # NULL
    BY <2>1 DEF TypeOK, Owned
  <2> QED BY <1>3, <2>1, <2>2
<1> QED BY <1>4, <1>5, <1>6

(* Returns are quiet. *)
LEMMA LeaveIsQuiet ==
  ASSUME TypeOK, NEW t \in Threads, t \notin Holders, NEW code, NEW err, Leave(t, code, err),
         NEW n, PeersStand(n)
  PROVE  Quiet(t, n)
  BY DEF Leave, Quiet, OthersStand, TypeOK

(* Every call of one system call is quiet, and so are DisconnectEx and the *)
(* returns of AcceptEx that leave the table as it is.                      *)
LEMMA CallsAreQuiet ==
  ASSUME Inv, NEW t \in Threads,
         \/ WSASocketA(t) \/ WSASocketPair(t) \/ WSAAccept(t) \/ WSAConnect(t)
         \/ ioctlsocket(t) \/ WSAIoctl(t) \/ closesocket(t)
         \/ CompletionPortCall(t) \/ WSADuplicateSocketA(t) \/ WSAEnumProtocolsA(t)
         \/ DisconnectEx(t) \/ DisconnectExFails(t) \/ DisconnectExClose(t)
         \/ AcceptExAcceptFails(t) \/ AcceptExRecvFails(t) \/ AcceptExReturn(t)
  PROVE  \E n : Quiet(t, n)
<1> USE NullAssumption, NullIsNoSocket
<1>a. TypeOK /\ \A s \in mine : s \in Fds /\ desc[s] # NULL
  BY DEF Inv, TypeOK, Owned
<1>b. pc[t] \in {"idle", "ax_accept", "ax_recv", "dx_close"} => t \notin Holders
  BY DEF Holders
<1>c. UNCHANGED desc => PeersStand(NULL)
  BY DEF PeersStand
<1>d. ASSUME NEW s \in mine, NEW kind \in {"listening", "stream", "shut"},
             desc' = [desc EXCEPT ![s].kind = kind]
      PROVE  PeersStand(NULL)
  BY <1>a, <1>d, KindOnly DEF PeersStand
<1>e. ASSUME NEW s \in Fds, desc' = [desc EXCEPT ![s] = NULL]
      PROVE  PeersStand(NULL)
  BY <1>a, <1>e DEF PeersStand, TypeOK
<1>1. CASE WSASocketA(t)
  <2>1. ASSUME NEW fd \in Free, desc' = [desc EXCEPT ![fd] = Fresh] PROVE PeersStand(NULL)
    BY <1>a, <2>1 DEF PeersStand, TypeOK, Free, Fresh
  <2> QED BY <1>1, <1>a, <1>b, <1>c, <2>1, LeaveIsQuiet
          DEF WSASocketA, Idle, Return, set_wsa_error_from_errno
<1>2. CASE WSASocketPair(t)
  <2>1. ASSUME NEW fd \in Free, NEW other \in Free,
               desc' = [desc EXCEPT ![fd] = Connected(NULL), ![other] = Connected(NULL)]
        PROVE  PeersStand(NULL)
    BY <1>a, <2>1 DEF PeersStand, TypeOK, Free, Connected
  <2> QED BY <1>2, <1>a, <1>b, <1>c, <2>1, LeaveIsQuiet
          DEF WSASocketPair, Idle, Return, set_wsa_error_from_errno
<1>3. CASE WSAAccept(t)
  <2>1. ASSUME NEW fd \in Free, NEW p \in Absent, desc' = [desc EXCEPT ![fd] = Connected(p)]
        PROVE  PeersStand(fd)
    BY <1>a, <2>1 DEF PeersStand, TypeOK, Free, Connected
  <2> QED BY <1>3, <1>a, <1>b, <1>c, <2>1, LeaveIsQuiet
          DEF WSAAccept, Idle, Return, set_wsa_error_from_errno
<1>4. CASE WSAConnect(t)
  BY <1>4, <1>a, <1>b, <1>c, <1>d, LeaveIsQuiet
     DEF WSAConnect, Idle, Return, set_wsa_error_from_errno
<1>5. CASE ioctlsocket(t) \/ WSAIoctl(t) \/ CompletionPortCall(t) \/ WSADuplicateSocketA(t)
           \/ WSAEnumProtocolsA(t) \/ DisconnectExFails(t) \/ AcceptExAcceptFails(t)
           \/ AcceptExRecvFails(t) \/ AcceptExReturn(t)
  <2>1. /\ pc[t] \in {"idle", "ax_accept", "ax_recv"}
        /\ UNCHANGED desc
        /\ \E code, err : Leave(t, code, err)
    BY <1>5 DEF ioctlsocket, WSAIoctl, CompletionPortCall, WSADuplicateSocketA, WSAEnumProtocolsA,
                DisconnectExFails, AcceptExAcceptFails, AcceptExRecvFails, AcceptExReturn, Idle,
                Sets, Return, set_wsa_error_from_errno
  <2> QED BY <1>a, <1>b, <1>c, <2>1, LeaveIsQuiet
<1>6. CASE closesocket(t)
  BY <1>6, <1>a, <1>b, <1>c, <1>e, LeaveIsQuiet
     DEF closesocket, Idle, Return, set_wsa_error_from_errno
<1>7. CASE DisconnectEx(t)
  <2>1. PeersStand(NULL) /\ t \notin Holders
    BY <1>7, <1>b, <1>d DEF DisconnectEx, Idle
  <2>2. CASE Return(t, 0)
    BY <1>a, <2>1, <2>2, LeaveIsQuiet DEF Return
  <2>3. CASE ~Return(t, 0)
    <3>1. /\ pc' = [pc EXCEPT ![t] = "dx_close"]
          /\ \E s \in mine : arg' = [arg EXCEPT ![t].s = s]
          /\ UNCHANGED result
      BY <1>7, <2>3 DEF DisconnectEx, Goto
    <3> QED BY <1>a, <2>1, <3>1 DEF Quiet, OthersStand, TypeOK
  <2> QED BY <2>2, <2>3
<1>8. CASE DisconnectExClose(t)
  <2>1. arg[t].s \in Fds
    BY <1>8 DEF DisconnectExClose, Inv, TypeOK
  <2> QED BY <1>8, <1>a, <1>b, <1>e, <2>1, LeaveIsQuiet DEF DisconnectExClose, Return
<1> QED BY <1>1, <1>2, <1>3, <1>4, <1>5, <1>6, <1>7, <1>8

(* What a call holds is no descriptor that the application or another call *)
(* has, so that nobody else's connection is behind it.                     *)
LEMMA HeldAlone ==
  ASSUME Inv, PeersInv, NEW t \in Threads, pc[t] = "ax_dup", NEW fd \in Fds, desc[fd] # NULL,
         fd # result[t]
  PROVE  desc[fd].peer # desc[result[t]].peer
<1> USE NullAssumption DEF Inv, PeersInv
<1>1. t \in Holders /\ result[t] \in Fds /\ desc[result[t]] # NULL /\ desc[result[t]].peer # NULL
  BY DEF Holders, TypeOK, Owned, HeldIsConnected
<1>2. ASSUME desc[fd].peer = desc[result[t]].peer PROVE FALSE
  <2>1. PICK u \in Threads : pc[u] = "ax_close" /\ {fd, result[t]} = {result[u], arg[u].s}
    BY <1>1, <1>2 DEF OneDescriptorEach, Opened, Free
  <2>2. u \in Holders /\ result[t] # result[u]
    BY <1>1, <2>1 DEF Holders, Owned
  <2>3. result[t] = arg[u].s /\ arg[u].s \in mine
    BY <1>1, <2>1, <2>2 DEF Located
  <2> QED BY <1>1, <2>3 DEF Owned
<1> QED BY <1>2

(* The steps inside AcceptEx preserve PeersInv. *)
LEMMA AcceptExKeepsPeers ==
  ASSUME Inv, Inv', PeersInv, NEW t \in Threads,
         \/ AcceptEx(t) \/ AcceptExAccept(t) \/ AcceptExDup(t) \/ AcceptExDupFails(t)
         \/ AcceptExClose(t)
  PROVE  PeersInv'
<1> USE NullAssumption, NullIsNoSocket DEF Inv, PeersInv
<1>1. CASE AcceptEx(t)
  <2>1. HeldIsConnected'
    BY <1>1 DEF AcceptEx, Goto, HeldIsConnected, Holders, TypeOK
  <2>2. OneDescriptorEach'
    <3>1. UNCHANGED <<desc, result>> /\ \A u \in Threads : pc[u] = "ax_close" =>
            pc'[u] = "ax_close" /\ arg'[u] = arg[u]
      BY <1>1 DEF AcceptEx, Goto, TypeOK
    <3> QED BY <3>1 DEF OneDescriptorEach, Opened, Free
  <2>3. ReplacedByDup'
    BY <1>1 DEF AcceptEx, Goto, ReplacedByDup, TypeOK
  <2> QED BY <2>1, <2>2, <2>3
<1>2. CASE AcceptExAccept(t)
  <2>1. PICK fd \in Free, p \in Absent : /\ desc' = [desc EXCEPT ![fd] = Connected(p)]
                                        /\ result' = [result EXCEPT ![t] = fd]
                                        /\ pc[t] = "ax_accept" /\ pc' = [pc EXCEPT ![t] = "ax_dup"]
                                        /\ UNCHANGED <<mine, arg>>
    BY <1>2 DEF AcceptExAccept, Goto
  <2>2. /\ fd \in Fds /\ desc[fd] = NULL /\ p \in Peers /\ p # NULL /\ desc'[fd].peer = p
        /\ \A other \in Fds \ {fd} : desc'[other] = desc[other]
        /\ \A other \in Fds : desc[other] # NULL => desc[other].peer # p
    BY <2>1 DEF Free, Absent, Opened, Connected, TypeOK
  <2>3. HeldIsConnected'
    <3>1. \A u \in Threads \ {t} : pc'[u] = pc[u] /\ result'[u] = result[u]
      BY <2>1 DEF TypeOK
    <3>2. \A u \in Holders : result[u] \in Fds /\ desc[result[u]] # NULL
      BY DEF Holders, TypeOK, Owned
    <3>3. result'[t] = fd
      BY <2>1 DEF TypeOK
    <3> QED BY <2>2, <3>1, <3>2, <3>3 DEF HeldIsConnected, Holders
  <2>4. OneDescriptorEach'
    <3> SUFFICES ASSUME NEW x \in Fds, NEW y \in Fds, desc'[x] # NULL, desc'[y] # NULL,
                        x # y, desc'[x].peer # NULL, desc'[x].peer = desc'[y].peer
                 PROVE  \E u \in Threads : pc'[u] = "ax_close" /\ {x, y} = {result'[u], arg'[u].s}
      BY DEF OneDescriptorEach, Opened, Free
    <3>1. x # fd /\ y # fd
      BY <2>2
    <3>2. PICK u \in Threads : pc[u] = "ax_close" /\ {x, y} = {result[u], arg[u].s}
      BY <2>2, <3>1 DEF OneDescriptorEach, Opened, Free
    <3>3. pc'[u] = pc[u] /\ result'[u] = result[u] /\ arg'[u] = arg[u]
      BY <2>1, <3>2 DEF TypeOK
    <3> QED BY <3>2, <3>3
  <2>5. ReplacedByDup'
    <3>1. \A u \in Threads : arg[u].s # NULL => arg[u].s \in Fds \ {fd}
      BY <2>2 DEF Located, Owned, TypeOK
    <3> QED BY <2>1, <2>2, <3>1 DEF ReplacedByDup, TypeOK
  <2> QED BY <2>3, <2>4, <2>5
<1>3. CASE AcceptExDup(t)
  <2> DEFINE s == arg[t].s
             r == result[t]
  <2>1. /\ pc[t] = "ax_dup" /\ pc' = [pc EXCEPT ![t] = "ax_close"] /\ s # NULL
        /\ desc' = [desc EXCEPT ![s] = desc[r]] /\ UNCHANGED <<mine, arg, result>>
    BY <1>3 DEF AcceptExDup, Goto
  <2>2. s \in Fds /\ r \in Fds /\ desc[r] # NULL /\ desc[s] # NULL /\ s # r
    BY <2>1 DEF TypeOK, Located, Owned, Holders
  <2>3. desc'[s] = desc[r] /\ \A fd \in Fds \ {s} : desc'[fd] = desc[fd]
    BY <2>1, <2>2 DEF TypeOK
  <2>4. \A fd \in Fds : desc[fd] # NULL /\ fd # r => desc[fd].peer # desc[r].peer
    BY <2>1, HeldAlone
  <2>5. Holders' = Holders /\ pc'[t] = "ax_close" /\ \A u \in Threads \ {t} : pc'[u] = pc[u]
    BY <2>1 DEF Holders, TypeOK
  <2>6. \A u \in Threads \ {t} : arg[u].s # s \/ arg[u].s = NULL
    BY <2>1 DEF Apart
  <2>7. HeldIsConnected'
    <3>1. \A u \in Holders : result[u] \in Fds \ {s}
      BY <2>1 DEF Holders, TypeOK, Owned, Located
    <3> QED BY <2>1, <2>3, <2>5, <3>1 DEF HeldIsConnected
  <2>8. OneDescriptorEach'
    <3> SUFFICES ASSUME NEW fd \in Fds, NEW other \in Fds, desc'[fd] # NULL, desc'[other] # NULL,
                        fd # other, desc'[fd].peer # NULL, desc'[fd].peer = desc'[other].peer
                 PROVE  \E u \in Threads : pc'[u] = "ax_close" /\ {fd, other} = {result'[u], arg'[u].s}
      BY DEF OneDescriptorEach, Opened, Free
    <3>1. CASE fd = s \/ other = s
      <4>1. {fd, other} = {r, s}
        BY <2>3, <2>4, <3>1
      <4> QED BY <2>1, <2>5, <4>1
    <3>2. CASE fd # s /\ other # s
      <4>1. PICK u \in Threads : pc[u] = "ax_close" /\ {fd, other} = {result[u], arg[u].s}
        BY <2>3, <3>2 DEF OneDescriptorEach, Opened, Free
      <4> QED BY <2>1, <2>5, <4>1
    <3> QED BY <3>1, <3>2
  <2>9. ReplacedByDup'
    <3>1. \A u \in Threads \ {t} : arg[u].s # NULL => desc'[arg[u].s] = desc[arg[u].s]
      BY <2>3, <2>6 DEF TypeOK
    <3>2. desc'[s].peer # arg[t].before
      BY <2>1, <2>2, <2>3, <2>4 DEF ReplacedByDup
    <3> QED BY <2>1, <2>5, <3>1, <3>2 DEF ReplacedByDup
  <2> QED BY <2>7, <2>8, <2>9
<1>4. CASE AcceptExDupFails(t) \/ AcceptExClose(t)
  <2> DEFINE r == result[t]
  <2>1. /\ t \in Holders /\ t \notin Holders' /\ desc' = [desc EXCEPT ![r] = NULL] /\ UNCHANGED mine
        /\ pc'[t] \in {"idle", "ax_recv"}
        /\ \A u \in Threads \ {t} : pc'[u] = pc[u] /\ arg'[u] = arg[u] /\ result'[u] = result[u]
        /\ pc'[t] = "ax_recv" => pc[t] = "ax_close" /\ arg'[t] = arg[t]
    BY <1>4 DEF AcceptExDupFails, AcceptExClose, Goto, Return, Leave, Holders, TypeOK
  <2>2. r \in Fds /\ desc'[r] = NULL /\ \A fd \in Fds \ {r} : desc'[fd] = desc[fd]
    BY <2>1 DEF Holders, TypeOK
  <2>3. \A u \in Threads : u \in Holders' => u \in Holders /\ u # t
    BY <2>1 DEF Holders
  <2>4. HeldIsConnected'
    <3>1. \A u \in Holders' : result'[u] = result[u] /\ result[u] \in Fds \ {r}
      BY <2>1, <2>3 DEF Holders, TypeOK, Owned
    <3> QED BY <2>2, <2>3, <3>1 DEF HeldIsConnected, Holders
  <2>5. OneDescriptorEach'
    <3> SUFFICES ASSUME NEW fd \in Fds, NEW other \in Fds, desc'[fd] # NULL, desc'[other] # NULL,
                        fd # other, desc'[fd].peer # NULL, desc'[fd].peer = desc'[other].peer
                 PROVE  \E u \in Threads : pc'[u] = "ax_close" /\ {fd, other} = {result'[u], arg'[u].s}
      BY DEF OneDescriptorEach, Opened, Free
    <3>1. fd # r /\ other # r
      BY <2>2
    <3>2. PICK u \in Threads : pc[u] = "ax_close" /\ {fd, other} = {result[u], arg[u].s}
      BY <2>2, <3>1 DEF OneDescriptorEach, Opened, Free
    <3>3. u # t
      BY <3>1, <3>2
    <3> QED BY <2>1, <3>2, <3>3
  <2>6. ReplacedByDup'
    <3>1. \A u \in Threads : arg[u].s # NULL => arg[u].s \in Fds \ {r}
      BY <2>1 DEF Located, Owned, TypeOK
    <3> QED BY <2>1, <2>2, <3>1 DEF ReplacedByDup
  <2> QED BY <2>4, <2>5, <2>6
<1> QED BY <1>1, <1>2, <1>3, <1>4

(* listen() preserves PeersInv. *)
LEMMA ListenKeepsPeers ==
  ASSUME Inv, PeersInv, NEW s \in Fds, Listen(s)
  PROVE  PeersInv'
<1> USE DEF Inv, PeersInv
<1>1. /\ \A fd \in Fds : desc'[fd] # NULL <=> desc[fd] # NULL
      /\ \A fd \in Fds : desc[fd] # NULL => desc'[fd].peer = desc[fd].peer
  BY KindOnly DEF Listen, Owned
<1>2. UNCHANGED <<pc, arg, result>> /\ Holders' = Holders
  BY DEF Listen, Holders
<1>3. \A u \in Holders : result[u] \in Fds /\ desc[result[u]] # NULL
  BY NullAssumption DEF Holders, TypeOK, Owned
<1>4. \A u \in Threads : arg[u].s # NULL => arg[u].s \in Fds /\ desc[arg[u].s] # NULL
  BY DEF Located, Owned, TypeOK
<1>5. HeldIsConnected'
  BY <1>1, <1>2, <1>3 DEF HeldIsConnected
<1>6. OneDescriptorEach'
  BY <1>1, <1>2 DEF OneDescriptorEach, Opened, Free
<1>7. ReplacedByDup'
  BY <1>1, <1>2, <1>4 DEF ReplacedByDup
<1> QED BY <1>5, <1>6, <1>7

(* So does every step. *)
LEMMA StepKeepsPeers == Inv /\ Inv' /\ PeersInv /\ [Next]_vars => PeersInv'
<1> SUFFICES ASSUME Inv, Inv', PeersInv, [Next]_vars PROVE PeersInv'
  OBVIOUS
<1>1. CASE UNCHANGED vars
  <2>1. HeldIsConnected'
    BY <1>1 DEF vars, PeersInv, HeldIsConnected, Holders
  <2>2. OneDescriptorEach'
    BY <1>1 DEF vars, PeersInv, OneDescriptorEach, Opened, Free
  <2>3. ReplacedByDup'
    BY <1>1 DEF vars, PeersInv, ReplacedByDup
  <2> QED BY <2>1, <2>2, <2>3 DEF PeersInv
<1>2. CASE \E s \in Fds : Listen(s)
  BY <1>2, ListenKeepsPeers
<1>3. ASSUME NEW t \in Threads,
             \/ AcceptEx(t) \/ AcceptExAccept(t) \/ AcceptExDup(t) \/ AcceptExDupFails(t)
             \/ AcceptExClose(t)
      PROVE  PeersInv'
  BY <1>3, AcceptExKeepsPeers
<1>4. ASSUME NEW t \in Threads, NEW n, Quiet(t, n) PROVE PeersInv'
  BY <1>4, QuietKeeps
<1> QED BY <1>1, <1>2, <1>3, <1>4, CallsAreQuiet DEF Next, AcceptExStep

(* PeersInv holds in every reachable state. *)
LEMMA PeersInvariance == Spec => []PeersInv
<1>1. Init => PeersInv
  BY DEF Init, PeersInv, HeldIsConnected, OneDescriptorEach, ReplacedByDup, Holders, Opened, Free, NoArg
<1> QED BY <1>1, Invariance, StepKeepsPeers, PTL DEF Spec

(* A connection has one descriptor, except while AcceptEx is moving it.    *)
THEOREM ConnectionsSingle == Spec => []OneDescriptorEach
<1>1. PeersInv => OneDescriptorEach
  BY DEF PeersInv
<1> QED BY <1>1, PeersInvariance, PTL

(* AcceptEx's last error tells the caller whether its socket was replaced. *)
THEOREM ErrorTells == Spec => CodeTellsIfReplaced
<1> DEFINE Tells == \A t \in Threads :
                      pc[t] \in AcceptPCs /\ pc'[t] = "idle" /\ arg[t].s # NULL =>
                        (last'.code \in {0, WSA("ECONNRESET")}
                           <=> desc[arg[t].s].peer # arg[t].before)
<1>1. Inv /\ PeersInv /\ [Next]_vars => [Tells]_vars
  <2> SUFFICES ASSUME Inv, PeersInv, Next, NEW t \in Threads, pc[t] \in AcceptPCs, pc'[t] = "idle",
                      arg[t].s # NULL
               PROVE  last'.code \in {0, WSA("ECONNRESET")} <=> desc[arg[t].s].peer # arg[t].before
    OBVIOUS
  <2>1. /\ WSA("ECONNREFUSED") \notin {0, WSA("ECONNRESET")}
        /\ WSA("EINVAL") \notin {0, WSA("ECONNRESET")}
    BY DEF WSA, Winsock, WSABASEERR
  <2>2. AcceptExAcceptFails(t) \/ AcceptExDupFails(t) \/ AcceptExRecvFails(t) \/ AcceptExReturn(t)
    <3>1. ASSUME NEW u \in Threads, pc[u] \in {"idle", "dx_close"},
                 pc' = [pc EXCEPT ![u] = "idle"] \/ pc' = [pc EXCEPT ![u] = "dx_close"]
                   \/ pc' = [pc EXCEPT ![u] = "ax_accept"]
          PROVE  FALSE
      BY <3>1 DEF Inv, TypeOK, AcceptPCs
    <3>2. ASSUME NEW u \in Threads,
                 \/ WSASocketA(u) \/ WSASocketPair(u) \/ WSAAccept(u) \/ WSAConnect(u)
                 \/ ioctlsocket(u) \/ WSAIoctl(u) \/ closesocket(u)
                 \/ CompletionPortCall(u) \/ WSADuplicateSocketA(u) \/ WSAEnumProtocolsA(u)
                 \/ DisconnectEx(u) \/ DisconnectExFails(u) \/ DisconnectExClose(u) \/ AcceptEx(u)
          PROVE  FALSE
      BY <3>1, <3>2 DEF WSASocketA, WSASocketPair, WSAAccept, WSAConnect, ioctlsocket, WSAIoctl,
           closesocket, CompletionPortCall, WSADuplicateSocketA, WSAEnumProtocolsA, DisconnectEx,
           DisconnectExFails, DisconnectExClose, AcceptEx, Idle, Goto, Sets, Return, Leave,
           set_wsa_error_from_errno
    <3>3. ASSUME NEW s \in Fds, Listen(s) PROVE FALSE
      BY <3>3 DEF Listen, AcceptPCs
    <3>4. PICK u \in Threads : AcceptExStep(u)
      BY <3>2, <3>3 DEF Next
    <3>5. u = t
      BY <3>4 DEF AcceptExStep, AcceptExAccept, AcceptExAcceptFails, AcceptExDup, AcceptExDupFails,
           AcceptExClose, AcceptExRecvFails, AcceptExReturn, Goto, Sets, Return, Leave, Inv, TypeOK,
           AcceptPCs
    <3> QED BY <3>4, <3>5 DEF AcceptExStep, AcceptExAccept, AcceptExDup, AcceptExClose, Goto, Inv, TypeOK
  <2>3. CASE AcceptExAcceptFails(t)
    BY <2>1, <2>3 DEF AcceptExAcceptFails, Sets, Return, Leave, PeersInv, ReplacedByDup
  <2>4. CASE AcceptExDupFails(t)
    BY <2>1, <2>4 DEF AcceptExDupFails, Return, Leave, PeersInv, ReplacedByDup
  <2>5. CASE AcceptExRecvFails(t)
    BY <2>5 DEF AcceptExRecvFails, Sets, Return, Leave, PeersInv, ReplacedByDup
  <2>6. CASE AcceptExReturn(t)
    BY <2>6 DEF AcceptExReturn, Return, Leave, PeersInv, ReplacedByDup
  <2> QED BY <2>2, <2>3, <2>4, <2>5, <2>6
<1> QED BY <1>1, Invariance, PeersInvariance, PTL DEF Spec, CodeTellsIfReplaced
(***************************************************************************)
(* What the latest step returned                                           *)
(***************************************************************************)
(* Two errors of the table differ on either side of it, and the numbers    *)
(* from 35 to 71 are all Winsock's.                                        *)
LEMMA TableIsOneToOne ==
  /\ \A name, other \in Cased : Errno[name] = Errno[other] => name = other
  /\ \A name, other \in DOMAIN Winsock : Winsock[name] = Winsock[other] => name = other
  /\ \A n \in 35..71 : \E name \in DOMAIN Winsock : Winsock[name] = n
<1>1. \A name, other \in Cased : Errno[name] = Errno[other] => name = other
  BY SMTT(30) DEF Cased, Errno
<1>2. \A name, other \in DOMAIN Winsock : Winsock[name] = Winsock[other] => name = other
  BY SMTT(30) DEF Winsock
<1>3. \A n \in 35..71 : \E name \in DOMAIN Winsock : Winsock[name] = n
  BY SMTT(30) DEF Winsock
<1> QED BY <1>1, <1>2, <1>3

(* No error with a case is mistaken.                                       *)
LEMMA CasedNotMistaken ==
  \A name \in Cased : name \in DOMAIN Winsock /\ Errno[name] \notin Mistaken
  BY SMTT(30) DEF Cased, Errno, Winsock, Mistaken

(* Every Winsock number is a mistaken one's, or that of an error with a    *)
(* case.                                                                   *)
LEMMA NumbersTaken ==
  \A name \in DOMAIN Winsock :
    /\ Winsock[name] \in Nat
    /\ Winsock[name] \in Mistaken \/ \E other \in Cased : Errno[other] = Winsock[name]
  BY SMTT(30) DEF Cased, Errno, Winsock, Mistaken

(* errno_to_wsa_error makes of a mistaken error the code of another, and   *)
(* of any other error a code that is the code of that error only.          *)
LEMMA CodeNames ==
  ASSUME NEW err \in Nat \ {0}
  PROVE  IF err \in Mistaken
         THEN \E name \in DOMAIN Winsock :
                errno_to_wsa_error(err) = WSA(name) /\ (name \in Cased => err # Errno[name])
         ELSE \A name \in DOMAIN Winsock :
                errno_to_wsa_error(err) = WSA(name) <=> name \in Cased /\ err = Errno[name]
<1>0. \A name, other \in DOMAIN Winsock : WSA(name) = WSA(other) => name = other
  BY TableIsOneToOne, NumbersTaken DEF WSA, WSABASEERR
<1>1. CASE \E other \in Cased : Errno[other] = err
  <2> DEFINE chosen == CHOOSE other \in Cased : Errno[other] = err
  <2>1. chosen \in Cased /\ Errno[chosen] = err
    BY <1>1
  <2>2. errno_to_wsa_error(err) = WSA(chosen)
    BY <1>1 DEF errno_to_wsa_error
  <2> HIDE DEF chosen
  <2>3. err \notin Mistaken /\ chosen \in DOMAIN Winsock
    BY <2>1, CasedNotMistaken
  <2> QED BY <1>0, <2>1, <2>2, <2>3, TableIsOneToOne
<1>2. CASE \A other \in Cased : Errno[other] # err
  <2>1. errno_to_wsa_error(err) = WSABASEERR + err
    BY <1>2 DEF errno_to_wsa_error
  <2>2. \A name \in DOMAIN Winsock : errno_to_wsa_error(err) = WSA(name) <=> Winsock[name] = err
    BY <2>1, NumbersTaken DEF WSA, WSABASEERR
  <2>3. CASE err \in Mistaken
    <3>1. err \in 35..71
      BY <2>3 DEF Mistaken
    <3> QED BY <1>2, <2>2, <2>3, <3>1, TableIsOneToOne
  <2>4. CASE err \notin Mistaken
    BY <1>2, <2>2, <2>4, NumbersTaken
  <2> QED BY <2>3, <2>4
<1> QED BY <1>1, <1>2

(* The errors that the system calls leave in errno.                        *)
SystemErrors ==
  SocketErrors \cup AcceptErrors \cup ConnectErrors \cup IoctlErrors \cup {Errno.EBADF}

(* A step returns nothing, a code of its own, or the code of a system      *)
(* call's error.                                                           *)
Returns(r) ==
  r.errno = 0 \/ \E err \in SystemErrors : r.errno = err /\ r.code = errno_to_wsa_error(err)

(* Every call leaves its last error in that way.                           *)
LEMMA StepReturns == ASSUME [Next]_vars, Returns(last) PROVE Returns(last')
<1>1. ASSUME NEW t, NEW code, Return(t, code) PROVE Returns(last')
  BY <1>1 DEF Return, Leave, Returns
<1>2. ASSUME NEW t, NEW codes, Sets(t, codes) PROVE Returns(last')
  BY <1>1, <1>2 DEF Sets
<1>3. ASSUME NEW t, NEW errs \in SUBSET SystemErrors, set_wsa_error_from_errno(t, errs)
      PROVE  Returns(last')
  BY <1>3 DEF set_wsa_error_from_errno, Leave, Returns
<1>4. ASSUME NEW t, NEW from, NEW to, Goto(t, from, to) PROVE Returns(last')
  BY <1>4 DEF Goto, NoReturn, Returns
<1>5. /\ SocketErrors \in SUBSET SystemErrors /\ AcceptErrors \in SUBSET SystemErrors
      /\ ConnectErrors \in SUBSET SystemErrors /\ IoctlErrors \in SUBSET SystemErrors
      /\ {Errno.EBADF} \in SUBSET SystemErrors
  BY DEF SystemErrors
<1>6. ASSUME NEW t \in Threads,
             \/ WSASocketA(t) \/ WSASocketPair(t) \/ WSAAccept(t) \/ WSAConnect(t)
             \/ ioctlsocket(t) \/ WSAIoctl(t) \/ closesocket(t)
             \/ CompletionPortCall(t) \/ WSADuplicateSocketA(t) \/ WSAEnumProtocolsA(t)
      PROVE  Returns(last')
  <2>1. \/ \E code : Return(t, code)
        \/ \E codes : Sets(t, codes)
        \/ \E errs \in SUBSET SystemErrors : set_wsa_error_from_errno(t, errs)
    BY <1>5, <1>6, Zenon DEF WSASocketA, WSASocketPair, WSAAccept, WSAConnect, ioctlsocket, WSAIoctl,
         closesocket, CompletionPortCall, WSADuplicateSocketA, WSAEnumProtocolsA
  <2> QED BY <1>1, <1>2, <1>3, <2>1
<1>7. ASSUME NEW t \in Threads,
             DisconnectEx(t) \/ DisconnectExFails(t) \/ DisconnectExClose(t) \/ AcceptEx(t)
      PROVE  Returns(last')
  <2>1. \/ \E code : Return(t, code)
        \/ \E codes : Sets(t, codes)
        \/ \E from, to : Goto(t, from, to)
    BY <1>7, Zenon DEF DisconnectEx, DisconnectExFails, DisconnectExClose, AcceptEx
  <2> QED BY <1>1, <1>2, <1>4, <2>1
<1>8. ASSUME NEW t \in Threads, AcceptExStep(t) PROVE Returns(last')
  <2>1. \/ \E code : Return(t, code)
        \/ \E codes : Sets(t, codes)
        \/ \E from, to : Goto(t, from, to)
    BY <1>8, Zenon DEF AcceptExStep, AcceptExAccept, AcceptExAcceptFails, AcceptExDup,
         AcceptExDupFails, AcceptExClose, AcceptExRecvFails, AcceptExReturn
  <2> QED BY <1>1, <1>2, <1>4, <2>1
<1>9. ASSUME NEW s \in Fds, Listen(s) PROVE Returns(last')
  BY <1>9 DEF Listen, NoReturn, Returns
<1>10. CASE UNCHANGED vars
  BY <1>10 DEF vars
<1> QED BY <1>6, <1>7, <1>8, <1>9, <1>10 DEF Next

(* So at every moment.                                                     *)
LEMMA ReturnsInvariance == Spec => []Returns(last)
<1>1. Init => Returns(last)
  BY DEF Init, NoReturn, Returns
<1>2. Returns(last) /\ [Next]_vars => Returns(last)'
  BY StepReturns
<1> QED BY <1>1, <1>2, PTL DEF Spec

(* A code that was translated from errno is the one of the same name and   *)
(* no other's, whatever the error, but for the mistaken ones, which always *)
(* come out as another.                                                    *)
THEOREM CodesTell == Spec => []CodesNameTheError
<1>1. Returns(last) => CodesNameTheError
  <2> SUFFICES ASSUME Returns(last), last.errno # 0 PROVE CodesNameTheError
    BY DEF CodesNameTheError
  <2>1. last.errno \in SystemErrors /\ last.code = errno_to_wsa_error(last.errno)
    BY DEF Returns
  <2>2. last.errno \in Nat \ {0}
    BY <2>1, ErrorsAssumption DEF SystemErrors, Errno
  <2> QED BY <2>1, <2>2, CodeNames DEF CodesNameTheError
<1> QED BY <1>1, ReturnsInvariance, PTL
=============================================================================
