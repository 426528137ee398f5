------------------------------- MODULE StreamIO -------------------------------
(***************************************************************************)
(* Sending and receiving on one connected stream socket:                   *)
(*   - WSASend, WSASendTo, WSASendMsg (wsa_extended.c), which gather their *)
(*     buffers with an allocated iovec array into one system call;         *)
(*   - WSARecv, WSARecvFrom, WSARecvMsg, which scatter likewise;           *)
(*   - TransmitFile and TransmitPackets (ms_extensions.c), one system call *)
(*     for each of several parts; ConnectEx, which sends after connecting. *)
(* A byte is <<id, p, i>>: the i-th of part p of what call number id was   *)
(* given to send.                                                          *)
(***************************************************************************)
EXTENDS Naturals, Sequences, FiniteSets

(* As in WSAEvents, MutX is X with a bug in it, for README.md's table.     *)

CONSTANTS Threads,  \* threads at either end
          Jobs,     \* what is asked to be sent: [api, parts, ends], parts the lengths,
                    \* ends the parts that are files and may end before that
          Reads,    \* lengths of the buffers given to a receive
          Capacity, \* bytes the kernel holds for the stream
          MaxCalls  \* bound on the number of sending calls

Gathering == {"WSASend", "WSASendTo", "WSASendMsg"}
MultiPart == {"TransmitFile", "TransmitPackets"}

ASSUME JobsAssumption ==
  /\ Jobs # {}
  /\ \A j \in Jobs : /\ j.api \in Gathering \cup MultiPart \cup {"ConnectEx"}
                     /\ j.parts \in Seq(Nat \ {0})
                     /\ j.parts # <<>>
                     /\ j.ends \subseteq DOMAIN j.parts
                     /\ j.api \notin MultiPart => Len(j.parts) = 1 /\ j.ends = {}
ASSUME ReadsAssumption == Reads \subseteq Nat \ {0}
ASSUME BoundsAssumption == Capacity \in Nat \ {0} /\ MaxCalls \in Nat

VARIABLES sent,        \* the bytes the stream has accepted, in order
          taken,       \* how many of them receiving calls have taken out
          conn,        \* "new", "pending", "open" or "reset"
          nonblocking, \* the socket's O_NONBLOCK flag
          calls,       \* number of sending calls begun
          pc,          \* pc[t]: where thread t is
          job,         \* job[t]: the job of its sending call
          id,          \* id[t]: the number of that call
          part,        \* part[t]: which part it is sending
          done,        \* done[t]: bytes of the part its system call has put in
          flags,       \* flags[t]: the flags its receiving call gives the system call
          want,        \* want[t]: the room left in that call's buffers
          got,         \* got[t]: the places in the stream of the bytes put in them
          iovs,        \* threads whose iovec array is allocated
          short,       \* threads one of whose sends has come up short
          received,    \* the places of the bytes taken out that calls have reported
          finished     \* sending calls that have returned

stream == <<sent, taken, conn, nonblocking>>
history == <<calls, received, finished>>
sending == <<job, id, part, done, short>>
receiving == <<flags, want, got>>
vars == <<stream, history, pc, sending, receiving, iovs>>

Init ==
  /\ sent = <<>>
  /\ taken = 0
  /\ conn \in {"new", "open"}
  /\ nonblocking \in BOOLEAN
  /\ calls = 0
  /\ pc = [t \in Threads |-> "idle"]
  /\ job = [t \in Threads |-> CHOOSE j \in Jobs : TRUE]   \* not yet looked at
  /\ id = [t \in Threads |-> 0]
  /\ part = [t \in Threads |-> 0]
  /\ done = [t \in Threads |-> 0]
  /\ flags = [t \in Threads |-> "none"]
  /\ want = [t \in Threads |-> 0]
  /\ got = [t \in Threads |-> {}]
  /\ iovs = {}
  /\ short = {}
  /\ received = {}
  /\ finished = {}

Goto(t, from, to) == pc[t] = from /\ pc' = [pc EXCEPT ![t] = to]

Least(m, n) == IF m < n THEN m ELSE n

(***************************************************************************)
(* The socket, as the network and other calls change it.                   *)
(***************************************************************************)
(* ioctlsocket(FIONBIO) and WSAEventSelect change the flag. *)
SetNonblocking ==
  /\ nonblocking' = ~nonblocking
  /\ UNCHANGED <<sent, taken, conn, history, pc, sending, receiving, iovs>>

PeerResets ==
  /\ conn = "open"
  /\ conn' = "reset"
  /\ UNCHANGED <<sent, taken, nonblocking, history, pc, sending, receiving, iovs>>

ConnectCompletes ==
  /\ conn = "pending"
  /\ conn' = "open"
  /\ UNCHANGED <<sent, taken, nonblocking, history, pc, sending, receiving, iovs>>

(***************************************************************************)
(* Beginning and ending a sending call.                                    *)
(***************************************************************************)
Send(t, apis, to) ==
  /\ calls < MaxCalls
  /\ Goto(t, "idle", to)
  /\ \E j \in Jobs : j.api \in apis /\ job' = [job EXCEPT ![t] = j]
  /\ calls' = calls + 1
  /\ id' = [id EXCEPT ![t] = calls + 1]
  /\ part' = [part EXCEPT ![t] = 1]
  /\ done' = [done EXCEPT ![t] = 0]
  /\ short' = short \ {t}
  /\ UNCHANGED <<stream, received, finished, receiving, iovs>>

(* The call returns ok, having stored n as the number of bytes sent (only  *)
(* the calls with one part have somewhere to store it).                    *)
Return(t, from, ok, n) ==
  /\ Goto(t, from, "idle")
  /\ finished' = finished \cup {[id |-> id[t], job |-> job[t], ok |-> ok, bytes |-> n,
                                 short |-> t \in short]}
  /\ UNCHANGED <<stream, calls, received, sending, receiving>>

(***************************************************************************)
(* WSASend, WSASendTo, WSASendMsg                                          *)
(***************************************************************************)
Gather(t) == Send(t, Gathering, "alloc")

GatherAlloc(t) ==
  /\ Goto(t, "alloc", "send")
  /\ iovs' = iovs \cup {t}
  /\ UNCHANGED <<stream, history, sending, receiving>>

GatherAllocFails(t) == Return(t, "alloc", FALSE, 0) /\ UNCHANGED iovs

MutGatherReturn(t) ==   \* stores the length asked for
  /\ t \in iovs
  /\ iovs' = iovs \ {t}
  /\ Return(t, "sent", TRUE, job[t].parts[1])

(* The array is freed before the result is looked at. *)
GatherReturn(t) ==
  /\ t \in iovs
  /\ iovs' = iovs \ {t}
  /\ Return(t, "sent", TRUE, done[t])

MutGatherFails(t) == t \in iovs /\ Return(t, "failed", FALSE, 0) /\ UNCHANGED iovs   \* no free()

GatherFails(t) ==
  /\ t \in iovs
  /\ iovs' = iovs \ {t}
  /\ Return(t, "failed", FALSE, 0)

(***************************************************************************)
(* The system calls that send: writev, sendmsg, send, sendfile.            *)
(***************************************************************************)
Room == Capacity - (Len(sent) - taken)
Remaining(t) == job[t].parts[part[t]] - done[t]

(* The next n bytes of the part go in behind all others. *)
Put(t, n) ==
  /\ sent' = sent \o [i \in 1..n |-> <<id[t], part[t], done[t] + i>>]
  /\ done' = [done EXCEPT ![t] = @ + n]
  /\ UNCHANGED <<taken, conn, nonblocking, history, job, id, part, receiving, iovs>>

(* As much as there is room for goes in.  A blocking call stays until all  *)
(* of it is in; another thread's bytes may then come between.              *)
SysSend(t) ==
  LET n == Least(Room, Remaining(t))
  IN /\ pc[t] = "send"
     /\ conn = "open"
     /\ n > 0
     /\ Put(t, n)
     /\ IF n = Remaining(t) \/ nonblocking
        THEN pc' = [pc EXCEPT ![t] = "sent"]
        ELSE UNCHANGED pc
     /\ short' = IF n < Remaining(t) /\ nonblocking THEN short \cup {t} ELSE short

(* sendfile returns when the file ends, having put in what there was of it, *)
(* possibly nothing: that is no error.                                     *)
SysSendEnds(t) ==
  /\ part[t] \in job[t].ends
  /\ Goto(t, "send", "sent")
  /\ \E n \in 0..Room : /\ n < Remaining(t)
                        /\ n > 0 => conn = "open"
                        /\ Put(t, n)
  /\ short' = short \cup {t}

(* A blocked call is cut short by a signal or a reset: it returns what it  *)
(* has put in...                                                           *)
SysSendCut(t) ==
  /\ done[t] > 0
  /\ Goto(t, "send", "sent")
  /\ short' = short \cup {t}
  /\ UNCHANGED <<stream, history, job, id, part, done, receiving, iovs>>

(* ... or fails if that is nothing: EAGAIN, EINTR, ECONNRESET, ENOTCONN.   *)
SysSendFails(t) ==
  /\ done[t] = 0
  /\ conn # "open" \/ Room = 0
  /\ Goto(t, "send", "failed")
  /\ UNCHANGED <<stream, history, sending, receiving, iovs>>

(***************************************************************************)
(* TransmitFile (head, file, tail) and TransmitPackets: the result of a    *)
(* part's system call is only tested for being negative.                   *)
(***************************************************************************)
Transmit(t) == Send(t, MultiPart, "send")

MutTransmitNext(t) ==   \* one part too many
  /\ job[t].api \in MultiPart
  /\ part[t] <= Len(job[t].parts)
  /\ Goto(t, "sent", "send")
  /\ part' = [part EXCEPT ![t] = @ + 1]
  /\ done' = [done EXCEPT ![t] = 0]
  /\ UNCHANGED <<stream, history, job, id, short, receiving, iovs>>

TransmitNext(t) ==
  /\ job[t].api \in MultiPart
  /\ part[t] < Len(job[t].parts)
  /\ Goto(t, "sent", "send")
  /\ part' = [part EXCEPT ![t] = @ + 1]
  /\ done' = [done EXCEPT ![t] = 0]
  /\ UNCHANGED <<stream, history, job, id, short, receiving, iovs>>

MutTransmitReturn(t) ==   \* one part too few
  /\ job[t].api \in MultiPart
  /\ part[t] + 1 >= Len(job[t].parts)
  /\ Return(t, "sent", TRUE, 0)
  /\ UNCHANGED iovs

TransmitReturn(t) ==
  /\ job[t].api \in MultiPart
  /\ part[t] = Len(job[t].parts)
  /\ Return(t, "sent", TRUE, 0)
  /\ UNCHANGED iovs

TransmitFails(t) ==
  /\ job[t].api \in MultiPart
  /\ Return(t, "failed", FALSE, 0)
  /\ UNCHANGED iovs

(***************************************************************************)
(* ConnectEx                                                               *)
(***************************************************************************)
ConnectEx(t) == Send(t, {"ConnectEx"}, "connect")

(* connect() on a blocking socket waits for the connection. *)
Connect(t) ==
  /\ conn = "new"
  /\ ~nonblocking
  /\ conn' = "open"
  /\ Goto(t, "connect", "send")
  /\ UNCHANGED <<sent, taken, nonblocking, history, sending, receiving, iovs>>

(* On a non-blocking one it starts it (EINPROGRESS, WSA_IO_PENDING); and   *)
(* it fails when the peer refuses or the socket is not new.  The data is   *)
(* not sent, neither now nor when the connection is there.                 *)
ConnectFails(t) ==
  /\ Goto(t, "connect", "idle")
  /\ conn' = IF conn = "new" /\ nonblocking THEN "pending" ELSE conn
  /\ finished' = finished \cup {[id |-> id[t], job |-> job[t], ok |-> FALSE, bytes |-> 0,
                                 short |-> FALSE]}
  /\ UNCHANGED <<sent, taken, nonblocking, calls, received, sending, receiving, iovs>>

ConnectExReturn(t) ==
  /\ job[t].api = "ConnectEx"
  /\ \/ Return(t, "sent", TRUE, done[t])
     \/ Return(t, "failed", FALSE, 0)
  /\ UNCHANGED iovs

(***************************************************************************)
(* WSARecv, WSARecvFrom, WSARecvMsg.  WSARecv ignores the flags it is      *)
(* given (it is one of the calls without flags here); the others hand      *)
(* theirs to recvmsg, where MSG_PEEK leaves the bytes in the stream and    *)
(* MSG_WAITALL waits until the buffers are full.                           *)
(***************************************************************************)
RecvFlags == {"none", "peek", "waitall"}

Scatter(t) ==
  /\ Goto(t, "idle", "recv_alloc")
  /\ UNCHANGED <<stream, history, sending, receiving, iovs>>

(* The array describes the buffers, which have n bytes of room. *)
ScatterAlloc(t) ==
  /\ Goto(t, "recv_alloc", "recv")
  /\ iovs' = iovs \cup {t}
  /\ \E n \in Reads, f \in RecvFlags :
       /\ want' = [want EXCEPT ![t] = n]
       /\ flags' = [flags EXCEPT ![t] = f]
  /\ got' = [got EXCEPT ![t] = {}]
  /\ UNCHANGED <<stream, history, sending>>

ScatterAllocFails(t) ==
  /\ Goto(t, "recv_alloc", "idle")
  /\ UNCHANGED <<stream, history, sending, receiving, iovs>>

(* readv, recvmsg: what is there goes into the buffers, as far as they     *)
(* have room.  With MSG_WAITALL a blocking call stays until they are full; *)
(* other calls may then take what comes between.                           *)
SysRecv(t) ==
  LET n == Least(want[t], Len(sent) - taken)
  IN /\ pc[t] = "recv"
     /\ n > 0
     /\ want' = [want EXCEPT ![t] = @ - n]
     /\ got' = [got EXCEPT ![t] = @ \cup ((taken + 1)..(taken + n))]
     /\ taken' = IF flags[t] = "peek" THEN taken ELSE taken + n
     /\ IF flags[t] = "waitall" /\ n < want[t] /\ ~nonblocking
        THEN UNCHANGED pc
        ELSE pc' = [pc EXCEPT ![t] = "recv_done"]
     /\ UNCHANGED <<sent, conn, nonblocking, history, sending, flags, iovs>>

(* A call that waits for more is cut short by a signal or a reset: it      *)
(* returns what it has...                                                  *)
SysRecvCut(t) ==
  /\ got[t] # {}
  /\ Goto(t, "recv", "recv_done")
  /\ UNCHANGED <<stream, history, sending, receiving, iovs>>

(* ... or fails if that is nothing: EAGAIN, EINTR, ENOTCONN, or a reset.   *)
SysRecvFails(t) ==
  /\ got[t] = {}
  /\ Len(sent) = taken \/ conn = "reset"
  /\ Goto(t, "recv", "recv_done")
  /\ UNCHANGED <<stream, history, sending, receiving, iovs>>

(* The places in the stream of what it has taken out into the buffers.     *)
Delivered(t) == IF flags[t] = "peek" THEN {} ELSE got[t]

MutScatterReturn(t) ==   \* reports that there is data, not how much
  /\ Goto(t, "recv_done", "idle")
  /\ iovs' = iovs \ {t}
  /\ received' = received \cup {i \in Delivered(t) : \A k \in Delivered(t) : i <= k}
  /\ flags' = [flags EXCEPT ![t] = "none"]
  /\ want' = [want EXCEPT ![t] = 0]
  /\ got' = [got EXCEPT ![t] = {}]
  /\ UNCHANGED <<stream, calls, finished, sending>>

(* The call reports what is in the buffers (received keeps only the bytes  *)
(* it took: those that it peeked at are reported again by another call).   *)
ScatterReturn(t) ==
  /\ Goto(t, "recv_done", "idle")
  /\ iovs' = iovs \ {t}
  /\ received' = received \cup Delivered(t)
  /\ flags' = [flags EXCEPT ![t] = "none"]
  /\ want' = [want EXCEPT ![t] = 0]
  /\ got' = [got EXCEPT ![t] = {}]
  /\ UNCHANGED <<stream, calls, finished, sending>>

-----------------------------------------------------------------------------
Next ==
  \/ SetNonblocking \/ PeerResets \/ ConnectCompletes
  \/ \E t \in Threads :
       \/ Gather(t) \/ GatherAlloc(t) \/ GatherAllocFails(t)
       \/ GatherReturn(t) \/ GatherFails(t)
       \/ SysSend(t) \/ SysSendEnds(t) \/ SysSendCut(t) \/ SysSendFails(t)
       \/ Transmit(t) \/ TransmitNext(t) \/ TransmitReturn(t) \/ TransmitFails(t)
       \/ ConnectEx(t) \/ Connect(t) \/ ConnectFails(t) \/ ConnectExReturn(t)
       \/ Scatter(t) \/ ScatterAlloc(t) \/ ScatterAllocFails(t)
       \/ SysRecv(t) \/ SysRecvCut(t) \/ SysRecvFails(t) \/ ScatterReturn(t)

Spec == Init /\ [][Next]_vars

-----------------------------------------------------------------------------
(***************************************************************************)
(* Properties                                                              *)
(***************************************************************************)
SendingPCs == {"alloc", "connect", "send", "sent", "failed"}
ReceivingPCs == {"recv_alloc", "recv", "recv_done"}

(* The type invariant; a sending call is at one of its own parts, and the  *)
(* kernel never holds more than it has room for.                           *)
TypeOK ==
  /\ sent \in Seq((1..MaxCalls) \X (Nat \ {0}) \X (Nat \ {0}))
  /\ taken \in 0..Len(sent)
  /\ Len(sent) - taken <= Capacity
  /\ conn \in {"new", "pending", "open", "reset"}
  /\ nonblocking \in BOOLEAN
  /\ calls \in 0..MaxCalls
  /\ pc \in [Threads -> {"idle"} \cup SendingPCs \cup ReceivingPCs]
  /\ job \in [Threads -> Jobs]
  /\ id \in [Threads -> 0..MaxCalls]
  /\ part \in [Threads -> Nat]
  /\ \A t \in Threads : pc[t] \in SendingPCs => part[t] \in DOMAIN job[t].parts
  /\ done \in [Threads -> Nat]
  /\ flags \in [Threads -> RecvFlags]
  /\ want \in [Threads -> Nat]
  /\ got \in [Threads -> SUBSET (Nat \ {0})]
  /\ iovs \in SUBSET Threads
  /\ short \in SUBSET Threads
  /\ received \subseteq 1..taken
  /\ \A c \in finished : c.id \in 1..MaxCalls /\ c.job \in Jobs

(* Every call frees its iovec array, and frees it once: on success, on an  *)
(* error of the system call, and not when it could not be allocated.       *)
IovsOwned ==
  iovs = {t \in Threads : \/ pc[t] \in {"recv", "recv_done"}
                          \/ pc[t] \in {"send", "sent", "failed"} /\ job[t].api \in Gathering}

(* What the stream holds of the data of call number c, each byte as its    *)
(* part and its place there.                                               *)
InStream(c) ==
  {<<sent[k][2], sent[k][3]>> : k \in {k \in DOMAIN sent : sent[k][1] = c}}

(* A byte of an earlier part, or an earlier byte of the same part.         *)
Before(a, b) == a[2] < b[2] \/ (a[2] = b[2] /\ a[3] < b[3])

(* The stream has them in their order, each once.                          *)
InOrder(c) ==
  \A k, m \in DOMAIN sent :
    k < m /\ sent[k][1] = c /\ sent[m][1] = c => Before(sent[k], sent[m])

(* What a call with one part reports is what it did: exactly the first     *)
(* `bytes' bytes of its data are in the stream, none if it failed.         *)
ReportedIsSent ==
  \A c \in finished :
    c.job.api \notin MultiPart => InStream(c.id) = {1} \X (1..c.bytes) /\ InOrder(c.id)

(* TransmitFile and TransmitPackets: TRUE means that all the data is in    *)
(* the stream and in order, provided that no send came up short and no     *)
(* file ended early.                                                       *)
WholeUnlessShort ==
  \A c \in finished :
    c.job.api \in MultiPart /\ c.ok /\ ~c.short =>
      /\ InStream(c.id) = UNION {{p} \X (1..c.job.parts[p]) : p \in DOMAIN c.job.parts}
      /\ InOrder(c.id)

(* Every byte that a receive takes out of the stream is reported to the    *)
(* application, by that receive and once: none is lost on the way, be it   *)
(* that a peek took it out or that a waiting call got it in several goes   *)
(* with others in between, and no two calls that take report the same.     *)
TakenIsReported ==
  LET pending == {t \in Threads : pc[t] \in {"recv", "recv_done"}}
  IN /\ 1..taken = received \cup UNION {Delivered(t) : t \in pending}
     /\ \A t \in pending : /\ Delivered(t) \cap received = {}
                          /\ \A u \in pending \ {t} : Delivered(t) \cap Delivered(u) = {}

(* What the stream holds of a call's data has no holes.  (It does when a   *)
(* part came up short and the next part was sent all the same.)            *)
NoHoles ==
  \A c \in finished : \A b \in InStream(c.id) :
    UNION {{p} \X (1..c.job.parts[p]) : p \in 1..(b[1] - 1)} \subseteq InStream(c.id)
=============================================================================
