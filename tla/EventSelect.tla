----------------------------- MODULE EventSelect -----------------------------
(***************************************************************************)
(* WSAEventSelect, WSAEnumNetworkEvents and the monitor threads            *)
(* (wsa_events.c), with the closesocket (winsock2.c) that does not know    *)
(* about them.  A mapping is a block on the list g_socket_event_map; it    *)
(* owns an epoll instance that watches one socket and a detached thread    *)
(* that sets the mapping's event whenever epoll reports the socket.  The   *)
(* list is guarded by g_map_mutex, which the monitors do not take.  Events *)
(* are set and reset at one instant: module WSAEvents shows that they are. *)
(***************************************************************************)
EXTENDS Naturals, Sequences

(* As in WSAEvents, MutX is X with a bug in it, for README.md's table.     *)

CONSTANTS Threads,    \* threads of the application
          Sockets,    \* descriptor numbers the kernel gives to sockets
          Events,     \* event handles
          Maps,       \* addresses malloc can return for a SocketEventMap
          Masks,      \* lNetworkEvents arguments, as sets of FD_ names
          Conditions, \* what can become true of a socket, as epoll bits
          NULL

ASSUME NullAssumption == NULL \notin Threads \cup Sockets \cup Events \cup Maps

VARIABLES open,          \* open[s]: descriptor s is a socket
          nonblocking,   \* nonblocking[s]: its O_NONBLOCK flag
          conditions,    \* conditions[s]: the epoll bits true of the socket
          state,         \* state[e]: "closed", "unset" or "set"
          list,          \* g_socket_event_map, head first
          allocated,     \* the allocated SocketEventMap blocks
          epolls,        \* blocks whose epoll instance is open
          sock,          \* the members of a block: sock[m]
          event,         \*   event[m]
          networkEvents, \*   network_events of m
          running,       \*   running[m]
          interest,      \* the epoll bits m's epoll instance was asked for
          watching,      \* watching[m]: it still watches a socket
          mutex,         \* g_map_mutex: the thread that holds it, or NULL
          monitor,       \* monitor[m]: where m's monitor thread is
          loaded,        \* loaded[m]: the event it is about to set
          pc,            \* pc[t]: where thread t is
          arg,           \* arg[t]: the arguments of its call
          map,           \* map[t]: its local of that name
          result,        \* result[t]: what t's last call returned, its error code left out
          wanted         \* wanted[s]: what has been asked of s, successfully, since it
                         \*   was last opened or closed

sockets == <<open, nonblocking, conditions>>
blocks == <<list, allocated, epolls, sock, event, networkEvents, running, interest, watching>>
monitors == <<monitor, loaded>>
locals == <<pc, arg, map, result>>
vars == <<sockets, state, blocks, mutex, monitors, locals, wanted>>

NoArg == [s |-> NULL, e |-> NULL, mask |-> {}]

Init ==
  /\ open = [s \in Sockets |-> FALSE]
  /\ nonblocking = [s \in Sockets |-> FALSE]
  /\ conditions = [s \in Sockets |-> {}]
  /\ state = [e \in Events |-> "closed"]
  /\ list = <<>>
  /\ allocated = {}
  /\ epolls = {}
  /\ sock = [m \in Maps |-> NULL]
  /\ event = [m \in Maps |-> NULL]
  /\ networkEvents = [m \in Maps |-> {}]
  /\ running = [m \in Maps |-> FALSE]
  /\ interest = [m \in Maps |-> {}]
  /\ watching = [m \in Maps |-> FALSE]
  /\ mutex = NULL
  /\ monitor = [m \in Maps |-> "none"]
  /\ loaded = [m \in Maps |-> NULL]
  /\ pc = [t \in Threads |-> "idle"]
  /\ arg = [t \in Threads |-> NoArg]
  /\ map = [t \in Threads |-> NULL]
  /\ result = [t \in Threads |-> "none"]
  /\ wanted = [s \in Sockets |-> NoArg]

Listed == {list[i] : i \in DOMAIN list}

(* The translation of lNetworkEvents to epoll bits. *)
EpollMask(mask) ==
  {bit \in {"EPOLLIN", "EPOLLOUT", "EPOLLPRI", "EPOLLRDHUP"} :
     \/ bit = "EPOLLIN" /\ mask \cap {"FD_READ", "FD_ACCEPT"} # {}
     \/ bit = "EPOLLOUT" /\ mask \cap {"FD_WRITE", "FD_CONNECT"} # {}
     \/ bit = "EPOLLPRI" /\ "FD_OOB" \in mask
     \/ bit = "EPOLLRDHUP" /\ "FD_CLOSE" \in mask}

(* epoll is level-triggered, and reports these two unasked. *)
AlwaysReported == {"EPOLLERR", "EPOLLHUP"}

Ready(m) ==
  watching[m] /\ (interest[m] \cup AlwaysReported) \cap conditions[sock[m]] # {}

(***************************************************************************)
(* Sockets and events, as the application and the network change them.     *)
(***************************************************************************)
(* socket() or accept(): the kernel may reuse a descriptor number. *)
OpenSocket(s) ==
  /\ ~open[s]
  /\ open' = [open EXCEPT ![s] = TRUE]
  /\ nonblocking' = [nonblocking EXCEPT ![s] = FALSE]
  /\ conditions' = [conditions EXCEPT ![s] = {}]
  /\ wanted' = [wanted EXCEPT ![s] = NoArg]
  /\ UNCHANGED <<state, blocks, mutex, monitors, locals>>

(* closesocket(), when no other thread is using the socket.  The kernel    *)
(* takes a closed socket out of the epoll instances that watch it; nothing *)
(* takes it off the list.                                                  *)
CloseSocket(s) ==
  /\ open[s]
  /\ \A t \in Threads : arg[t].s # s
  /\ open' = [open EXCEPT ![s] = FALSE]
  /\ conditions' = [conditions EXCEPT ![s] = {}]
  /\ nonblocking' = [nonblocking EXCEPT ![s] = FALSE]
  /\ watching' = [m \in Maps |-> watching[m] /\ sock[m] # s]
  /\ wanted' = [wanted EXCEPT ![s] = NoArg]
  /\ UNCHANGED <<state, list, allocated, epolls, sock, event, networkEvents, running, interest,
                 mutex, monitors, locals>>

Arise(s) ==
  /\ open[s]
  /\ \E c \in Conditions \ conditions[s] : conditions' = [conditions EXCEPT ![s] = @ \cup {c}]
  /\ UNCHANGED <<open, nonblocking, state, blocks, mutex, monitors, locals, wanted>>

Subside(s) ==
  /\ \E c \in conditions[s] : conditions' = [conditions EXCEPT ![s] = @ \ {c}]
  /\ UNCHANGED <<open, nonblocking, state, blocks, mutex, monitors, locals, wanted>>

CreateEvent(e) ==
  /\ state[e] = "closed"
  /\ state' = [state EXCEPT ![e] = "unset"]
  /\ UNCHANGED <<sockets, blocks, mutex, monitors, locals, wanted>>

ResetEvent(e) ==
  /\ state[e] = "set"
  /\ state' = [state EXCEPT ![e] = "unset"]
  /\ UNCHANGED <<sockets, blocks, mutex, monitors, locals, wanted>>

(* An application closes an event that it has taken off every socket. *)
CloseEvent(e) ==
  /\ state[e] # "closed"
  /\ \A t \in Threads : arg[t].e # e
  /\ \A m \in Listed : event[m] # e
  /\ state' = [state EXCEPT ![e] = "closed"]
  /\ UNCHANGED <<sockets, blocks, mutex, monitors, locals, wanted>>

(***************************************************************************)
(* Calls                                                                   *)
(***************************************************************************)
Goto(t, from, to) == pc[t] = from /\ pc' = [pc EXCEPT ![t] = to]

InCall == UNCHANGED <<arg, map, result>>

Return(t, r) ==
  /\ pc' = [pc EXCEPT ![t] = "idle"]
  /\ arg' = [arg EXCEPT ![t] = NoArg]
  /\ map' = [map EXCEPT ![t] = NULL]
  /\ result' = [result EXCEPT ![t] = r]

(* s may be a descriptor that is closed by now; an event may not be.       *)
Call(t, to, s, e, mask) ==
  /\ Goto(t, "idle", to)
  /\ e # NULL => state[e] # "closed"
  /\ arg' = [arg EXCEPT ![t] = [s |-> s, e |-> e, mask |-> mask]]
  /\ result' = [result EXCEPT ![t] = "none"]
  /\ UNCHANGED <<sockets, state, blocks, mutex, monitors, map, wanted>>

Lock(t) == mutex = NULL /\ mutex' = t
Unlock == mutex' = NULL

MappingsOf(s) == {m \in Listed : sock[m] = s}

(***************************************************************************)
(* WSAEventSelect.  From EventSelectFind to the unlock of its last step t  *)
(* holds g_map_mutex.  With event NULL and mask 0 it cancels: to the code  *)
(* that is an update like any other.                                       *)
(***************************************************************************)
EventSelect(t) ==
  \E s \in Sockets, e \in Events \cup {NULL}, mask \in Masks :
    Call(t, "select_find", s, e, mask)

MutEventSelectFind(t) ==   \* without the lock
  /\ IF MappingsOf(arg[t].s) # {}
     THEN /\ map' = [map EXCEPT ![t] = CHOOSE m \in MappingsOf(arg[t].s) : TRUE]
          /\ Goto(t, "select_find", "select_update")
     ELSE Goto(t, "select_find", "select_malloc") /\ UNCHANGED map
  /\ UNCHANGED <<sockets, state, blocks, mutex, monitors, arg, result, wanted>>

EventSelectFind(t) ==
  /\ pc[t] = "select_find"
  /\ Lock(t)
  /\ IF MappingsOf(arg[t].s) # {}
     THEN /\ map' = [map EXCEPT ![t] = CHOOSE m \in MappingsOf(arg[t].s) : TRUE]
          /\ Goto(t, "select_find", "select_update")
     ELSE Goto(t, "select_find", "select_malloc") /\ UNCHANGED map
  /\ UNCHANGED <<sockets, state, blocks, monitors, arg, result, wanted>>

MutEventSelectUpdate(t) ==   \* keeps the old event
  /\ pc[t] = "select_update"
  /\ networkEvents' = [networkEvents EXCEPT ![map[t]] = arg[t].mask]
  /\ wanted' = [wanted EXCEPT ![arg[t].s] = arg[t]]
  /\ Unlock
  /\ Return(t, "0")
  /\ UNCHANGED <<sockets, state, list, allocated, epolls, sock, event, running, interest,
                 watching, monitors>>

(* The epoll instance is not told about the new mask. *)
EventSelectUpdate(t) ==
  /\ pc[t] = "select_update"
  /\ event' = [event EXCEPT ![map[t]] = arg[t].e]
  /\ networkEvents' = [networkEvents EXCEPT ![map[t]] = arg[t].mask]
  /\ wanted' = [wanted EXCEPT ![arg[t].s] = arg[t]]
  /\ Unlock
  /\ Return(t, "0")
  /\ UNCHANGED <<sockets, state, list, allocated, epolls, sock, running, interest, watching,
                 monitors>>

EventSelectMalloc(t) ==
  /\ Goto(t, "select_malloc", "select_epoll")
  /\ \E m \in Maps \ allocated :
       /\ allocated' = allocated \cup {m}
       /\ map' = [map EXCEPT ![t] = m]
  /\ UNCHANGED <<sockets, state, list, epolls, sock, event, networkEvents, running, interest,
                 watching, mutex, monitors, arg, result, wanted>>

MutEventSelectMallocFails(t) ==   \* without the unlock
  /\ pc[t] = "select_malloc"
  /\ Return(t, "SOCKET_ERROR")
  /\ UNCHANGED <<sockets, state, blocks, mutex, monitors, wanted>>

EventSelectMallocFails(t) ==
  /\ pc[t] = "select_malloc"
  /\ Unlock
  /\ Return(t, "SOCKET_ERROR")
  /\ UNCHANGED <<sockets, state, blocks, monitors, wanted>>

EventSelectEpollCreate(t) ==
  /\ Goto(t, "select_epoll", "select_ctl")
  /\ epolls' = epolls \cup {map[t]}
  /\ InCall
  /\ UNCHANGED <<sockets, state, list, allocated, sock, event, networkEvents, running, interest,
                 watching, mutex, monitors, wanted>>

MutEventSelectEpollFails(t) ==   \* without the close()
  /\ pc[t] \in {"select_epoll", "select_ctl"}
  /\ allocated' = allocated \ {map[t]}
  /\ Unlock
  /\ Return(t, "SOCKET_ERROR")
  /\ UNCHANGED <<sockets, state, list, epolls, sock, event, networkEvents, running, interest,
                 watching, monitors, wanted>>

(* The two ways out that undo what was done before: epoll_create1 and      *)
(* epoll_ctl fail.  Only the second has an epoll instance to close.        *)
EventSelectEpollFails(t) ==
  /\ pc[t] \in {"select_epoll", "select_ctl"}
  /\ epolls' = IF pc[t] = "select_ctl" THEN epolls \ {map[t]} ELSE epolls
  /\ allocated' = allocated \ {map[t]}
  /\ Unlock
  /\ Return(t, "SOCKET_ERROR")
  /\ UNCHANGED <<sockets, state, list, sock, event, networkEvents, running, interest, watching,
                 monitors, wanted>>

(* epoll_ctl succeeds; the block is filled in and put on the list. *)
EventSelectInsert(t) ==
  LET m == map[t]
  IN /\ Goto(t, "select_ctl", "select_spawn")
     /\ open[arg[t].s]
     /\ interest' = [interest EXCEPT ![m] = EpollMask(arg[t].mask)]
     /\ watching' = [watching EXCEPT ![m] = TRUE]
     /\ sock' = [sock EXCEPT ![m] = arg[t].s]
     /\ event' = [event EXCEPT ![m] = arg[t].e]
     /\ networkEvents' = [networkEvents EXCEPT ![m] = arg[t].mask]
     /\ running' = [running EXCEPT ![m] = TRUE]
     /\ list' = <<m>> \o list
     /\ InCall
     /\ UNCHANGED <<sockets, state, allocated, epolls, mutex, monitors, wanted>>

EventSelectSpawn(t) ==
  /\ Goto(t, "select_spawn", "select_nonblock")
  /\ monitor' = [monitor EXCEPT ![map[t]] = "check"]
  /\ wanted' = [wanted EXCEPT ![arg[t].s] = arg[t]]
  /\ Unlock
  /\ InCall
  /\ UNCHANGED <<sockets, state, blocks, loaded>>

MutEventSelectSpawnFails(t) ==   \* frees the block and leaves it on the list
  /\ pc[t] = "select_spawn"
  /\ epolls' = epolls \ {map[t]}
  /\ allocated' = allocated \ {map[t]}
  /\ Unlock
  /\ Return(t, "SOCKET_ERROR")
  /\ UNCHANGED <<sockets, state, list, sock, event, networkEvents, running, interest, watching,
                 monitors, wanted>>

(* pthread_create fails: the head of the list is taken off and freed (its  *)
(* members, indeterminate from here on, are given their initial values).   *)
EventSelectSpawnFails(t) ==
  LET m == map[t]
  IN /\ pc[t] = "select_spawn"
     /\ list' = Tail(list)
     /\ epolls' = epolls \ {m}
     /\ allocated' = allocated \ {m}
     /\ sock' = [sock EXCEPT ![m] = NULL]
     /\ event' = [event EXCEPT ![m] = NULL]
     /\ networkEvents' = [networkEvents EXCEPT ![m] = {}]
     /\ running' = [running EXCEPT ![m] = FALSE]
     /\ interest' = [interest EXCEPT ![m] = {}]
     /\ watching' = [watching EXCEPT ![m] = FALSE]
     /\ Unlock
     /\ Return(t, "SOCKET_ERROR")
     /\ UNCHANGED <<sockets, state, monitors, wanted>>

(* fcntl(), after the unlock. *)
EventSelectNonblock(t) ==
  /\ pc[t] = "select_nonblock"
  /\ nonblocking' = [nonblocking EXCEPT ![arg[t].s] = TRUE]
  /\ Return(t, "0")
  /\ UNCHANGED <<open, conditions, state, blocks, mutex, monitors, wanted>>

(***************************************************************************)
(* WSAEnumNetworkEvents: find the mapping, read and clear SO_ERROR, reset  *)
(* the event.  The mapping it finds is used for nothing else.              *)
(***************************************************************************)
EnumNetworkEvents(t) ==
  \E s \in Sockets, e \in Events \cup {NULL} : Call(t, "enum_find", s, e, {})

EnumFaults(t) ==
  /\ pc[t] = "idle"
  /\ Return(t, "SOCKET_ERROR")
  /\ UNCHANGED <<sockets, state, blocks, mutex, monitors, wanted>>

(* Lock, search and unlock: nothing is kept from under the lock. *)
EnumFind(t) ==
  /\ pc[t] = "enum_find"
  /\ mutex = NULL
  /\ IF MappingsOf(arg[t].s) = {}
     THEN Return(t, "SOCKET_ERROR")
     ELSE Goto(t, "enum_find", "enum_error") /\ InCall
  /\ UNCHANGED <<sockets, state, blocks, mutex, monitors, wanted>>

(* A pending error is reported as FD_CONNECT, and nothing else ever is. *)
EnumError(t) ==
  /\ Goto(t, "enum_error", "enum_reset")
  /\ conditions' = [conditions EXCEPT ![arg[t].s] = @ \ {"EPOLLERR"}]
  /\ InCall
  /\ UNCHANGED <<open, nonblocking, state, blocks, mutex, monitors, wanted>>

EnumReset(t) ==
  /\ pc[t] = "enum_reset"
  /\ state' = IF arg[t].e = NULL THEN state ELSE [state EXCEPT ![arg[t].e] = "unset"]
  /\ Return(t, "0")
  /\ UNCHANGED <<sockets, blocks, mutex, monitors, wanted>>

(***************************************************************************)
(* event_monitor_thread of mapping m                                       *)
(***************************************************************************)
MonitorGoto(m, from, to) == monitor[m] = from /\ monitor' = [monitor EXCEPT ![m] = to]

(* `running` is tested under the mapping's own mutex; nothing clears it. *)
MonitorCheck(m) ==
  /\ MonitorGoto(m, "check", IF running[m] THEN "wait" ELSE "exited")
  /\ UNCHANGED <<sockets, state, blocks, mutex, loaded, locals, wanted>>

(* epoll_wait() returns 0 after 100 ms, or fails with EINTR: only when it  *)
(* has nothing to report.                                                  *)
MonitorTimeout(m) ==
  /\ ~Ready(m)
  /\ MonitorGoto(m, "wait", "check")
  /\ UNCHANGED <<sockets, state, blocks, mutex, loaded, locals, wanted>>

MonitorReport(m) ==
  /\ Ready(m)
  /\ MonitorGoto(m, "wait", "test")
  /\ UNCHANGED <<sockets, state, blocks, mutex, loaded, locals, wanted>>

(* The event is read without g_map_mutex, tested for NULL ...              *)
MonitorTest(m) ==
  /\ MonitorGoto(m, "test", IF event[m] = NULL THEN "check" ELSE "load")
  /\ UNCHANGED <<sockets, state, blocks, mutex, loaded, locals, wanted>>

(* ... and read a second time for the argument of WSASetEvent, which does  *)
(* nothing if it is NULL by now ...                                        *)
MonitorLoad(m) ==
  /\ MonitorGoto(m, "load", IF event[m] = NULL THEN "check" ELSE "set")
  /\ loaded' = [loaded EXCEPT ![m] = event[m]]
  /\ UNCHANGED <<sockets, state, blocks, mutex, locals, wanted>>

MutMonitorSet(m) ==   \* sets the event once and ends
  /\ MonitorGoto(m, "set", "exited")
  /\ state' = [state EXCEPT ![loaded[m]] = IF @ = "closed" THEN @ ELSE "set"]
  /\ loaded' = [loaded EXCEPT ![m] = NULL]
  /\ UNCHANGED <<sockets, blocks, mutex, locals, wanted>>

(* ... and set later: if it has been closed meanwhile the set goes to a    *)
(* freed block, shown here as no effect.                                   *)
MonitorSet(m) ==
  /\ MonitorGoto(m, "set", "check")
  /\ state' = [state EXCEPT ![loaded[m]] = IF @ = "closed" THEN @ ELSE "set"]
  /\ loaded' = [loaded EXCEPT ![m] = NULL]
  /\ UNCHANGED <<sockets, blocks, mutex, locals, wanted>>

-----------------------------------------------------------------------------
CallStep(t) ==
  \/ EventSelectFind(t) \/ EventSelectUpdate(t)
  \/ EventSelectMalloc(t) \/ EventSelectMallocFails(t)
  \/ EventSelectEpollCreate(t) \/ EventSelectEpollFails(t)
  \/ EventSelectInsert(t)
  \/ EventSelectSpawn(t) \/ EventSelectSpawnFails(t)
  \/ EventSelectNonblock(t)
  \/ EnumFind(t) \/ EnumError(t) \/ EnumReset(t)

MonitorStep(m) ==
  \/ MonitorCheck(m) \/ MonitorTimeout(m) \/ MonitorReport(m)
  \/ MonitorTest(m) \/ MonitorLoad(m) \/ MonitorSet(m)

Next ==
  \/ \E t \in Threads : EventSelect(t) \/ EnumNetworkEvents(t) \/ EnumFaults(t) \/ CallStep(t)
  \/ \E m \in Maps : MonitorStep(m)
  \/ \E s \in Sockets : OpenSocket(s) \/ CloseSocket(s) \/ Arise(s) \/ Subside(s)
  \/ \E e \in Events : CreateEvent(e) \/ ResetEvent(e) \/ CloseEvent(e)

Spec == Init /\ [][Next]_vars

(* The scheduler runs every thread that can move. *)
FairSpec ==
  /\ Spec
  /\ \A t \in Threads : WF_vars(CallStep(t))
  /\ \A m \in Maps : WF_vars(MonitorStep(m))

-----------------------------------------------------------------------------
(***************************************************************************)
(* Properties                                                              *)
(***************************************************************************)
LockedPCs == {"select_update", "select_malloc", "select_epoll", "select_ctl", "select_spawn"}
PCs == LockedPCs \cup {"idle", "select_find", "select_nonblock", "enum_find", "enum_error",
                      "enum_reset"}
Bits == {"EPOLLIN", "EPOLLOUT", "EPOLLPRI", "EPOLLRDHUP"} \cup AlwaysReported
Results == {"none", "0", "SOCKET_ERROR"}
Args == [s : Sockets \cup {NULL}, e : Events \cup {NULL}, mask : Masks \cup {{}}]

(* The type invariant; the mutex belongs to the thread that is between the *)
(* lock and an unlock of WSAEventSelect.                                   *)
TypeOK ==
  /\ open \in [Sockets -> BOOLEAN]
  /\ nonblocking \in [Sockets -> BOOLEAN]
  /\ conditions \in [Sockets -> SUBSET Conditions]
  /\ state \in [Events -> {"closed", "unset", "set"}]
  /\ list \in Seq(Maps)
  /\ allocated \in SUBSET Maps
  /\ epolls \in SUBSET Maps
  /\ sock \in [Maps -> Sockets \cup {NULL}]
  /\ event \in [Maps -> Events \cup {NULL}]
  /\ networkEvents \in [Maps -> Masks \cup {{}}]
  /\ running \in [Maps -> BOOLEAN]
  /\ interest \in [Maps -> SUBSET Bits]
  /\ watching \in [Maps -> BOOLEAN]
  /\ mutex \in Threads \cup {NULL}
  /\ monitor \in [Maps -> {"none", "check", "wait", "test", "load", "set", "exited"}]
  /\ loaded \in [Maps -> Events \cup {NULL}]
  /\ pc \in [Threads -> PCs]
  /\ arg \in [Threads -> Args]
  /\ map \in [Threads -> Maps \cup {NULL}]
  /\ result \in [Threads -> Results]
  /\ wanted \in [Sockets -> Args]
  /\ \A t \in Threads : pc[t] \in LockedPCs <=> mutex = t

(* Two calls about one socket never leave two mappings of it on the list.  *)
OneMappingPerSocket ==
  \A i, j \in DOMAIN list : i # j => sock[list[i]] # sock[list[j]]

(* Blocks and epoll instances are on the list or in the hands of the one   *)
(* thread that is creating them: no failure path of WSAEventSelect leaks   *)
(* one, or leaves a freed block on the list.                               *)
BlocksOwned ==
  /\ allocated = Listed \cup {map[t] : t \in {u \in Threads : pc[u] \in {"select_epoll", "select_ctl"}}}
  /\ epolls = Listed \cup {map[t] : t \in {u \in Threads : pc[u] = "select_ctl"}}

(* A monitor thread only ever runs on a block that is on the list, and     *)
(* every block on the list has one, or is about to.                        *)
MonitorsServeListed ==
  \A m \in Maps :
    monitor[m] # "none" <=>
      m \in Listed /\ ~ \E t \in Threads : pc[t] = "select_spawn" /\ map[t] = m

(* What WSAEventSelect was last successfully asked for a descriptor, since *)
(* it was last opened or closed, is what the mapping of that one says.     *)
AssociationRecorded ==
  \A s \in Sockets :
    wanted[s] # NoArg =>
      \E m \in MappingsOf(s) : event[m] = wanted[s].e /\ networkEvents[m] = wanted[s].mask

(* g_map_mutex is always released again.                                   *)
LockReleased == (mutex # NULL) ~> (mutex = NULL)

(* While a watched socket stays ready, its event is set again and again,   *)
(* however often it is reset: no reset loses the notification.             *)
KeepsNotifying ==
  \A m \in Maps, e \in Events :
    <>[](Ready(m) /\ m \in Listed /\ event[m] = e) => []<>(state[e] = "set")

(* WSAEventSelect returning 0 means that the open socket is being watched. *)
(* (It is not when the descriptor number was that of a closed socket.)     *)
AssociationWatched ==
  \A s \in Sockets : open[s] /\ wanted[s].e # NULL => \E m \in MappingsOf(s) : watching[m]

(* No monitor is about to set an event that has been closed.  (It can,     *)
(* having read the mapping before WSAEventSelect took the event off it.)   *)
MonitorSetsOpenEvent ==
  \A m \in Maps : monitor[m] = "set" => state[loaded[m]] # "closed"
=============================================================================
