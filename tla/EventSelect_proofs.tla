-------------------------- MODULE EventSelect_proofs --------------------------
(***************************************************************************)
(* Proofs about WSAEventSelect, WSAEnumNetworkEvents and the monitor       *)
(* threads, for any number of threads, sockets, events and blocks and any  *)
(* masks and conditions.                                                   *)
(***************************************************************************)
EXTENDS EventSelect, TLAPS

(***************************************************************************)
(* The inductive invariant                                                 *)
(***************************************************************************)
(* The calls that have a block in hand: found, or about to be listed.      *)
MappedPCs == {"select_update", "select_epoll", "select_ctl", "select_spawn", "select_nonblock"}

(* From the search to the insertion nobody else can list a mapping.        *)
UnmappedPCs == {"select_malloc", "select_epoll", "select_ctl"}

(* A thread has arguments and a block only inside the call they belong to. *)
LocalsMatchPC ==
  \A t \in Threads :
    /\ pc[t] = "idle" => arg[t] = NoArg
    /\ pc[t] # "idle" => arg[t].s \in Sockets
    /\ pc[t] \in MappedPCs <=> map[t] # NULL

(* What the thread that holds g_map_mutex knows about the list: it has     *)
(* found the mapping of its socket, or knows that there is none and has a  *)
(* block that is not listed yet, or has put its block at the head.         *)
SearchHolds ==
  \A t \in Threads :
    /\ pc[t] = "select_update" => map[t] \in MappingsOf(arg[t].s)
    /\ pc[t] \in UnmappedPCs => MappingsOf(arg[t].s) = {}
    /\ pc[t] \in {"select_epoll", "select_ctl"} => map[t] \notin Listed
    /\ pc[t] \in UnmappedPCs \cup {"select_spawn"} => wanted[arg[t].s] = NoArg
    /\ pc[t] = "select_spawn" =>
         /\ list # <<>>
         /\ map[t] = list[1]
         /\ sock[map[t]] = arg[t].s
         /\ event[map[t]] = arg[t].e
         /\ networkEvents[map[t]] = arg[t].mask

Inv ==
  /\ TypeOK
  /\ LocalsMatchPC
  /\ SearchHolds
  /\ OneMappingPerSocket
  /\ BlocksOwned
  /\ MonitorsServeListed
  /\ AssociationRecorded

(***************************************************************************)
(* Facts about the list and the lock                                       *)
(***************************************************************************)
(* The mutex excludes: the thread that holds it is alone between the lock  *)
(* and the unlocks of WSAEventSelect.                                      *)
LEMMA HolderIsAlone ==
  ASSUME TypeOK, NEW t \in Threads, NEW u \in Threads, pc[t] \in LockedPCs, pc[u] \in LockedPCs
  PROVE  t = u
  BY DEF TypeOK

(* Who takes the mutex finds nobody inside.                                *)
LEMMA FreeMeansNobody ==
  ASSUME TypeOK, mutex = NULL
  PROVE  \A t \in Threads : pc[t] \notin LockedPCs
  BY NullAssumption DEF TypeOK

(* The head of the list is a listed block.                                 *)
LEMMA ListedAreBlocks == TypeOK => Listed \subseteq Maps
  BY DEF TypeOK, Listed

(* Pushing a block adds it and moves every other one place down.           *)
LEMMA PushLists ==
  ASSUME NEW m \in Maps, list \in Seq(Maps), list' = <<m>> \o list
  PROVE  /\ list' \in Seq(Maps)
         /\ list' # <<>>
         /\ list'[1] = m
         /\ DOMAIN list' = 1..(Len(list) + 1)
         /\ \A i \in 2..(Len(list) + 1) : i - 1 \in DOMAIN list /\ list'[i] = list[i - 1]
         /\ Listed' = {m} \cup Listed
<1>1. list' \in Seq(Maps) /\ Len(list') = Len(list) + 1 /\ DOMAIN list' = 1..(Len(list) + 1)
  OBVIOUS
<1>2. list'[1] = m /\ \A i \in 1..Len(list) : list'[i + 1] = list[i]
  OBVIOUS
<1>3. \A i \in 2..(Len(list) + 1) : i - 1 \in DOMAIN list /\ list'[i] = list[i - 1]
  BY <1>2
<1>4. ASSUME NEW i \in DOMAIN list' PROVE list'[i] \in {m} \cup Listed
  <2>1. i = 1 \/ i \in 2..(Len(list) + 1)
    BY <1>1
  <2> QED
    BY <1>2, <1>3, <2>1 DEF Listed
<1>5. 1 \in DOMAIN list' /\ \A i \in DOMAIN list : i + 1 \in DOMAIN list'
  BY <1>1
<1>6. ASSUME NEW i \in DOMAIN list PROVE list[i] \in Listed'
  <2>1. list'[i + 1] = list[i]
    BY <1>2
  <2> QED
    BY <1>5, <2>1 DEF Listed
<1>7. Listed' = {m} \cup Listed
  <2>1. Listed' \subseteq {m} \cup Listed
    BY <1>4, Zenon DEF Listed
  <2>2. Listed \subseteq Listed'
    BY <1>6, Zenon DEF Listed
  <2>3. m \in Listed'
    BY <1>2, <1>5, Zenon DEF Listed
  <2> QED
    BY <2>1, <2>2, <2>3
<1> QED
  BY <1>1, <1>2, <1>3, <1>5, <1>7

(* Popping takes the head off and moves every other one place up.          *)
LEMMA PopUnlists ==
  ASSUME NEW s \in Seq(Maps), s # <<>>
  PROVE  /\ Tail(s) \in Seq(Maps)
         /\ DOMAIN Tail(s) = 1..(Len(s) - 1)
         /\ \A i \in 1..(Len(s) - 1) : i + 1 \in DOMAIN s /\ Tail(s)[i] = s[i + 1]
  OBVIOUS

(***************************************************************************)
(* Type correctness                                                        *)
(***************************************************************************)
(* Leaving a call keeps the types of everything a return assigns.          *)
LEMMA ReturnType ==
  ASSUME TypeOK, NEW t \in Threads, NEW r \in Results, Return(t, r)
  PROVE  /\ pc' \in [Threads -> PCs]
         /\ arg' \in [Threads -> Args]
         /\ map' \in [Threads -> Maps \cup {NULL}]
         /\ result' \in [Threads -> Results]
         /\ \A u \in Threads : pc'[u] = IF u = t THEN "idle" ELSE pc[u]
<1>1. "idle" \in PCs /\ NoArg \in Args
  BY DEF PCs, NoArg, Args
<1> QED
  BY <1>1 DEF TypeOK, Return

(* The part of TypeOK about g_map_mutex.                                   *)
HolderLocked == \A t \in Threads : pc[t] \in LockedPCs <=> mutex = t

(* The mutex belongs to the thread that is between lock and unlock: kept   *)
(* by steps that lock, by steps that unlock, and by those that do neither. *)
LEMMA HolderLockedStep ==
  ASSUME TypeOK, NEW t \in Threads,
         \A u \in Threads \ {t} : pc'[u] = pc[u],
         \/ mutex' = mutex /\ (pc'[t] \in LockedPCs <=> pc[t] \in LockedPCs)
         \/ mutex = NULL /\ mutex' = t /\ pc'[t] \in LockedPCs
         \/ pc[t] \in LockedPCs /\ mutex' = NULL /\ pc'[t] \notin LockedPCs
  PROVE  HolderLocked'
  BY NullAssumption DEF TypeOK, HolderLocked

(* Every step keeps the types, and g_map_mutex with the thread inside.     *)
LEMMA TypeStep == TypeOK /\ LocalsMatchPC /\ SearchHolds /\ [Next]_vars => TypeOK'
<1> SUFFICES ASSUME TypeOK, LocalsMatchPC, SearchHolds, [Next]_vars PROVE TypeOK'
  OBVIOUS
<1> USE DEF LockedPCs, PCs
<1>1. CASE UNCHANGED vars
  BY <1>1 DEF TypeOK, vars, sockets, blocks, monitors, locals
<1>2. ASSUME NEW s \in Sockets, OpenSocket(s) \/ CloseSocket(s) \/ Arise(s) \/ Subside(s)
      PROVE  TypeOK'
  <2>0. NoArg \in Args
    BY DEF NoArg, Args
  <2>1. CASE OpenSocket(s)
    BY <2>0, <2>1 DEF OpenSocket, TypeOK, blocks, monitors, locals
  <2>2. CASE CloseSocket(s)
    BY <2>0, <2>2 DEF CloseSocket, TypeOK, monitors, locals
  <2>3. CASE Arise(s)
    BY <2>3 DEF Arise, TypeOK, blocks, monitors, locals
  <2>4. CASE Subside(s)
    BY <2>4 DEF Subside, TypeOK, blocks, monitors, locals
  <2> QED
    BY <1>2, <2>1, <2>2, <2>3, <2>4
<1>3. ASSUME NEW e \in Events, CreateEvent(e) \/ ResetEvent(e) \/ CloseEvent(e) PROVE TypeOK'
  BY <1>3 DEF CreateEvent, ResetEvent, CloseEvent, TypeOK, sockets, blocks, monitors, locals
<1>4. ASSUME NEW t \in Threads, NEW to \in {"select_find", "enum_find"},
             NEW s \in Sockets, NEW e \in Events \cup {NULL}, NEW mask \in Masks \cup {{}},
             Call(t, to, s, e, mask)
      PROVE  TypeOK'
  <2>1. [s |-> s, e |-> e, mask |-> mask] \in Args
    BY DEF Args
  <2>2. "none" \in Results
    BY DEF Results
  <2>3. HolderLocked'
    <3>1. pc' = [pc EXCEPT ![t] = to] /\ pc[t] = "idle" /\ UNCHANGED mutex
      BY <1>4 DEF Call, Goto
    <3>2. pc'[t] \notin LockedPCs /\ pc[t] \notin LockedPCs /\ \A u \in Threads \ {t} : pc'[u] = pc[u]
      BY <1>4, <3>1 DEF TypeOK
    <3> QED
      BY <3>1, <3>2, HolderLockedStep
  <2> QED
    BY <1>4, <2>1, <2>2, <2>3 DEF Call, Goto, TypeOK, HolderLocked, sockets, blocks, monitors
<1>5. ASSUME NEW t \in Threads, NEW r \in Results, pc[t] \notin LockedPCs, Return(t, r),
             UNCHANGED <<mutex, list, allocated, epolls, sock, event, networkEvents, running,
                         interest, watching, monitors, wanted>>,
             open' \in [Sockets -> BOOLEAN],
             nonblocking' \in [Sockets -> BOOLEAN],
             conditions' \in [Sockets -> SUBSET Conditions],
             state' \in [Events -> {"closed", "unset", "set"}]
      PROVE  TypeOK'
  <2>1. HolderLocked'
    BY <1>5, ReturnType, HolderLockedStep
  <2> QED
    BY <1>5, <2>1, ReturnType DEF TypeOK, HolderLocked, monitors
<1>6. ASSUME NEW t \in Threads, EnumFaults(t) PROVE TypeOK'
  BY <1>5, <1>6 DEF EnumFaults, Results, TypeOK, sockets, blocks
<1>7. ASSUME NEW t \in Threads, EventSelectFind(t) PROVE TypeOK'
  <2>1. MappingsOf(arg[t].s) # {} => (CHOOSE m \in MappingsOf(arg[t].s) : TRUE) \in Maps
    BY ListedAreBlocks DEF MappingsOf
  <2>2. map' \in [Threads -> Maps \cup {NULL}]
    BY <1>7, <2>1 DEF EventSelectFind, TypeOK
  <2>3. /\ pc' \in [Threads -> PCs] /\ pc'[t] \in LockedPCs
        /\ \A u \in Threads \ {t} : pc'[u] = pc[u]
    <3>1. PICK to \in {"select_update", "select_malloc"} : pc' = [pc EXCEPT ![t] = to]
      BY <1>7 DEF EventSelectFind, Goto
    <3>2. pc \in [Threads -> PCs] /\ to \in PCs
      BY DEF TypeOK
    <3> QED
      BY <3>1, <3>2
  <2>4. HolderLocked'
    BY <1>7, <2>3, HolderLockedStep DEF EventSelectFind, Lock
  <2> QED
    BY <1>7, <2>2, <2>3, <2>4 DEF EventSelectFind, Lock, TypeOK, HolderLocked, sockets, blocks,
                                  monitors
<1>8. ASSUME NEW t \in Threads, EventSelectUpdate(t) PROVE TypeOK'
  <2>1. HolderLocked'
    BY <1>8, ReturnType, HolderLockedStep DEF EventSelectUpdate, Unlock, Results
  <2>2. arg[t] \in Args /\ arg[t].e \in Events \cup {NULL} /\ arg[t].mask \in Masks \cup {{}}
    BY DEF TypeOK, Args
  <2> QED
    BY <1>8, <2>1, <2>2, ReturnType DEF EventSelectUpdate, Unlock, Results, TypeOK, HolderLocked,
                                        sockets, monitors
<1>9. ASSUME NEW t \in Threads, EventSelectMalloc(t) PROVE TypeOK'
  <2>1. HolderLocked'
    BY <1>9, HolderLockedStep DEF EventSelectMalloc, Goto, TypeOK
  <2> QED
    BY <1>9, <2>1 DEF EventSelectMalloc, Goto, TypeOK, HolderLocked, sockets, monitors
<1>10. ASSUME NEW t \in Threads, EventSelectMallocFails(t) PROVE TypeOK'
  <2>1. HolderLocked'
    BY <1>10, ReturnType, HolderLockedStep DEF EventSelectMallocFails, Unlock, Results
  <2> QED
    BY <1>10, <2>1, ReturnType DEF EventSelectMallocFails, Unlock, Results, TypeOK, HolderLocked,
                                   sockets, blocks, monitors
<1>11. ASSUME NEW t \in Threads, EventSelectEpollCreate(t) PROVE TypeOK'
  <2>1. HolderLocked'
    BY <1>11, HolderLockedStep DEF EventSelectEpollCreate, Goto, TypeOK
  <2>2. map[t] \in Maps
    BY <1>11 DEF EventSelectEpollCreate, Goto, TypeOK, LocalsMatchPC, MappedPCs
  <2> QED
    BY <1>11, <2>1, <2>2 DEF EventSelectEpollCreate, Goto, InCall, TypeOK, HolderLocked, sockets,
                             monitors
<1>12. ASSUME NEW t \in Threads, EventSelectEpollFails(t) PROVE TypeOK'
  <2>1. HolderLocked'
    BY <1>12, ReturnType, HolderLockedStep DEF EventSelectEpollFails, Unlock, Results
  <2>2. epolls' \in SUBSET Maps
    BY <1>12 DEF EventSelectEpollFails, TypeOK
  <2> QED
    BY <1>12, <2>1, <2>2, ReturnType DEF EventSelectEpollFails, Unlock, Results, TypeOK,
                                         HolderLocked, sockets, monitors
<1>13. ASSUME NEW t \in Threads, EventSelectInsert(t) PROVE TypeOK'
  <2>1. HolderLocked'
    BY <1>13, HolderLockedStep DEF EventSelectInsert, Goto, TypeOK
  <2>2. map[t] \in Maps
    BY <1>13 DEF EventSelectInsert, Goto, TypeOK, LocalsMatchPC, MappedPCs
  <2>3. list' \in Seq(Maps)
    BY <1>13, <2>2, PushLists DEF EventSelectInsert, TypeOK
  <2>4. EpollMask(arg[t].mask) \subseteq Bits
    BY DEF EpollMask, Bits
  <2>5. /\ arg[t].s \in Sockets \cup {NULL} /\ arg[t].e \in Events \cup {NULL}
        /\ arg[t].mask \in Masks \cup {{}}
    BY DEF TypeOK, Args
  <2> QED
    BY <1>13, <2>1, <2>3, <2>4, <2>5 DEF EventSelectInsert, Goto, InCall, TypeOK, HolderLocked,
                                         sockets, monitors
<1>14. ASSUME NEW t \in Threads, EventSelectSpawn(t) PROVE TypeOK'
  <2>1. HolderLocked'
    BY <1>14, HolderLockedStep DEF EventSelectSpawn, Goto, Unlock, TypeOK
  <2> QED
    BY <1>14, <2>1 DEF EventSelectSpawn, Goto, Unlock, InCall, TypeOK, HolderLocked, sockets, blocks
<1>15. ASSUME NEW t \in Threads, EventSelectSpawnFails(t) PROVE TypeOK'
  <2>1. HolderLocked'
    BY <1>15, ReturnType, HolderLockedStep DEF EventSelectSpawnFails, Unlock, Results
  <2>2. list' \in Seq(Maps)
    BY <1>15, PopUnlists DEF EventSelectSpawnFails, SearchHolds, TypeOK
  <2> QED
    BY <1>15, <2>1, <2>2, ReturnType DEF EventSelectSpawnFails, Unlock, Results, TypeOK,
                                         HolderLocked, sockets, monitors
<1>16. ASSUME NEW t \in Threads, EventSelectNonblock(t) PROVE TypeOK'
  BY <1>5, <1>16 DEF EventSelectNonblock, Results, TypeOK, blocks
<1>17. ASSUME NEW t \in Threads, EnumFind(t) PROVE TypeOK'
  <2>1. CASE Return(t, "SOCKET_ERROR")
    BY <1>5, <1>17, <2>1 DEF EnumFind, Results, TypeOK, sockets, blocks
  <2>2. CASE Goto(t, "enum_find", "enum_error") /\ InCall
    <3>1. HolderLocked'
      BY <1>17, <2>2, HolderLockedStep DEF EnumFind, Goto, TypeOK
    <3> QED
      BY <1>17, <2>2, <3>1 DEF EnumFind, Goto, InCall, TypeOK, HolderLocked, sockets, blocks,
                               monitors
  <2> QED
    BY <1>17, <2>1, <2>2 DEF EnumFind
<1>18. ASSUME NEW t \in Threads, EnumError(t) PROVE TypeOK'
  <2>1. HolderLocked'
    BY <1>18, HolderLockedStep DEF EnumError, Goto, TypeOK
  <2> QED
    BY <1>18, <2>1 DEF EnumError, Goto, InCall, TypeOK, HolderLocked, blocks, monitors
<1>19. ASSUME NEW t \in Threads, EnumReset(t) PROVE TypeOK'
  BY <1>5, <1>19 DEF EnumReset, Results, TypeOK, sockets, blocks
<1>20. ASSUME NEW m \in Maps, MonitorStep(m) PROVE TypeOK'
  <2>1. /\ monitor' \in [Maps -> {"none", "check", "wait", "test", "load", "set", "exited"}]
        /\ UNCHANGED <<sockets, blocks, mutex, locals, wanted>>
    BY <1>20 DEF MonitorStep, MonitorCheck, MonitorTimeout, MonitorReport, MonitorTest,
                 MonitorLoad, MonitorSet,
                 MonitorGoto, TypeOK
  <2>2. loaded' \in [Maps -> Events \cup {NULL}]
    BY <1>20 DEF MonitorStep, MonitorCheck, MonitorTimeout, MonitorReport, MonitorTest,
                 MonitorLoad, MonitorSet,
                 TypeOK
  <2>3. state' \in [Events -> {"closed", "unset", "set"}]
    <3>1. state \in [Events -> {"closed", "unset", "set"}]
      BY DEF TypeOK
    <3>2. \/ state' = state
          \/ state' = [state EXCEPT ![loaded[m]] = IF @ = "closed" THEN @ ELSE "set"]
      BY <1>20 DEF MonitorStep, MonitorCheck, MonitorTimeout, MonitorReport, MonitorTest,
                 MonitorLoad, MonitorSet
    <3> QED
      BY <3>1, <3>2
  <2> QED
    BY <2>1, <2>2, <2>3 DEF TypeOK, sockets, blocks, locals
<1> QED
  BY <1>1, <1>2, <1>3, <1>4, <1>6, <1>7, <1>8, <1>9, <1>10, <1>11, <1>12, <1>13, <1>14, <1>15,
     <1>16, <1>17, <1>18, <1>19, <1>20
     DEF Next, CallStep, EventSelect, EnumNetworkEvents

(* A call gets its arguments when it begins, its block when it finds or     *)
(* allocates one, and gives up both when it returns.                       *)
LEMMA LocalsStep == TypeOK /\ LocalsMatchPC /\ [Next]_vars => LocalsMatchPC'
<1> SUFFICES ASSUME TypeOK, LocalsMatchPC, [Next]_vars PROVE LocalsMatchPC'
  OBVIOUS
<1> USE DEF LocalsMatchPC, MappedPCs
<1>1. CASE UNCHANGED locals
  BY <1>1 DEF locals
<1>2. ASSUME NEW t \in Threads, NEW to \in {"select_find", "enum_find"},
             NEW s \in Sockets, NEW e, NEW mask, Call(t, to, s, e, mask)
      PROVE  LocalsMatchPC'
  BY <1>2 DEF Call, Goto, TypeOK
<1>3. ASSUME NEW t \in Threads, NEW r, Return(t, r) PROVE LocalsMatchPC'
  BY <1>3 DEF Return, TypeOK
<1>4. ASSUME NEW t \in Threads, EventSelectFind(t) PROVE LocalsMatchPC'
  <2>1. MappingsOf(arg[t].s) # {} => (CHOOSE m \in MappingsOf(arg[t].s) : TRUE) # NULL
    BY ListedAreBlocks, NullAssumption DEF MappingsOf
  <2> QED
    BY <1>4, <2>1 DEF EventSelectFind, Goto, TypeOK
<1>5. ASSUME NEW t \in Threads, EventSelectMalloc(t) PROVE LocalsMatchPC'
  BY <1>5, NullAssumption DEF EventSelectMalloc, Goto, TypeOK
<1>6. ASSUME NEW t \in Threads, NEW from, NEW to, Goto(t, from, to), InCall,
             from # "idle", to # "idle", from \in MappedPCs <=> to \in MappedPCs
      PROVE  LocalsMatchPC'
  BY <1>6 DEF Goto, InCall, TypeOK
<1>7. ASSUME NEW t \in Threads, EventSelectEpollCreate(t) PROVE LocalsMatchPC'
  BY <1>6, <1>7 DEF EventSelectEpollCreate
<1>8. ASSUME NEW t \in Threads, EventSelectInsert(t) PROVE LocalsMatchPC'
  BY <1>6, <1>8 DEF EventSelectInsert
<1>9. ASSUME NEW t \in Threads, EventSelectSpawn(t) PROVE LocalsMatchPC'
  BY <1>6, <1>9 DEF EventSelectSpawn
<1>10. ASSUME NEW t \in Threads, EnumError(t) PROVE LocalsMatchPC'
  BY <1>6, <1>10 DEF EnumError
<1>11. ASSUME NEW t \in Threads, EnumFind(t) PROVE LocalsMatchPC'
  BY <1>3, <1>6, <1>11 DEF EnumFind
<1>12. ASSUME NEW t \in Threads, CallStep(t) PROVE LocalsMatchPC'
  <2>1. ASSUME \/ EventSelectUpdate(t) \/ EventSelectMallocFails(t) \/ EventSelectEpollFails(t)
               \/ EventSelectSpawnFails(t) \/ EventSelectNonblock(t) \/ EnumReset(t)
        PROVE  \E r : Return(t, r)
    BY <2>1 DEF EventSelectUpdate, EventSelectMallocFails, EventSelectEpollFails,
                EventSelectSpawnFails, EventSelectNonblock, EnumReset
  <2> QED
    BY <1>3, <1>4, <1>5, <1>7, <1>8, <1>9, <1>10, <1>11, <1>12, <2>1 DEF CallStep
<1>13. ASSUME NEW m \in Maps, MonitorStep(m) PROVE LocalsMatchPC'
  BY <1>1, <1>13 DEF MonitorStep, MonitorCheck, MonitorTimeout, MonitorReport, MonitorTest,
                     MonitorLoad, MonitorSet
<1>14. ASSUME NEW s \in Sockets, OpenSocket(s) \/ CloseSocket(s) \/ Arise(s) \/ Subside(s)
       PROVE  LocalsMatchPC'
  BY <1>1, <1>14 DEF OpenSocket, CloseSocket, Arise, Subside
<1>15. ASSUME NEW e \in Events, CreateEvent(e) \/ ResetEvent(e) \/ CloseEvent(e)
       PROVE  LocalsMatchPC'
  BY <1>1, <1>15 DEF CreateEvent, ResetEvent, CloseEvent
<1> QED
  BY <1>1, <1>2, <1>3, <1>12, <1>13, <1>14, <1>15
     DEF Next, EventSelect, EnumNetworkEvents, EnumFaults, vars

(***************************************************************************)
(* The list, its blocks and what the application asked for                 *)
(***************************************************************************)
Mappings ==
  SearchHolds /\ OneMappingPerSocket /\ BlocksOwned /\ MonitorsServeListed /\ AssociationRecorded

(* A step outside the critical section that does not touch the list and    *)
(* asks for nothing keeps all of it; closesocket(), which forgets what was *)
(* asked of its socket, is one.                                            *)
LEMMA QuietKeeps ==
  ASSUME TypeOK, LocalsMatchPC, Mappings,
         UNCHANGED <<list, allocated, epolls, sock, event, networkEvents>>,
         \A m \in Maps : monitor'[m] = "none" <=> monitor[m] = "none",
         \A s \in Sockets : wanted'[s] \in {wanted[s], NoArg},
         \A u \in Threads : pc[u] \in LockedPCs \/ pc'[u] \in LockedPCs =>
                              pc'[u] = pc[u] /\ arg'[u] = arg[u] /\ map'[u] = map[u]
  PROVE  Mappings'
<1>1. Listed' = Listed /\ \A s : MappingsOf(s)' = MappingsOf(s)
  BY DEF Listed, MappingsOf
<1>2. SearchHolds'
  BY <1>1 DEF Mappings, SearchHolds, LocalsMatchPC, LockedPCs, UnmappedPCs
<1>3. OneMappingPerSocket'
  BY DEF Mappings, OneMappingPerSocket
<1>4. BlocksOwned'
  BY <1>1 DEF Mappings, BlocksOwned, LockedPCs
<1>5. MonitorsServeListed'
  BY <1>1 DEF Mappings, MonitorsServeListed, LockedPCs
<1>6. AssociationRecorded'
  BY <1>1 DEF Mappings, AssociationRecorded
<1> QED
  BY <1>2, <1>3, <1>4, <1>5, <1>6 DEF Mappings

(* A thread that holds the mutex, or takes it, is alone inside.            *)
Alone(t) ==
  \A u \in Threads \ {t} :
    /\ pc[u] \notin LockedPCs
    /\ pc'[u] = pc[u]
    /\ arg'[u] = arg[u]
    /\ map'[u] = map[u]

(* What a lock holder does to its own pc, and to nobody else's.            *)
LEMMA GotoAlone ==
  ASSUME TypeOK, NEW t \in Threads, NEW from, NEW to, Goto(t, from, to),
         pc[t] \in LockedPCs \/ mutex = NULL,
         arg' = arg,
         \A u \in Threads \ {t} : map'[u] = map[u]
  PROVE  Alone(t) /\ pc[t] = from /\ pc'[t] = to /\ arg'[t] = arg[t]
  BY HolderIsAlone, FreeMeansNobody DEF Alone, Goto, TypeOK

(* ... and so is one that returns, releasing the lock.                     *)
LEMMA ReturnAlone ==
  ASSUME TypeOK, NEW t \in Threads, NEW r, Return(t, r), pc[t] \in LockedPCs
  PROVE  Alone(t) /\ pc'[t] = "idle"
  BY HolderIsAlone DEF Alone, Return, TypeOK

(* The blocks of the list are different.                                   *)
LEMMA ListedOnce ==
  ASSUME OneMappingPerSocket, NEW i \in DOMAIN list, NEW j \in DOMAIN list, list[i] = list[j]
  PROVE  i = j
  BY DEF OneMappingPerSocket

(* The search: it finds the mapping of the socket, or that there is none.  *)
LEMMA FindKeeps ==
  ASSUME TypeOK, LocalsMatchPC, Mappings, NEW t \in Threads, EventSelectFind(t)
  PROVE  Mappings'
<1> USE DEF LockedPCs, UnmappedPCs
<1>1. /\ UNCHANGED <<list, allocated, epolls, sock, event, networkEvents, monitor, wanted, arg>>
      /\ pc[t] = "select_find" /\ mutex = NULL
  BY DEF EventSelectFind, Goto, Lock, blocks, monitors
<1>2. Alone(t)
  BY <1>1, GotoAlone DEF EventSelectFind, TypeOK
<1>3. Listed' = Listed /\ \A s : MappingsOf(s)' = MappingsOf(s)
  BY <1>1 DEF Listed, MappingsOf
<1>4. \/ /\ pc'[t] = "select_update"
         /\ map'[t] \in MappingsOf(arg[t].s)
      \/ /\ pc'[t] = "select_malloc"
         /\ MappingsOf(arg[t].s) = {}
  BY DEF EventSelectFind, Goto, TypeOK
<1>5. MappingsOf(arg[t].s) = {} => wanted[arg[t].s] = NoArg
  BY <1>1 DEF LocalsMatchPC, Mappings, AssociationRecorded
<1>6. SearchHolds'
  BY <1>1, <1>2, <1>3, <1>4, <1>5 DEF Alone, SearchHolds
<1>7. OneMappingPerSocket' /\ AssociationRecorded'
  BY <1>1, <1>3 DEF Mappings, OneMappingPerSocket, AssociationRecorded
<1>8. BlocksOwned'
  BY <1>1, <1>2, <1>3, <1>4 DEF Alone, Mappings, BlocksOwned
<1>9. MonitorsServeListed'
  BY <1>1, <1>2, <1>3, <1>4 DEF Alone, Mappings, MonitorsServeListed
<1> QED
  BY <1>6, <1>7, <1>8, <1>9 DEF Mappings

(* The mapping that is updated is that of the socket asked about, and no   *)
(* other socket's.                                                         *)
LEMMA UpdateKeeps ==
  ASSUME TypeOK, LocalsMatchPC, Mappings, NEW t \in Threads, EventSelectUpdate(t)
  PROVE  Mappings'
<1> USE DEF LockedPCs, UnmappedPCs
<1> DEFINE m == map[t]
           s == arg[t].s
<1>1. /\ UNCHANGED <<list, allocated, epolls, sock, monitor>>
      /\ pc[t] = "select_update"
      /\ event' = [event EXCEPT ![m] = arg[t].e]
      /\ networkEvents' = [networkEvents EXCEPT ![m] = arg[t].mask]
      /\ wanted' = [wanted EXCEPT ![s] = arg[t]]
  BY DEF EventSelectUpdate, monitors
<1>2. Alone(t) /\ pc'[t] = "idle"
  BY <1>1, ReturnAlone DEF EventSelectUpdate
<1>3. Listed' = Listed /\ \A q : MappingsOf(q)' = MappingsOf(q)
  BY <1>1 DEF Listed, MappingsOf
<1>4. m \in MappingsOf(s) /\ m \in Maps /\ s \in Sockets
  BY <1>1, ListedAreBlocks DEF Mappings, SearchHolds, MappingsOf, LocalsMatchPC
<1>5. SearchHolds'
  BY <1>2 DEF Alone, SearchHolds
<1>6. OneMappingPerSocket'
  BY <1>1 DEF Mappings, OneMappingPerSocket
<1>7. BlocksOwned'
  BY <1>1, <1>2, <1>3 DEF Alone, Mappings, BlocksOwned
<1>8. MonitorsServeListed'
  BY <1>1, <1>2, <1>3 DEF Alone, Mappings, MonitorsServeListed
<1>9. AssociationRecorded'
  <2> SUFFICES ASSUME NEW q \in Sockets, wanted'[q] # NoArg
               PROVE  \E n \in MappingsOf(q) : /\ event'[n] = wanted'[q].e
                                               /\ networkEvents'[n] = wanted'[q].mask
    BY <1>3 DEF AssociationRecorded
  <2>1. CASE q = s
    BY <1>1, <1>4, <2>1 DEF TypeOK
  <2>2. CASE q # s
    <3>1. PICK n \in MappingsOf(q) : event[n] = wanted[q].e /\ networkEvents[n] = wanted[q].mask
      BY <1>1, <2>2 DEF Mappings, AssociationRecorded, TypeOK
    <3>2. n # m
      BY <1>4, <2>2 DEF MappingsOf
    <3> QED
      BY <1>1, <2>2, <3>1, <3>2, ListedAreBlocks DEF MappingsOf, TypeOK
  <2> QED
    BY <2>1, <2>2
<1> QED
  BY <1>5, <1>6, <1>7, <1>8, <1>9 DEF Mappings

(* The steps that acquire a block and its epoll instance, and those that   *)
(* give them back before the block is listed.                              *)
LEMMA PrepareKeeps ==
  ASSUME TypeOK, LocalsMatchPC, Mappings, NEW t \in Threads,
         \/ EventSelectMalloc(t) \/ EventSelectMallocFails(t)
         \/ EventSelectEpollCreate(t) \/ EventSelectEpollFails(t)
  PROVE  Mappings'
<1> USE DEF LockedPCs, UnmappedPCs
<1>1. /\ UNCHANGED <<list, sock, event, networkEvents, monitor, wanted>>
      /\ pc[t] \in UnmappedPCs
  BY DEF EventSelectMalloc, EventSelectMallocFails, EventSelectEpollCreate, EventSelectEpollFails,
         Goto, blocks, monitors
<1>2. Listed' = Listed /\ \A s : MappingsOf(s)' = MappingsOf(s)
  BY <1>1 DEF Listed, MappingsOf
<1>3. CASE EventSelectMalloc(t)
  <2>1. PICK m \in Maps \ allocated : /\ allocated' = allocated \cup {m}
                                     /\ map' = [map EXCEPT ![t] = m]
    BY <1>3 DEF EventSelectMalloc
  <2>2. Alone(t) /\ pc[t] = "select_malloc" /\ pc'[t] = "select_epoll" /\ arg'[t] = arg[t]
    BY <1>1, <1>3, GotoAlone DEF EventSelectMalloc, TypeOK
  <2>3. map'[t] = m /\ m \notin Listed /\ epolls' = epolls
    BY <1>3, <2>1 DEF Mappings, BlocksOwned, EventSelectMalloc, TypeOK
  <2>4. SearchHolds'
    BY <1>1, <1>2, <2>2, <2>3 DEF Alone, Mappings, SearchHolds
  <2>5. BlocksOwned'
    BY <1>2, <2>1, <2>2, <2>3 DEF Alone, Mappings, BlocksOwned
  <2>6. MonitorsServeListed'
    BY <1>1, <1>2, <2>2 DEF Alone, Mappings, MonitorsServeListed
  <2> QED
    BY <1>1, <1>2, <2>4, <2>5, <2>6 DEF Mappings, OneMappingPerSocket, AssociationRecorded
<1>4. CASE EventSelectEpollCreate(t)
  <2>1. /\ Alone(t) /\ pc[t] = "select_epoll" /\ pc'[t] = "select_ctl"
        /\ arg'[t] = arg[t] /\ map'[t] = map[t]
        /\ allocated' = allocated /\ epolls' = epolls \cup {map[t]}
    BY <1>1, <1>4, GotoAlone DEF EventSelectEpollCreate, InCall
  <2>2. SearchHolds'
    BY <1>1, <1>2, <2>1 DEF Alone, Mappings, SearchHolds
  <2>3. BlocksOwned'
    BY <1>2, <2>1 DEF Alone, Mappings, BlocksOwned
  <2>4. MonitorsServeListed'
    BY <1>1, <1>2, <2>1 DEF Alone, Mappings, MonitorsServeListed
  <2> QED
    BY <1>1, <1>2, <2>2, <2>3, <2>4 DEF Mappings, OneMappingPerSocket, AssociationRecorded
<1>5. CASE EventSelectMallocFails(t) \/ EventSelectEpollFails(t)
  <2>1. Alone(t) /\ pc'[t] = "idle"
    BY <1>1, <1>5, ReturnAlone DEF EventSelectMallocFails, EventSelectEpollFails
  <2>2. SearchHolds'
    BY <2>1 DEF Alone, SearchHolds
  <2>3. BlocksOwned'
    <3>1. CASE EventSelectMallocFails(t)
      BY <1>2, <2>1, <3>1 DEF Alone, Mappings, BlocksOwned, EventSelectMallocFails, blocks
    <3>2. CASE EventSelectEpollFails(t)
      <4>1. map[t] \notin Listed
        BY <3>2 DEF Mappings, SearchHolds, EventSelectEpollFails
      <4>2. allocated' = Listed
        BY <2>1, <3>2, <4>1 DEF Alone, Mappings, BlocksOwned, EventSelectEpollFails
      <4>3. epolls' = Listed
        BY <2>1, <3>2, <4>1 DEF Alone, Mappings, BlocksOwned, EventSelectEpollFails
      <4> QED
        BY <1>2, <2>1, <4>2, <4>3 DEF Alone, BlocksOwned
    <3> QED
      BY <1>5, <3>1, <3>2
  <2>4. MonitorsServeListed'
    BY <1>1, <1>2, <2>1 DEF Alone, Mappings, MonitorsServeListed
  <2> QED
    BY <1>1, <1>2, <2>2, <2>3, <2>4 DEF Mappings, OneMappingPerSocket, AssociationRecorded
<1> QED
  BY <1>3, <1>4, <1>5

(* The block goes on the list, whose other blocks are all of other sockets. *)
LEMMA InsertKeeps ==
  ASSUME TypeOK, LocalsMatchPC, Mappings, NEW t \in Threads, EventSelectInsert(t)
  PROVE  Mappings'
<1> USE DEF LockedPCs, UnmappedPCs
<1> DEFINE m == map[t]
           s == arg[t].s
<1>1. /\ UNCHANGED <<allocated, epolls, monitor, wanted>>
      /\ pc[t] = "select_ctl"
      /\ sock' = [sock EXCEPT ![m] = s]
      /\ event' = [event EXCEPT ![m] = arg[t].e]
      /\ networkEvents' = [networkEvents EXCEPT ![m] = arg[t].mask]
      /\ list' = <<m>> \o list
  BY DEF EventSelectInsert, Goto, monitors
<1>2. Alone(t) /\ pc'[t] = "select_spawn" /\ arg'[t] = arg[t] /\ map'[t] = m
  BY <1>1, GotoAlone DEF EventSelectInsert, InCall
<1>3. m \in Maps /\ s \in Sockets
  BY <1>1 DEF LocalsMatchPC, MappedPCs, TypeOK
<1>4. m \notin Listed /\ MappingsOf(s) = {} /\ wanted[s] = NoArg
  BY <1>1 DEF Mappings, SearchHolds
<1>5. /\ list' # <<>>
      /\ list'[1] = m
      /\ DOMAIN list' = 1..(Len(list) + 1)
      /\ \A i \in 2..(Len(list) + 1) : i - 1 \in DOMAIN list /\ list'[i] = list[i - 1]
      /\ Listed' = {m} \cup Listed
  <2>1. list \in Seq(Maps) /\ list' = <<m>> \o list
    BY <1>1 DEF TypeOK
  <2> HIDE DEF m
  <2> QED
    BY <1>3, <2>1, PushLists, Zenon
<1>6. /\ sock'[m] = s /\ event'[m] = arg[t].e /\ networkEvents'[m] = arg[t].mask
      /\ \A n \in Listed : /\ sock'[n] = sock[n] /\ sock[n] # s
                           /\ event'[n] = event[n] /\ networkEvents'[n] = networkEvents[n]
  BY <1>1, <1>3, <1>4, ListedAreBlocks DEF TypeOK, MappingsOf
<1>7. \A q \in Sockets : MappingsOf(q)' = IF q = s THEN {m} ELSE MappingsOf(q)
  BY <1>4, <1>5, <1>6 DEF MappingsOf
<1>8. SearchHolds'
  BY <1>1, <1>2, <1>4, <1>5, <1>6 DEF Alone, SearchHolds
<1>9. OneMappingPerSocket'
  <2> SUFFICES ASSUME NEW i \in DOMAIN list', NEW j \in DOMAIN list', i < j
               PROVE  sock'[list'[i]] # sock'[list'[j]]
    <3>1. DOMAIN list' \subseteq Nat
      BY <1>5
    <3> QED
      BY <3>1 DEF OneMappingPerSocket
  <2>1. list'[j] = list[j - 1] /\ j - 1 \in DOMAIN list /\ list[j - 1] \in Listed
    BY <1>5 DEF Listed
  <2>2. CASE i = 1
    BY <1>5, <1>6, <2>1, <2>2
  <2>3. CASE i # 1
    <3>1. list'[i] = list[i - 1] /\ i - 1 \in DOMAIN list /\ list[i - 1] \in Listed
      BY <1>5, <2>3 DEF Listed
    <3>2. i - 1 # j - 1
      BY <1>5
    <3> QED
      BY <1>6, <2>1, <3>1, <3>2 DEF Mappings, OneMappingPerSocket
  <2> QED
    BY <2>2, <2>3
<1>10. BlocksOwned'
  <2>1. allocated = Listed \cup {m} /\ epolls = Listed \cup {m}
    BY <1>1, <1>2 DEF Alone, Mappings, BlocksOwned
  <2>2. \A u \in Threads : pc'[u] \notin {"select_epoll", "select_ctl"}
    BY <1>2 DEF Alone
  <2> QED
    BY <1>1, <1>5, <2>1, <2>2 DEF BlocksOwned
<1>11. MonitorsServeListed'
  <2> SUFFICES ASSUME NEW n \in Maps
               PROVE  monitor'[n] # "none" <=>
                        n \in Listed' /\ ~ \E u \in Threads : pc'[u] = "select_spawn" /\ map'[u] = n
    BY DEF MonitorsServeListed
  <2>1. (\E u \in Threads : pc'[u] = "select_spawn" /\ map'[u] = n) <=> n = m
    BY <1>2 DEF Alone
  <2>2. monitor[n] # "none" <=> n \in Listed
    BY <1>1, <1>2 DEF Alone, Mappings, MonitorsServeListed
  <2> QED
    BY <1>1, <1>4, <1>5, <2>1, <2>2
<1>12. AssociationRecorded'
  <2> SUFFICES ASSUME NEW q \in Sockets, wanted[q] # NoArg
               PROVE  \E n \in MappingsOf(q)' : /\ event'[n] = wanted[q].e
                                                /\ networkEvents'[n] = wanted[q].mask
    BY <1>1 DEF AssociationRecorded
  <2>1. PICK n \in MappingsOf(q) : event[n] = wanted[q].e /\ networkEvents[n] = wanted[q].mask
    BY DEF Mappings, AssociationRecorded
  <2> QED
    BY <1>4, <1>6, <1>7, <2>1 DEF MappingsOf
<1> QED
  BY <1>8, <1>9, <1>10, <1>11, <1>12 DEF Mappings

(* The monitor thread starts, and what was asked is on record.             *)
LEMMA SpawnKeeps ==
  ASSUME TypeOK, LocalsMatchPC, Mappings, NEW t \in Threads, EventSelectSpawn(t)
  PROVE  Mappings'
<1> USE DEF LockedPCs, UnmappedPCs
<1> DEFINE m == map[t]
           s == arg[t].s
<1>1. /\ UNCHANGED <<list, allocated, epolls, sock, event, networkEvents>>
      /\ pc[t] = "select_spawn"
      /\ monitor' = [monitor EXCEPT ![m] = "check"]
      /\ wanted' = [wanted EXCEPT ![s] = arg[t]]
  BY DEF EventSelectSpawn, Goto, blocks
<1>2. Alone(t) /\ pc'[t] = "select_nonblock"
  BY <1>1, GotoAlone DEF EventSelectSpawn, InCall
<1>3. Listed' = Listed /\ \A q : MappingsOf(q)' = MappingsOf(q)
  BY <1>1 DEF Listed, MappingsOf
<1>4. /\ m \in MappingsOf(s) /\ event[m] = arg[t].e /\ networkEvents[m] = arg[t].mask
      /\ s \in Sockets /\ m \in Maps /\ m \in Listed
  <2>1. list # <<>> /\ m = list[1] /\ sock[m] = s
    BY <1>1 DEF Mappings, SearchHolds
  <2>2. 1 \in DOMAIN list
    BY <2>1 DEF TypeOK
  <2> QED
    BY <1>1, <2>1, <2>2, ListedAreBlocks DEF Mappings, SearchHolds, Listed, MappingsOf, LocalsMatchPC
<1>5. SearchHolds'
  BY <1>2 DEF Alone, SearchHolds
<1>6. BlocksOwned'
  BY <1>1, <1>2, <1>3 DEF Alone, Mappings, BlocksOwned
<1>7. MonitorsServeListed'
  BY <1>1, <1>2, <1>3, <1>4 DEF Alone, Mappings, MonitorsServeListed, TypeOK
<1>8. AssociationRecorded'
  BY <1>1, <1>3, <1>4 DEF Mappings, AssociationRecorded, TypeOK
<1> QED
  BY <1>1, <1>5, <1>6, <1>7, <1>8 DEF Mappings, OneMappingPerSocket

(* The thread could not be created: the block that is taken off the list   *)
(* and freed is the one that was pushed, and nothing was asked of its      *)
(* socket before.                                                          *)
LEMMA SpawnFailsKeeps ==
  ASSUME TypeOK, LocalsMatchPC, Mappings, NEW t \in Threads, EventSelectSpawnFails(t)
  PROVE  Mappings'
<1> USE DEF LockedPCs, UnmappedPCs
<1> DEFINE m == map[t]
           s == arg[t].s
<1>1. /\ UNCHANGED <<monitor, wanted>>
      /\ pc[t] = "select_spawn"
      /\ list' = Tail(list)
      /\ epolls' = epolls \ {m}
      /\ allocated' = allocated \ {m}
      /\ sock' = [sock EXCEPT ![m] = NULL]
      /\ event' = [event EXCEPT ![m] = NULL]
      /\ networkEvents' = [networkEvents EXCEPT ![m] = {}]
  BY DEF EventSelectSpawnFails, monitors
<1>2. Alone(t) /\ pc'[t] = "idle"
  BY <1>1, ReturnAlone DEF EventSelectSpawnFails
<1>3. list # <<>> /\ m = list[1] /\ sock[m] = s /\ wanted[s] = NoArg
  BY <1>1 DEF Mappings, SearchHolds
<1>4. /\ list \in Seq(Maps)
      /\ DOMAIN list' = 1..(Len(list) - 1)
      /\ DOMAIN list = 1..Len(list)
      /\ 1 \in DOMAIN list
      /\ Len(list) \in Nat
      /\ \A i \in 1..(Len(list) - 1) : i + 1 \in DOMAIN list /\ list'[i] = list[i + 1]
  BY <1>1, <1>3, PopUnlists DEF TypeOK
<1>5. \A i \in DOMAIN list \ {1} : list[i] # m
  BY <1>3, <1>4, ListedOnce DEF Mappings
<1>6. Listed' = Listed \ {m}
  <2>1. ASSUME NEW n \in Listed' PROVE n \in Listed \ {m}
    <3>1. PICK i \in DOMAIN list' : n = list'[i]
      BY <2>1 DEF Listed
    <3>2. i + 1 \in DOMAIN list \ {1} /\ n = list[i + 1]
      BY <1>4, <3>1
    <3> QED
      BY <1>5, <3>2 DEF Listed
  <2>2. ASSUME NEW n \in Listed \ {m} PROVE n \in Listed'
    <3>1. PICK i \in DOMAIN list : n = list[i]
      BY DEF Listed
    <3>2. i - 1 \in DOMAIN list' /\ list'[i - 1] = n
      BY <1>3, <1>4, <3>1
    <3> QED
      BY <3>2 DEF Listed
  <2> QED
    BY <2>1, <2>2
<1>7. \A n \in Listed' : /\ sock'[n] = sock[n]
                         /\ event'[n] = event[n] /\ networkEvents'[n] = networkEvents[n]
  BY <1>1, <1>6, ListedAreBlocks DEF TypeOK
<1>8. SearchHolds'
  BY <1>2 DEF Alone, SearchHolds
<1>9. OneMappingPerSocket'
  <2> SUFFICES ASSUME NEW i \in DOMAIN list', NEW j \in DOMAIN list', i # j
               PROVE  sock'[list'[i]] # sock'[list'[j]]
    BY DEF OneMappingPerSocket
  <2>1. /\ i + 1 \in DOMAIN list /\ list'[i] = list[i + 1] /\ list'[i] \in Listed'
        /\ j + 1 \in DOMAIN list /\ list'[j] = list[j + 1] /\ list'[j] \in Listed'
        /\ i + 1 # j + 1
    BY <1>4 DEF Listed
  <2> QED
    BY <1>7, <2>1 DEF Mappings, OneMappingPerSocket
<1>10. BlocksOwned'
  <2>1. allocated = Listed /\ epolls = Listed
    BY <1>1, <1>2 DEF Alone, Mappings, BlocksOwned
  <2>2. \A u \in Threads : pc'[u] \notin {"select_epoll", "select_ctl"}
    BY <1>2 DEF Alone
  <2> QED
    BY <1>1, <1>6, <2>1, <2>2 DEF BlocksOwned
<1>11. MonitorsServeListed'
  <2> SUFFICES ASSUME NEW n \in Maps
               PROVE  monitor'[n] # "none" <=>
                        n \in Listed' /\ ~ \E u \in Threads : pc'[u] = "select_spawn" /\ map'[u] = n
    BY DEF MonitorsServeListed
  <2>1. \A u \in Threads : pc'[u] # "select_spawn"
    BY <1>2 DEF Alone
  <2>2. monitor[n] # "none" <=> n \in Listed /\ n # m
    BY <1>1, <1>2 DEF Alone, Mappings, MonitorsServeListed
  <2> QED
    BY <1>1, <1>6, <2>1, <2>2
<1>12. AssociationRecorded'
  <2> SUFFICES ASSUME NEW q \in Sockets, wanted[q] # NoArg
               PROVE  \E n \in MappingsOf(q)' : /\ event'[n] = wanted[q].e
                                                /\ networkEvents'[n] = wanted[q].mask
    BY <1>1 DEF AssociationRecorded
  <2>1. PICK n \in MappingsOf(q) : event[n] = wanted[q].e /\ networkEvents[n] = wanted[q].mask
    BY DEF Mappings, AssociationRecorded
  <2>2. n \in Listed' /\ sock[n] = q
    BY <1>3, <1>6, <2>1 DEF MappingsOf
  <2> QED
    BY <1>7, <2>1, <2>2 DEF MappingsOf
<1> QED
  BY <1>8, <1>9, <1>10, <1>11, <1>12 DEF Mappings

(* Every step of every thread, monitor, socket and event keeps Mappings.   *)
LEMMA MappingsStep == Inv /\ [Next]_vars => Mappings'
<1> SUFFICES ASSUME Inv, [Next]_vars PROVE Mappings'
  OBVIOUS
<1>1. TypeOK /\ LocalsMatchPC /\ Mappings
  BY DEF Inv, Mappings
<1>2. CASE UNCHANGED vars
  BY <1>1, <1>2, QuietKeeps DEF vars, blocks, monitors, locals
<1>3. ASSUME NEW t \in Threads, CallStep(t) PROVE Mappings'
  <2>1. ASSUME pc[t] \notin LockedPCs, pc' = [pc EXCEPT ![t] = "idle"],
               UNCHANGED <<blocks, monitors, wanted>>,
               \A u \in Threads \ {t} : arg'[u] = arg[u] /\ map'[u] = map[u]
        PROVE  Mappings'
    BY <1>1, <2>1, QuietKeeps DEF TypeOK, LockedPCs, blocks, monitors
  <2>2. ASSUME NEW r, Return(t, r), pc[t] \notin LockedPCs, UNCHANGED <<blocks, monitors, wanted>>
        PROVE  Mappings'
    BY <2>1, <2>2 DEF Return, TypeOK
  <2>3. ASSUME NEW from \in {"enum_find", "enum_error"}, NEW to \in {"enum_error", "enum_reset"},
               Goto(t, from, to), InCall, UNCHANGED <<blocks, monitors, wanted>>
        PROVE  Mappings'
    BY <1>1, <2>3, QuietKeeps DEF Goto, InCall, TypeOK, LockedPCs, blocks, monitors
  <2>4. CASE EventSelectNonblock(t)
    BY <2>2, <2>4 DEF EventSelectNonblock, LockedPCs
  <2>5. CASE EnumReset(t)
    BY <2>2, <2>5 DEF EnumReset, LockedPCs
  <2>6. CASE EnumFind(t)
    BY <2>2, <2>3, <2>6 DEF EnumFind, LockedPCs
  <2>7. CASE EnumError(t)
    BY <2>3, <2>7 DEF EnumError
  <2> QED
    BY <1>1, <1>3, <2>4, <2>5, <2>6, <2>7, FindKeeps, UpdateKeeps, PrepareKeeps, InsertKeeps,
       SpawnKeeps, SpawnFailsKeeps
       DEF CallStep
<1>4. ASSUME NEW t \in Threads, EnumFaults(t) PROVE Mappings'
  BY <1>1, <1>4, QuietKeeps DEF EnumFaults, Return, TypeOK, LockedPCs, blocks, monitors
<1>5. ASSUME NEW t \in Threads, NEW to \in {"select_find", "enum_find"},
             NEW s, NEW e, NEW mask, Call(t, to, s, e, mask)
      PROVE  Mappings'
  BY <1>1, <1>5, QuietKeeps DEF Call, Goto, TypeOK, LockedPCs, blocks, monitors
<1>6. ASSUME NEW m \in Maps, MonitorStep(m) PROVE Mappings'
  <2>1. \A n \in Maps : monitor'[n] = "none" <=> monitor[n] = "none"
    <3>1. PICK from, to : MonitorGoto(m, from, to) /\ from # "none" /\ to # "none"
      BY <1>6 DEF MonitorStep, MonitorCheck, MonitorTimeout, MonitorReport, MonitorTest,
                 MonitorLoad, MonitorSet
    <3> QED
      BY <3>1 DEF MonitorGoto, TypeOK
  <2>2. UNCHANGED <<blocks, locals, wanted>>
    BY <1>6 DEF MonitorStep, MonitorCheck, MonitorTimeout, MonitorReport, MonitorTest,
                 MonitorLoad, MonitorSet
  <2> QED
    BY <1>1, <2>1, <2>2, QuietKeeps DEF blocks, locals
<1>7. ASSUME NEW s \in Sockets, OpenSocket(s) \/ CloseSocket(s) \/ Arise(s) \/ Subside(s)
      PROVE  Mappings'
  <2>1. \A q \in Sockets : wanted'[q] \in {wanted[q], NoArg}
    <3>1. \/ wanted' = wanted
          \/ wanted' = [wanted EXCEPT ![s] = NoArg]
      BY <1>7 DEF OpenSocket, CloseSocket, Arise, Subside
    <3>2. wanted \in [Sockets -> Args]
      BY <1>1 DEF TypeOK
    <3> QED
      BY <3>1, <3>2
  <2>2. UNCHANGED <<list, allocated, epolls, sock, event, networkEvents, monitor, locals>>
    BY <1>7 DEF OpenSocket, CloseSocket, Arise, Subside, blocks, monitors
  <2> QED
    BY <1>1, <2>1, <2>2, QuietKeeps DEF locals
<1>8. ASSUME NEW e \in Events, CreateEvent(e) \/ ResetEvent(e) \/ CloseEvent(e)
      PROVE  Mappings'
  BY <1>1, <1>8, QuietKeeps DEF CreateEvent, ResetEvent, CloseEvent, blocks, monitors, locals
<1> QED
  BY <1>2, <1>3, <1>4, <1>5, <1>6, <1>7, <1>8 DEF Next, EventSelect, EnumNetworkEvents

(***************************************************************************)
(* Theorems                                                                *)
(***************************************************************************)
LEMMA InitInv == Init => Inv
<1> SUFFICES ASSUME Init PROVE Inv
  OBVIOUS
<1>1. NoArg \in Args /\ "none" \in Results /\ "idle" \in PCs /\ "idle" \notin LockedPCs
  BY DEF NoArg, Args, Results, PCs, LockedPCs
<1>2. TypeOK
  BY <1>1, NullAssumption DEF Init, TypeOK
<1>3. Listed = {}
  BY DEF Init, Listed
<1>4. LocalsMatchPC /\ SearchHolds
  BY DEF Init, LocalsMatchPC, SearchHolds, MappedPCs, UnmappedPCs
<1>5. OneMappingPerSocket /\ AssociationRecorded
  BY DEF Init, OneMappingPerSocket, AssociationRecorded
<1>6. BlocksOwned /\ MonitorsServeListed
  BY <1>3 DEF Init, BlocksOwned, MonitorsServeListed
<1> QED
  BY <1>2, <1>4, <1>5, <1>6 DEF Inv

(* The inductive invariant: who holds g_map_mutex knows what the list says *)
(* about its socket, and the list, the blocks and the monitors agree.      *)
THEOREM Invariance == Spec => []Inv
<1>1. Inv /\ [Next]_vars => Inv'
  BY TypeStep, LocalsStep, MappingsStep DEF Inv, Mappings
<1> QED
  BY <1>1, InitInv, PTL DEF Spec

(* Type correctness: g_map_mutex belongs to the thread that is between the *)
(* lock and an unlock of WSAEventSelect.                                   *)
THEOREM TypeCorrect == Spec => []TypeOK
<1>1. Inv => TypeOK
  BY DEF Inv
<1> QED
  BY <1>1, Invariance, PTL

(* However many threads call WSAEventSelect about a socket, the list never *)
(* has two mappings of it.                                                 *)
THEOREM OneMapping == Spec => []OneMappingPerSocket
<1>1. Inv => OneMappingPerSocket
  BY DEF Inv
<1> QED
  BY <1>1, Invariance, PTL

(* No way out of WSAEventSelect loses a block or an epoll instance, or     *)
(* leaves a freed block on the list.                                       *)
THEOREM NoBlockLost == Spec => []BlocksOwned
<1>1. Inv => BlocksOwned
  BY DEF Inv
<1> QED
  BY <1>1, Invariance, PTL

(* A monitor thread runs on a block exactly while the block is listed: it  *)
(* never works on freed memory, and no listed block is without one.        *)
THEOREM MonitorsServe == Spec => []MonitorsServeListed
<1>1. Inv => MonitorsServeListed
  BY DEF Inv
<1> QED
  BY <1>1, Invariance, PTL

(* The mapping of a socket says what WSAEventSelect was last successfully  *)
(* asked, whatever other calls did or failed to do meanwhile.              *)
THEOREM AssociationKept == Spec => []AssociationRecorded
<1>1. Inv => AssociationRecorded
  BY DEF Inv
<1> QED
  BY <1>1, Invariance, PTL
=============================================================================
