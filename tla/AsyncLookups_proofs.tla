------------------------- MODULE AsyncLookups_proofs -------------------------
(***************************************************************************)
(* Proofs about AsyncLookups: for any number of threads, any set of        *)
(* addresses and any number of handles.                                    *)
(***************************************************************************)
EXTENDS AsyncLookups, FiniteSetTheorems, TLAPS

(***************************************************************************)
(* Walks                                                                   *)
(***************************************************************************)
(* A walk visits requests alone.                                           *)
LEMMA FromRequests ==
  ASSUME NEW link, NEW r PROVE From(link, r) \subseteq Requests
BY DEF From

(* A walk from nowhere visits nothing.                                     *)
LEMMA FromNull == ASSUME NEW link PROVE From(link, NULL) = {}
<1>1. ({NULL} \cup {link[p] : p \in {}}) \ {NULL} \subseteq {}
  OBVIOUS
<1> QED
  BY <1>1 DEF From

(* A walk visits where it starts, and with a node what it links to.        *)
LEMMA FromClosed ==
  ASSUME NEW link \in [Requests -> Requests \cup {NULL}], NEW r \in Requests \cup {NULL}
  PROVE  ({r} \cup {link[p] : p \in From(link, r)}) \ {NULL} \subseteq From(link, r)
<1> SUFFICES ASSUME NEW q \in ({r} \cup {link[p] : p \in From(link, r)}) \ {NULL},
                    NEW S \in SUBSET Requests,
                    ({r} \cup {link[p] : p \in S}) \ {NULL} \subseteq S
             PROVE  q \in Requests /\ q \in S
  BY FromRequests DEF From
<1>1. q \in Requests
  BY FromRequests
<1>2. From(link, r) \subseteq S
  BY DEF From
<1> QED
  BY <1>1, <1>2

(* And no set that does so is smaller.                                     *)
LEMMA FromLeast ==
  ASSUME NEW link, NEW r, NEW S \in SUBSET Requests,
         ({r} \cup {link[p] : p \in S}) \ {NULL} \subseteq S
  PROVE  From(link, r) \subseteq S
BY DEF From

(* The first step of a walk.                                               *)
LEMMA FromUnfold ==
  ASSUME NEW link \in [Requests -> Requests \cup {NULL}], NEW r \in Requests
  PROVE  From(link, r) = {r} \cup From(link, link[r])
<1> DEFINE S == {r} \cup From(link, link[r])
<1> HIDE DEF S
<1>1. From(link, r) \subseteq S
  <2>1. ({link[r]} \cup {link[p] : p \in From(link, link[r])}) \ {NULL} \subseteq From(link, link[r])
    BY FromClosed
  <2>2. S \in SUBSET Requests
    BY FromRequests DEF S
  <2>3. ({r} \cup {link[p] : p \in S}) \ {NULL} \subseteq S
    <3>0. r \in S
      BY DEF S
    <3> SUFFICES ASSUME NEW p \in S, link[p] # NULL PROVE link[p] \in S
      BY <2>2, <3>0
    <3>1. CASE p = r
      BY <2>1, <3>1 DEF S
    <3>2. CASE p \in From(link, link[r])
      BY <2>1, <3>2 DEF S
    <3> QED
      BY <3>1, <3>2 DEF S
  <2> QED
    BY <2>2, <2>3, FromLeast
<1>2. S \subseteq From(link, r)
  <2>1. ({r} \cup {link[p] : p \in From(link, r)}) \ {NULL} \subseteq From(link, r)
    BY FromClosed
  <2>2. r \in From(link, r)
    BY <2>1, NullAssumption
  <2>3. ({link[r]} \cup {link[p] : p \in From(link, r)}) \ {NULL} \subseteq From(link, r)
    BY <2>1, <2>2
  <2>4. From(link, link[r]) \subseteq From(link, r)
    BY <2>3, FromRequests, FromLeast
  <2> QED
    BY <2>2, <2>4 DEF S
<1> QED
  BY <1>1, <1>2 DEF S

(* What a walk visits, a walk from there on visits too.                    *)
LEMMA FromWithin ==
  ASSUME NEW link \in [Requests -> Requests \cup {NULL}], NEW r \in Requests \cup {NULL},
         NEW q \in From(link, r)
  PROVE  /\ From(link, q) \subseteq From(link, r)
         /\ From(link, link[q]) \subseteq From(link, r)
<1>1. ({r} \cup {link[p] : p \in From(link, r)}) \ {NULL} \subseteq From(link, r)
  BY FromClosed
<1>2. From(link, r) \in SUBSET Requests
  BY FromRequests
<1>3. ({q} \cup {link[p] : p \in From(link, r)}) \ {NULL} \subseteq From(link, r)
  BY <1>1
<1>4. ({link[q]} \cup {link[p] : p \in From(link, r)}) \ {NULL} \subseteq From(link, r)
  BY <1>1
<1> QED
  BY <1>2, <1>3, <1>4, FromLeast

(* A link that a walk does not pass may change.                            *)
LEMMA FromUnchanged ==
  ASSUME NEW link \in [Requests -> Requests \cup {NULL}],
         NEW other \in [Requests -> Requests \cup {NULL}],
         NEW r \in Requests \cup {NULL}, 
         \A q \in From(link, r) : other[q] = link[q]
  PROVE  From(other, r) = From(link, r)
<1>1. ({r} \cup {link[p] : p \in From(link, r)}) \ {NULL} \subseteq From(link, r)
  BY FromClosed
<1>2. From(other, r) \subseteq From(link, r)
  <2>1. ({r} \cup {other[p] : p \in From(link, r)}) \ {NULL} \subseteq From(link, r)
    BY <1>1
  <2> QED
    BY <2>1, FromRequests, FromLeast
<1>3. From(link, r) \subseteq From(other, r)
  <2>1. ({r} \cup {other[p] : p \in From(other, r)}) \ {NULL} \subseteq From(other, r)
    BY FromClosed
  <2>2. ({r} \cup {link[p] : p \in From(other, r)}) \ {NULL} \subseteq From(other, r)
    BY <1>2, <2>1
  <2> QED
    BY <2>2, FromRequests, FromLeast
<1> QED
  BY <1>2, <1>3

(* A walk comes back to a node it has visited.                             *)
Loops(link, r) == \E q \in From(link, r) : q \in From(link, link[q])

(* Changing a link that a walk does not pass closes and opens no loop.     *)
LEMMA LoopsUnchanged ==
  ASSUME NEW link \in [Requests -> Requests \cup {NULL}],
         NEW other \in [Requests -> Requests \cup {NULL}],
         NEW r \in Requests \cup {NULL},
         \A q \in From(link, r) : other[q] = link[q]
  PROVE  Loops(other, r) <=> Loops(link, r)
<1>1. From(other, r) = From(link, r)
  BY FromUnchanged
<1>2. ASSUME NEW q \in From(link, r) PROVE From(other, other[q]) = From(link, link[q])
  <2>1. From(link, link[q]) \subseteq From(link, r)
    BY <1>2, FromWithin
  <2>2. link[q] \in Requests \cup {NULL}
    BY FromRequests
  <2>3. From(other, link[q]) = From(link, link[q])
    BY <2>1, <2>2, FromUnchanged
  <2> QED
    BY <2>3, <1>2
<1> QED
  BY <1>1, <1>2 DEF Loops

(***************************************************************************)
(* The inductive invariant                                                 *)
(***************************************************************************)
(* A thread inside a call has a request of its own, whose lookup has not   *)
(* begun.                                                                  *)
RequestOwned ==
  /\ \A t \in Threads :
       IF pc[t] \in {"idle", "searching"} THEN req[t] = NULL
       ELSE req[t] \in allocated /\ lookup[req[t]] = "none"
  /\ \A t, u \in Threads : t # u /\ req[t] # NULL => req[t] # req[u]
  /\ \A t \in Threads :
       pc[t] \in {"insert_lock", "insert_link", "insert_head", "undo"}
         => kind[req[t]] \in AboutHosts

(* A request whose lookup has begun is not freed.                          *)
LaunchedAllocated == Launched \subseteq allocated

(* The counter is past every number given out, save the one that a thread  *)
(* has taken and not yet counted.                                          *)
NumbersCounted ==
  /\ \A r \in allocated :
       handle[r] < counter \/ \E t \in Threads : pc[t] = "insert_link" /\ req[t] = r
  /\ \A t \in Threads : pc[t] = "insert_link" => handle[req[t]] = counter

(* The threads that are about to count.                                    *)
Counting == {t \in Threads : pc[t] \in {"insert_lock", "insert_link"}}

NumbersLeft == counter + Cardinality(Counting) <= MaxHandle + 1

(* A request that is about to become the head leads to the head.           *)
HeadLinked == \A t \in Threads : pc[t] = "insert_head" => next[req[t]] = head

Inv ==
  /\ TypeOK /\ RequestOwned /\ LaunchedAllocated /\ NumbersCounted /\ NumbersLeft /\ HeadLinked
  /\ HandlesDistinct /\ ListHoldsUnlessRaced

(***************************************************************************)
(* Who owns a request                                                      *)
(***************************************************************************)
CallPCs == {"insert_lock", "insert_link", "insert_head", "spawn", "undo"}

(* A thread has its request as long as it is inside a call.                *)
LEMMA Owner ==
  ASSUME TypeOK, RequestOwned, NEW t \in Threads
  PROVE  /\ pc[t] \in CallPCs => /\ req[t] \in Requests /\ req[t] \in allocated
                                 /\ lookup[req[t]] = "none" /\ req[t] # NULL
                                 /\ \A u \in Threads \ {t} : req[u] # req[t]
         /\ pc[t] \notin CallPCs => req[t] = NULL /\ pc[t] \in {"idle", "searching"}
BY NullAssumption DEF TypeOK, RequestOwned, CallPCs, PCs, LockedPCs

(* NULL is no address and no thread.                                       *)
LEMMA NullIsNoRequest == NULL \notin Requests /\ NULL \notin Threads
BY NullAssumption

(* No question is about both.                                              *)
LEMMA KindsDisjoint == AboutHosts \cap AboutServices = {}
BY DEF AboutHosts, AboutServices

(* Between a lock and an unlock a thread is alone.                         *)
LEMMA Alone ==
  ASSUME TypeOK, NEW t \in Threads, NEW u \in Threads, pc[t] \in LockedPCs
  PROVE  mutex = t /\ (pc[u] \in LockedPCs => u = t)
BY DEF TypeOK

(* While the mutex is free nobody is between a lock and an unlock.         *)
LEMMA Quiet ==
  ASSUME TypeOK, mutex = NULL PROVE \A t \in Threads : pc[t] \notin LockedPCs
BY NullAssumption DEF TypeOK

(* As long as a thread is about to count there is a number left for it.    *)
LEMMA NumberForCounting ==
  ASSUME TypeOK, NumbersLeft, NEW t \in Counting PROVE counter <= MaxHandle
<1>1. IsFiniteSet(Counting)
  BY ThreadsAssumption, FS_Subset DEF Counting
<1>2. Cardinality(Counting) \in Nat /\ Cardinality(Counting) # 0
  BY <1>1, FS_CardinalityType, FS_EmptySet
<1> QED
  BY <1>2, MaxHandleAssumption DEF NumbersLeft, TypeOK

(***************************************************************************)
(* The type invariant                                                      *)
(***************************************************************************)
(* At the start everything has its type.                                   *)
LEMMA TypeInit == Init => TypeOK
<1> SUFFICES ASSUME Init PROVE TypeOK
  OBVIOUS
<1>1. counter \in 1..(MaxHandle + 1)
  BY MaxHandleAssumption DEF Init
<1>2. handle \in [Requests -> 0..MaxHandle]
  BY MaxHandleAssumption DEF Init
<1>3. pc \in [Threads -> PCs]
  BY DEF Init, PCs
<1>4. \A t \in Threads : pc[t] \in LockedPCs <=> mutex = t
  BY NullAssumption DEF Init, LockedPCs
<1> QED
  BY <1>1, <1>2, <1>3, <1>4 DEF Init, TypeOK

(* A step that takes the mutex.                                            *)
LEMMA PcLock ==
  ASSUME TypeOK, NEW t \in Threads, NEW from, NEW to \in LockedPCs, Goto(t, from, to), Lock(t)
  PROVE  /\ pc' \in [Threads -> PCs] /\ mutex' \in Threads \cup {NULL}
         /\ \A u \in Threads : pc'[u] \in LockedPCs <=> mutex' = u
BY NullAssumption DEF TypeOK, Goto, Lock, PCs

(* A step that gives it back.                                              *)
LEMMA PcUnlock ==
  ASSUME TypeOK, NEW t \in Threads, NEW from \in LockedPCs, NEW to \in PCs \ LockedPCs,
         Goto(t, from, to), Unlock
  PROVE  /\ pc' \in [Threads -> PCs] /\ mutex' \in Threads \cup {NULL}
         /\ \A u \in Threads : pc'[u] \in LockedPCs <=> mutex' = u
<1>1. mutex = t
  BY DEF TypeOK, Goto
<1>2. pc' = [pc EXCEPT ![t] = to] /\ mutex' = NULL
  BY DEF Goto, Unlock
<1>3. \A u \in Threads : pc'[u] \notin LockedPCs
  BY <1>1, <1>2 DEF TypeOK
<1>4. pc' \in [Threads -> PCs]
  BY <1>2 DEF TypeOK
<1> QED
  BY <1>2, <1>3, <1>4, NullAssumption

(* A step inside or outside a critical section.                            *)
LEMMA PcMove ==
  ASSUME TypeOK, NEW t \in Threads, NEW from, NEW to \in PCs,
         from \in LockedPCs <=> to \in LockedPCs, Goto(t, from, to), UNCHANGED mutex
  PROVE  /\ pc' \in [Threads -> PCs] /\ mutex' \in Threads \cup {NULL}
         /\ \A u \in Threads : pc'[u] \in LockedPCs <=> mutex' = u
BY DEF TypeOK, Goto

(* Every step keeps the types.                                             *)
LEMMA TypeStep == TypeOK /\ RequestOwned /\ NumbersLeft /\ NumbersCounted /\ [Next]_vars => TypeOK'
<1> SUFFICES ASSUME TypeOK, RequestOwned, NumbersLeft, NumbersCounted, [Next]_vars PROVE TypeOK'
  OBVIOUS
<1>1. CASE UNCHANGED vars
  BY <1>1 DEF vars, shared, members, locals, TypeOK
<1>2. ASSUME NEW t \in Threads, NEW r \in Requests, NEW k \in Kinds, Allocate(t, r, k)
      PROVE  /\ allocated' \in SUBSET Requests /\ kind' \in [Requests -> Kinds \cup {NULL}]
             /\ cancelled' \in [Requests -> BOOLEAN] /\ handle' \in [Requests -> 0..MaxHandle]
             /\ lookup' \in [Requests -> {"none", "start", "resolve", "copy", "delivered", "done"}]
             /\ req' \in [Threads -> Requests \cup {NULL}]
  BY <1>2, MaxHandleAssumption DEF Allocate, TypeOK
<1>3. ASSUME NEW t \in Threads, NEW k \in Kinds, AsyncGetHost(t, k) PROVE TypeOK'
  <2>1. PICK r \in Requests : Allocate(t, r, k)
    BY <1>3 DEF AsyncGetHost
  <2>2. /\ pc' \in [Threads -> PCs] /\ mutex' \in Threads \cup {NULL}
        /\ \A u \in Threads : pc'[u] \in LockedPCs <=> mutex' = u
    BY <1>3, <2>1, PcMove DEF AsyncGetHost, Allocate, shared, PCs, LockedPCs
  <2> QED
    BY <1>2, <1>3, <2>1, <2>2 DEF AsyncGetHost, Allocate, shared, TypeOK
<1>4. ASSUME NEW t \in Threads, NEW k \in Kinds, AsyncGetService(t, k) PROVE TypeOK'
  <2>1. PICK r \in Requests : Allocate(t, r, k) /\ next' = [next EXCEPT ![r] = NULL]
    BY <1>4 DEF AsyncGetService
  <2>2. /\ pc' \in [Threads -> PCs] /\ mutex' \in Threads \cup {NULL}
        /\ \A u \in Threads : pc'[u] \in LockedPCs <=> mutex' = u
    BY <1>4, <2>1, PcMove DEF AsyncGetService, Allocate, shared, PCs, LockedPCs
  <2>3. next' \in [Requests -> Requests \cup {NULL}]
    BY <2>1 DEF TypeOK
  <2> QED
    BY <1>2, <1>4, <2>1, <2>2, <2>3 DEF Allocate, shared, TypeOK
<1>5. ASSUME NEW t \in Threads, InsertLock(t) PROVE TypeOK'
  <2>1. /\ pc' \in [Threads -> PCs] /\ mutex' \in Threads \cup {NULL}
        /\ \A u \in Threads : pc'[u] \in LockedPCs <=> mutex' = u
    BY <1>5, PcLock DEF InsertLock, LockedPCs
  <2>2. counter \in 0..MaxHandle
    BY <1>5, NumberForCounting, MaxHandleAssumption DEF InsertLock, Goto, Counting, TypeOK
  <2>3. handle' \in [Requests -> 0..MaxHandle]
    BY <1>5, <2>2 DEF InsertLock, TypeOK
  <2> QED
    BY <1>5, <2>1, <2>3 DEF InsertLock, TypeOK
<1>6. ASSUME NEW t \in Threads, InsertLink(t) PROVE TypeOK'
  <2>1. /\ pc' \in [Threads -> PCs] /\ mutex' \in Threads \cup {NULL}
        /\ \A u \in Threads : pc'[u] \in LockedPCs <=> mutex' = u
    BY <1>6, PcMove DEF InsertLink, LockedPCs, PCs
  <2>2. counter \in 0..MaxHandle /\ handle[req[t]] = counter
    BY <1>6, NumberForCounting, MaxHandleAssumption
       DEF InsertLink, Goto, Counting, TypeOK, NumbersCounted
  <2>3. counter' \in 1..(MaxHandle + 1)
    BY <1>6, <2>2, MaxHandleAssumption DEF InsertLink
  <2>4. next' \in [Requests -> Requests \cup {NULL}]
    BY <1>6 DEF InsertLink, TypeOK
  <2> QED
    BY <1>6, <2>1, <2>3, <2>4 DEF InsertLink, TypeOK
<1>7. ASSUME NEW t \in Threads, InsertHead(t) PROVE TypeOK'
  <2>1. /\ pc' \in [Threads -> PCs] /\ mutex' \in Threads \cup {NULL}
        /\ \A u \in Threads : pc'[u] \in LockedPCs <=> mutex' = u
    BY <1>7, PcUnlock DEF InsertHead, LockedPCs, PCs
  <2> QED
    BY <1>7, <2>1 DEF InsertHead, members, TypeOK
<1>8. ASSUME NEW t \in Threads, Return(t, "spawn"), UNCHANGED mutex
      PROVE  /\ pc' \in [Threads -> PCs] /\ mutex' \in Threads \cup {NULL}
             /\ \A u \in Threads : pc'[u] \in LockedPCs <=> mutex' = u
             /\ req' \in [Threads -> Requests \cup {NULL}]
  BY <1>8, PcMove DEF Return, LockedPCs, PCs, TypeOK
<1>9. ASSUME NEW t \in Threads, Spawn(t) PROVE TypeOK'
  <2>1. /\ pc' \in [Threads -> PCs] /\ mutex' \in Threads \cup {NULL}
        /\ \A u \in Threads : pc'[u] \in LockedPCs <=> mutex' = u
        /\ req' \in [Threads -> Requests \cup {NULL}]
    BY <1>8, <1>9 DEF Spawn, shared
  <2>2. lookup' \in [Requests -> {"none", "start", "resolve", "copy", "delivered", "done"}]
    BY <1>9 DEF Spawn, TypeOK
  <2> QED
    BY <1>9, <2>1, <2>2 DEF Spawn, shared, members, TypeOK
<1>10. ASSUME NEW t \in Threads, SpawnFailsService(t) PROVE TypeOK'
  <2>1. /\ pc' \in [Threads -> PCs] /\ mutex' \in Threads \cup {NULL}
        /\ \A u \in Threads : pc'[u] \in LockedPCs <=> mutex' = u
        /\ req' \in [Threads -> Requests \cup {NULL}]
    BY <1>8, <1>10 DEF SpawnFailsService, shared
  <2> QED
    BY <1>10, <2>1 DEF SpawnFailsService, shared, TypeOK
<1>11. ASSUME NEW t \in Threads, SpawnFailsHost(t) PROVE TypeOK'
  <2>1. /\ pc' \in [Threads -> PCs] /\ mutex' \in Threads \cup {NULL}
        /\ \A u \in Threads : pc'[u] \in LockedPCs <=> mutex' = u
    BY <1>11, PcLock DEF SpawnFailsHost, LockedPCs
  <2> QED
    BY <1>11, <2>1 DEF SpawnFailsHost, members, TypeOK
<1>12. ASSUME NEW t \in Threads, Undo(t) PROVE TypeOK'
  <2>1. /\ pc' \in [Threads -> PCs] /\ mutex' \in Threads \cup {NULL}
        /\ \A u \in Threads : pc'[u] \in LockedPCs <=> mutex' = u
    BY <1>12, PcUnlock DEF Undo, Return, LockedPCs, PCs
  <2>2. req[t] \in Requests
    BY <1>12, Owner DEF Undo, Return, Goto, CallPCs
  <2>3. head' \in Requests \cup {NULL} /\ req' \in [Threads -> Requests \cup {NULL}]
    BY <1>12, <2>2 DEF Undo, Return, TypeOK
  <2>4. raced' \in BOOLEAN
    BY <1>12 DEF Undo, TypeOK
  <2> QED
    BY <1>12, <2>1, <2>3, <2>4 DEF Undo, TypeOK
<1>13. ASSUME NEW t \in Threads, NEW h, CancelAsyncRequest(t, h) PROVE TypeOK'
  <2>1. /\ pc' \in [Threads -> PCs] /\ mutex' \in Threads \cup {NULL}
        /\ \A u \in Threads : pc'[u] \in LockedPCs <=> mutex' = u
    <3>1. CASE UNCHANGED <<mutex, pc>>
      BY <3>1 DEF TypeOK
    <3>2. CASE Goto(t, "idle", "searching") /\ Lock(t)
      BY <3>2, PcLock DEF LockedPCs
    <3> QED
      BY <1>13, <3>1, <3>2 DEF CancelAsyncRequest
  <2>2. /\ head' \in Requests \cup {NULL} /\ next' \in [Requests -> Requests \cup {NULL}]
        /\ cancelled' \in [Requests -> BOOLEAN]
    <3>1. CASE UNCHANGED <<cancelled, head, next>>
      BY <3>1 DEF TypeOK
    <3>2. CASE h \in Reachable
      <4>1. h \in Requests
        BY <3>2, FromRequests DEF Reachable
      <4>2. cancelled' = [cancelled EXCEPT ![h] = TRUE] /\ Unlink(h)
        BY <1>13, <3>2 DEF CancelAsyncRequest
      <4>3. next[h] \in Requests \cup {NULL}
        BY <4>1 DEF TypeOK
      <4>4. CASE head = h
        BY <4>1, <4>2, <4>3, <4>4 DEF Unlink, TypeOK
      <4>5. CASE head # h
        <5>1. next' = [q \in Requests |-> IF q \in Reachable /\ next[q] = h THEN next[h] ELSE next[q]]
          BY <4>2, <4>5 DEF Unlink
        <5>2. next' \in [Requests -> Requests \cup {NULL}]
          BY <4>3, <5>1 DEF TypeOK
        <5> QED
          BY <4>2, <4>5, <5>2 DEF Unlink, TypeOK
      <4> QED
        BY <4>4, <4>5
    <3> QED
      BY <1>13, <3>1, <3>2 DEF CancelAsyncRequest
  <2> QED
    BY <1>13, <2>1, <2>2 DEF CancelAsyncRequest, TypeOK
<1>14. ASSUME NEW r \in Requests, LookupStep(r) PROVE TypeOK'
  <2>1. lookup' \in [Requests -> {"none", "start", "resolve", "copy", "delivered", "done"}]
    BY <1>14 DEF LookupStep, LookupStart, LookupAnswer, LookupNotFound, LookupCopy, LookupGoto, TypeOK
  <2>2. static' \in [Kinds -> Requests \cup {NULL}]
    BY <1>14 DEF LookupStep, LookupStart, LookupAnswer, LookupNotFound, LookupCopy, TypeOK
  <2> QED
    BY <1>14, <2>1, <2>2
       DEF LookupStep, LookupStart, LookupAnswer, LookupNotFound, LookupCopy, shared, members,
           locals, TypeOK
<1> QED
  BY <1>1, <1>3, <1>4, <1>5, <1>6, <1>7, <1>9, <1>10, <1>11, <1>12, <1>13, <1>14 DEF Next, CallStep

(***************************************************************************)
(* The requests and the threads that own them                              *)
(***************************************************************************)
(* What a call that begins does to the requests.                           *)
LEMMA OwnedAllocate ==
  ASSUME TypeOK, RequestOwned, LaunchedAllocated, NEW t \in Threads, NEW r \in Requests,
         NEW k \in Kinds, NEW to \in {"insert_lock", "spawn"}, Allocate(t, r, k),
         Goto(t, "idle", to), to = "insert_lock" => k \in AboutHosts
  PROVE  RequestOwned' /\ LaunchedAllocated'
<1>1. /\ r \notin allocated /\ allocated' = allocated \cup {r}
      /\ kind' = [kind EXCEPT ![r] = k] /\ lookup' = [lookup EXCEPT ![r] = "none"]
      /\ req' = [req EXCEPT ![t] = r] /\ pc' = [pc EXCEPT ![t] = to] /\ r # NULL
  BY NullIsNoRequest DEF Allocate, Goto
<1>2. pc'[t] = to /\ req'[t] = r /\ lookup'[r] = "none" /\ kind'[r] = k
  BY <1>1 DEF TypeOK
<1>3. ASSUME NEW u \in Threads \ {t}
      PROVE  pc'[u] = pc[u] /\ req'[u] = req[u] /\ req[u] # r
  BY <1>1, Owner DEF TypeOK
<1>4. ASSUME NEW q \in allocated PROVE lookup'[q] = lookup[q] /\ kind'[q] = kind[q]
  BY <1>1 DEF TypeOK
<1>5. ASSUME NEW u \in Threads
      PROVE  /\ IF pc'[u] \in {"idle", "searching"} THEN req'[u] = NULL
                ELSE req'[u] \in allocated' /\ lookup'[req'[u]] = "none"
             /\ pc'[u] \in {"insert_lock", "insert_link", "insert_head", "undo"}
                  => kind'[req'[u]] \in AboutHosts
  <2>1. CASE u = t
    BY <1>1, <1>2, <2>1
  <2>2. CASE u # t
    BY <1>1, <1>3, <1>4, <2>2 DEF RequestOwned
  <2> QED
    BY <2>1, <2>2
<1>6. \A u, v \in Threads : u # v /\ req'[u] # NULL => req'[u] # req'[v]
  BY <1>2, <1>3 DEF RequestOwned
<1>7. RequestOwned'
  BY <1>5, <1>6 DEF RequestOwned
<1>8. LaunchedAllocated'
  BY <1>1, <1>2 DEF LaunchedAllocated, Launched, TypeOK
<1> QED
  BY <1>7, <1>8

(* A call that goes on keeps its request.                                  *)
LEMMA OwnedMove ==
  ASSUME TypeOK, RequestOwned, NEW t \in Threads, NEW from, NEW to, Goto(t, from, to),
         UNCHANGED <<allocated, kind, lookup, req>>,
         from \in CallPCs <=> to \in CallPCs, to \in PCs,
         to = "undo" => kind[req[t]] \in AboutHosts,
         to \in {"insert_lock", "insert_link", "insert_head"} =>
           from \in {"insert_lock", "insert_link", "insert_head"}
  PROVE  RequestOwned'
<1>1. pc' = [pc EXCEPT ![t] = to] /\ pc[t] = from /\ pc'[t] = to
  BY DEF Goto, TypeOK
<1>2. \A u \in Threads \ {t} : pc'[u] = pc[u]
  BY <1>1 DEF TypeOK
<1>3. to \in {"idle", "searching"} <=> pc[t] \in {"idle", "searching"}
  BY <1>1 DEF CallPCs, PCs, LockedPCs, TypeOK
<1> QED
  BY <1>1, <1>2, <1>3 DEF RequestOwned

(* A call that ends gives up its request, and frees no other.              *)
LEMMA OwnedReturn ==
  ASSUME TypeOK, RequestOwned, LaunchedAllocated, NEW t \in Threads, NEW from \in {"spawn", "undo"},
         Return(t, from), UNCHANGED kind,
         \/ UNCHANGED allocated /\ lookup' = [lookup EXCEPT ![req[t]] = "start"]
         \/ allocated' = allocated \ {req[t]} /\ UNCHANGED lookup
  PROVE  RequestOwned' /\ LaunchedAllocated'
<1>1. /\ pc' = [pc EXCEPT ![t] = "idle"] /\ req' = [req EXCEPT ![t] = NULL] /\ pc[t] = from
  BY DEF Return, Goto
<1>2. req[t] \in allocated /\ req[t] \in Requests /\ lookup[req[t]] = "none"
  BY <1>1, Owner DEF CallPCs
<1>3. pc'[t] = "idle" /\ req'[t] = NULL
  BY <1>1 DEF TypeOK
<1>4. ASSUME NEW u \in Threads \ {t}
      PROVE  pc'[u] = pc[u] /\ req'[u] = req[u] /\ req[u] # req[t]
  BY <1>1, <1>2, NullIsNoRequest DEF TypeOK, RequestOwned
<1>5. ASSUME NEW q \in allocated \ {req[t]} PROVE lookup'[q] = lookup[q] /\ q \in allocated'
  BY DEF TypeOK
<1>6. RequestOwned'
  BY <1>3, <1>4, <1>5 DEF RequestOwned
<1>7. LaunchedAllocated'
  BY <1>2 DEF LaunchedAllocated, Launched, TypeOK
<1> QED
  BY <1>6, <1>7

(* A step that changes none of what says who owns which request.           *)
LEMMA OwnedSame ==
  ASSUME RequestOwned, LaunchedAllocated, UNCHANGED <<allocated, kind, lookup, req, pc>>
  PROVE  RequestOwned' /\ LaunchedAllocated'
BY DEF RequestOwned, LaunchedAllocated, Launched

(* Every step leaves each call its request and each lookup its own.        *)
LEMMA OwnedStep ==
  TypeOK /\ RequestOwned /\ LaunchedAllocated /\ [Next]_vars => RequestOwned' /\ LaunchedAllocated'
<1> SUFFICES ASSUME TypeOK, RequestOwned, LaunchedAllocated, [Next]_vars
             PROVE  RequestOwned' /\ LaunchedAllocated'
  OBVIOUS
<1>1. CASE UNCHANGED vars
  BY <1>1, OwnedSame DEF vars, members, locals
<1>2. ASSUME NEW t \in Threads, NEW k \in Kinds \cap AboutHosts, AsyncGetHost(t, k)
      PROVE  RequestOwned' /\ LaunchedAllocated'
  BY <1>2, OwnedAllocate DEF AsyncGetHost
<1>3. ASSUME NEW t \in Threads, NEW k \in Kinds, AsyncGetService(t, k)
      PROVE  RequestOwned' /\ LaunchedAllocated'
  BY <1>3, OwnedAllocate DEF AsyncGetService
<1>4. ASSUME UNCHANGED <<allocated, lookup>> PROVE LaunchedAllocated'
  BY <1>4 DEF LaunchedAllocated, Launched
<1>5. ASSUME NEW t \in Threads, InsertLock(t) \/ InsertLink(t) \/ InsertHead(t)
      PROVE  RequestOwned' /\ LaunchedAllocated'
  <2>1. UNCHANGED <<allocated, kind, lookup, req>>
    BY <1>5 DEF InsertLock, InsertLink, InsertHead, members
  <2>2. \/ Goto(t, "insert_lock", "insert_link") \/ Goto(t, "insert_link", "insert_head")
        \/ Goto(t, "insert_head", "spawn")
    BY <1>5 DEF InsertLock, InsertLink, InsertHead
  <2>3. CASE Goto(t, "insert_lock", "insert_link")
    BY <1>4, <2>1, <2>3, OwnedMove DEF CallPCs, PCs, LockedPCs
  <2>4. CASE Goto(t, "insert_link", "insert_head")
    BY <1>4, <2>1, <2>4, OwnedMove DEF CallPCs, PCs, LockedPCs
  <2>5. CASE Goto(t, "insert_head", "spawn")
    BY <1>4, <2>1, <2>5, OwnedMove DEF CallPCs, PCs, LockedPCs
  <2> QED
    BY <2>2, <2>3, <2>4, <2>5
<1>6. ASSUME NEW t \in Threads, SpawnFailsHost(t) PROVE RequestOwned' /\ LaunchedAllocated'
  BY <1>4, <1>6, OwnedMove DEF SpawnFailsHost, members, CallPCs, PCs, LockedPCs
<1>7. ASSUME NEW t \in Threads, Spawn(t) \/ SpawnFailsService(t)
      PROVE  RequestOwned' /\ LaunchedAllocated'
  BY <1>7, OwnedReturn DEF Spawn, SpawnFailsService, members
<1>8. ASSUME NEW t \in Threads, Undo(t) PROVE RequestOwned' /\ LaunchedAllocated'
  BY <1>8, OwnedReturn DEF Undo
<1>9. ASSUME NEW t \in Threads, NEW h, CancelAsyncRequest(t, h)
      PROVE  RequestOwned' /\ LaunchedAllocated'
  <2>1. UNCHANGED <<allocated, kind, lookup, req>>
    BY <1>9 DEF CancelAsyncRequest
  <2>2. CASE UNCHANGED pc
    BY <2>1, <2>2, OwnedSame
  <2>3. CASE Goto(t, "idle", "searching")
    BY <1>4, <2>1, <2>3, OwnedMove DEF CallPCs, PCs, LockedPCs
  <2> QED
    BY <1>9, <2>2, <2>3 DEF CancelAsyncRequest
<1>10. ASSUME NEW r \in Requests, LookupStep(r) PROVE RequestOwned' /\ LaunchedAllocated'
  <2>1. UNCHANGED <<allocated, kind, req, pc>>
    BY <1>10 DEF LookupStep, LookupStart, LookupAnswer, LookupNotFound, LookupCopy, members, locals
  <2>2. lookup[r] # "none" /\ \E to : to # "none" /\ lookup' = [lookup EXCEPT ![r] = to]
    BY <1>10 DEF LookupStep, LookupStart, LookupAnswer, LookupNotFound, LookupCopy, LookupGoto
  <2>3. \A q \in Requests : lookup'[q] = "none" <=> lookup[q] = "none"
    BY <2>2 DEF TypeOK
  <2> QED
    BY <2>1, <2>3 DEF RequestOwned, LaunchedAllocated, Launched, TypeOK
<1> QED
  BY <1>1, <1>2, <1>3, <1>5, <1>6, <1>7, <1>8, <1>9, <1>10 DEF Next, CallStep

(***************************************************************************)
(* The numbers                                                             *)
(***************************************************************************)
Numbers == NumbersCounted /\ NumbersLeft /\ HandlesDistinct

(* A new request has no number yet.                                        *)
LEMMA NumbersAllocate ==
  ASSUME TypeOK, Numbers, NEW t \in Threads, NEW r \in Requests, NEW k \in Kinds,
         NEW to \in {"insert_lock", "spawn"}, Allocate(t, r, k), Goto(t, "idle", to),
         to = "insert_lock" => counter + Cardinality(Counting) <= MaxHandle, RequestOwned
  PROVE  Numbers'
<1>1. /\ r \notin allocated /\ allocated' = allocated \cup {r} /\ counter' = counter
      /\ handle' = [handle EXCEPT ![r] = 0] /\ req' = [req EXCEPT ![t] = r]
      /\ pc' = [pc EXCEPT ![t] = to] /\ pc[t] = "idle" /\ counter \in 1..(MaxHandle + 1)
  BY DEF Allocate, Goto, shared, TypeOK
<1>2. handle'[r] = 0 /\ \A q \in allocated : handle'[q] = handle[q]
  BY <1>1 DEF TypeOK
<1>3. pc'[t] = to /\ \A u \in Threads \ {t} : pc'[u] = pc[u] /\ req'[u] = req[u]
  BY <1>1 DEF TypeOK
<1>4. NumbersCounted'
  <2>1. 0 < counter'
    BY <1>1, MaxHandleAssumption
  <2>2. ASSUME NEW q \in allocated
        PROVE  handle'[q] < counter' \/ \E u \in Threads : pc'[u] = "insert_link" /\ req'[u] = q
    <3>1. CASE handle[q] < counter
      BY <1>1, <1>2, <3>1
    <3>2. ASSUME NEW u \in Threads, pc[u] = "insert_link", req[u] = q
          PROVE  pc'[u] = "insert_link" /\ req'[u] = q
      BY <1>1, <1>3, <3>2
    <3> QED
      BY <3>1, <3>2 DEF Numbers, NumbersCounted
  <2>3. ASSUME NEW u \in Threads, pc'[u] = "insert_link" PROVE handle'[req'[u]] = counter'
    <3>1. u # t /\ pc[u] = "insert_link"
      BY <1>3, <2>3
    <3>2. req[u] \in allocated
      BY <3>1, Owner DEF CallPCs
    <3> QED
      BY <1>1, <1>2, <1>3, <3>1, <3>2 DEF Numbers, NumbersCounted
  <2> QED
    BY <1>1, <1>2, <2>1, <2>2, <2>3 DEF NumbersCounted
<1>5. NumbersLeft'
  <2>1. CASE to = "insert_lock"
    <3>1. Counting' = Counting \cup {t} /\ t \notin Counting
      BY <1>1, <1>3, <2>1 DEF Counting
    <3>2. IsFiniteSet(Counting)
      BY ThreadsAssumption, FS_Subset DEF Counting
    <3>3. Cardinality(Counting') = Cardinality(Counting) + 1 /\ Cardinality(Counting) \in Nat
      BY <3>1, <3>2, FS_AddElement, FS_CardinalityType
    <3> QED
      BY <1>1, <2>1, <3>3, MaxHandleAssumption DEF NumbersLeft
  <2>2. CASE to = "spawn"
    <3>1. Counting' = Counting
      BY <1>1, <1>3, <2>2 DEF Counting
    <3> QED
      BY <1>1, <3>1 DEF Numbers, NumbersLeft
  <2> QED
    BY <2>1, <2>2
<1>6. HandlesDistinct'
  BY <1>1, <1>2 DEF Numbers, HandlesDistinct
<1> QED
  BY <1>4, <1>5, <1>6 DEF Numbers

(* A thread counts alone: the number it takes is past all the others.      *)
LEMMA NumbersLock ==
  ASSUME TypeOK, RequestOwned, Numbers, NEW t \in Threads, InsertLock(t) PROVE Numbers'
<1>1. /\ handle' = [handle EXCEPT ![req[t]] = counter] /\ mutex = NULL
      /\ pc' = [pc EXCEPT ![t] = "insert_link"] /\ pc[t] = "insert_lock"
      /\ UNCHANGED <<counter, allocated, req>>
  BY DEF InsertLock, Goto, Lock
<1>2. req[t] \in Requests /\ req[t] \in allocated /\ \A u \in Threads \ {t} : req[u] # req[t]
  BY <1>1, Owner DEF CallPCs
<1>3. handle'[req[t]] = counter /\ \A q \in Requests \ {req[t]} : handle'[q] = handle[q]
  BY <1>1, <1>2 DEF TypeOK
<1>4. \A u \in Threads : pc[u] # "insert_link"
  BY <1>1, Quiet DEF LockedPCs
<1>5. \A q \in allocated : handle[q] < counter
  BY <1>4 DEF Numbers, NumbersCounted
<1>6. pc'[t] = "insert_link" /\ \A u \in Threads \ {t} : pc'[u] = pc[u]
  BY <1>1 DEF TypeOK
<1>7. allocated \subseteq Requests /\ counter \in Nat /\ \A q \in Requests : handle[q] \in Nat
  BY MaxHandleAssumption DEF TypeOK
<1>8. NumbersCounted'
  BY <1>1, <1>3, <1>4, <1>5, <1>6, <1>7 DEF NumbersCounted
<1>9. NumbersLeft'
  <2>1. Counting' = Counting
    BY <1>1, <1>6 DEF Counting
  <2> QED
    BY <1>1, <2>1 DEF Numbers, NumbersLeft
<1>10. HandlesDistinct'
  <2> SUFFICES ASSUME NEW q \in allocated, NEW r \in allocated, q # r, handle'[q] # 0
               PROVE  handle'[q] # handle'[r]
    BY <1>1 DEF HandlesDistinct
  <2>1. CASE q = req[t]
    BY <1>3, <1>5, <1>7, <2>1
  <2>2. CASE r = req[t]
    BY <1>3, <1>5, <1>7, <2>2
  <2>3. CASE q # req[t] /\ r # req[t]
    BY <1>3, <1>7, <2>3 DEF Numbers, HandlesDistinct
  <2> QED
    BY <2>1, <2>2, <2>3
<1> QED
  BY <1>8, <1>9, <1>10 DEF Numbers

(* When it has counted, the next number is free.                           *)
LEMMA NumbersLink ==
  ASSUME TypeOK, RequestOwned, Numbers, NEW t \in Threads, InsertLink(t) PROVE Numbers'
<1>1. /\ pc' = [pc EXCEPT ![t] = "insert_head"] /\ pc[t] = "insert_link"
      /\ counter' = handle[req[t]] + 1 /\ UNCHANGED <<handle, allocated, req>>
  BY DEF InsertLink, Goto
<1>2. handle[req[t]] = counter /\ counter \in Nat
  BY <1>1, MaxHandleAssumption DEF Numbers, NumbersCounted, TypeOK
<1>3. counter' = counter + 1
  BY <1>1, <1>2
<1>4. pc'[t] = "insert_head" /\ \A u \in Threads \ {t} : pc'[u] = pc[u]
  BY <1>1 DEF TypeOK
<1>5. \A u \in Threads \ {t} : pc[u] # "insert_link"
  BY <1>1, Alone DEF LockedPCs
<1>6. \A q \in allocated : handle[q] \in Nat
  BY MaxHandleAssumption DEF TypeOK
<1>7. NumbersCounted'
  <2>1. ASSUME NEW q \in allocated PROVE handle[q] < counter + 1
    BY <1>2, <1>5, <1>6 DEF Numbers, NumbersCounted
  <2> QED
    BY <1>1, <1>3, <1>4, <1>5, <2>1 DEF NumbersCounted
<1>8. NumbersLeft'
  <2>1. Counting' = Counting \ {t} /\ t \in Counting
    BY <1>1, <1>4 DEF Counting
  <2>2. IsFiniteSet(Counting)
    BY ThreadsAssumption, FS_Subset DEF Counting
  <2>3. Cardinality(Counting') = Cardinality(Counting) - 1 /\ Cardinality(Counting) \in Nat
    BY <2>1, <2>2, FS_RemoveElement, FS_CardinalityType
  <2> QED
    BY <1>2, <1>3, <2>3, MaxHandleAssumption DEF Numbers, NumbersLeft
<1>9. HandlesDistinct'
  BY <1>1 DEF Numbers, HandlesDistinct
<1> QED
  BY <1>7, <1>8, <1>9 DEF Numbers

(* Nothing else counts.                                                    *)
LEMMA NumbersSame ==
  ASSUME TypeOK, RequestOwned, Numbers, UNCHANGED <<counter, handle>>, allocated' \subseteq allocated,
         \A u \in Threads : \/ pc'[u] = pc[u] /\ req'[u] = req[u]
                            \/ /\ pc[u] \notin {"insert_lock", "insert_link"}
                               /\ pc'[u] \notin {"insert_lock", "insert_link"}
  PROVE  Numbers'
<1>1. Counting' = Counting
  BY DEF Counting
<1>2. NumbersCounted'
  BY DEF Numbers, NumbersCounted
<1> QED
  BY <1>1, <1>2 DEF Numbers, NumbersLeft, HandlesDistinct

(* Every step keeps the numbers apart.                                     *)
LEMMA NumbersStep == TypeOK /\ RequestOwned /\ Numbers /\ [Next]_vars => Numbers'
<1> SUFFICES ASSUME TypeOK, RequestOwned, Numbers, [Next]_vars PROVE Numbers'
  OBVIOUS
<1>1. CASE UNCHANGED vars
  BY <1>1, NumbersSame DEF vars, shared, members, locals
<1>2. ASSUME NEW t \in Threads, NEW k \in Kinds, AsyncGetHost(t, k) PROVE Numbers'
  BY <1>2, NumbersAllocate DEF AsyncGetHost, Counting
<1>3. ASSUME NEW t \in Threads, NEW k \in Kinds, AsyncGetService(t, k) PROVE Numbers'
  BY <1>3, NumbersAllocate DEF AsyncGetService
<1>4. ASSUME NEW t \in Threads, NEW from, NEW to, Goto(t, from, to), UNCHANGED <<counter, handle>>,
             allocated' \subseteq allocated, from \notin {"insert_lock", "insert_link"},
             to \notin {"insert_lock", "insert_link"}, \A u \in Threads \ {t} : req'[u] = req[u]
      PROVE  Numbers'
  BY <1>4, NumbersSame DEF Goto, TypeOK
<1>5. ASSUME NEW t \in Threads, InsertHead(t) \/ SpawnFailsHost(t) PROVE Numbers'
  BY <1>4, <1>5 DEF InsertHead, SpawnFailsHost, shared, members
<1>6. ASSUME NEW t \in Threads, Spawn(t) \/ SpawnFailsService(t) \/ Undo(t) PROVE Numbers'
  <2>1. /\ UNCHANGED <<counter, handle>> /\ allocated' \subseteq allocated
        /\ Return(t, "spawn") \/ Return(t, "undo")
    BY <1>6 DEF Spawn, SpawnFailsService, Undo, shared, members
  <2>2. \A u \in Threads \ {t} : req'[u] = req[u]
    BY <2>1 DEF Return, TypeOK
  <2>3. Goto(t, "spawn", "idle") \/ Goto(t, "undo", "idle")
    BY <2>1 DEF Return
  <2> QED
    BY <1>4, <2>1, <2>2, <2>3
<1>7. ASSUME NEW t \in Threads, NEW h, CancelAsyncRequest(t, h) PROVE Numbers'
  <2>1. CASE UNCHANGED pc
    BY <1>7, <2>1, NumbersSame DEF CancelAsyncRequest
  <2>2. CASE Goto(t, "idle", "searching")
    BY <1>4, <1>7, <2>2 DEF CancelAsyncRequest
  <2> QED
    BY <1>7, <2>1, <2>2 DEF CancelAsyncRequest
<1>8. ASSUME NEW r \in Requests, LookupStep(r) PROVE Numbers'
  BY <1>8, NumbersSame
     DEF LookupStep, LookupStart, LookupAnswer, LookupNotFound, LookupCopy, shared, members, locals
<1> QED
  BY <1>1, <1>2, <1>3, <1>5, <1>6, <1>7, <1>8, NumbersLock, NumbersLink DEF Next, CallStep

(***************************************************************************)
(* The list                                                                *)
(***************************************************************************)
(* What is on the list, or meant to be, is a request.                      *)
LEMMA PushedRequests == TypeOK => Pushed \subseteq Requests
BY DEF TypeOK, Pushed

(* A new request is not on the list.                                       *)
LEMMA PushedAllocate ==
  ASSUME TypeOK, RequestOwned, NEW t \in Threads, NEW r \in Requests, NEW k,
         NEW to \in {"insert_lock", "spawn"}, Allocate(t, r, k), Goto(t, "idle", to),
         to = "spawn" => k \in AboutServices
  PROVE  Pushed' = Pushed /\ r \notin Pushed
<1>1. /\ r \notin allocated /\ allocated' = allocated \cup {r} /\ kind' = [kind EXCEPT ![r] = k]
      /\ req' = [req EXCEPT ![t] = r] /\ pc' = [pc EXCEPT ![t] = to] /\ pc[t] = "idle"
  BY DEF Allocate, Goto
<1>2. pc'[t] = to /\ req'[t] = r /\ kind'[r] = k /\ \A q \in allocated : kind'[q] = kind[q]
  BY <1>1 DEF TypeOK
<1>3. \A u \in Threads \ {t} : pc'[u] = pc[u] /\ req'[u] = req[u]
  BY <1>1 DEF TypeOK
<1>4. req[t] = NULL /\ NULL \notin allocated
  BY <1>1, Owner, NullIsNoRequest DEF CallPCs, TypeOK
<1>5. r \notin Pushed'
  <2>1. CASE to = "insert_lock"
    BY <1>2, <2>1 DEF Pushed
  <2>2. CASE to = "spawn"
    BY <1>2, <2>2, KindsDisjoint DEF Pushed
  <2> QED
    BY <2>1, <2>2
<1>6. ASSUME NEW q \in allocated PROVE q \in Pushed' <=> q \in Pushed
  <2>1. q # r /\ q # NULL /\ q \in allocated' /\ kind'[q] = kind[q]
    BY <1>1, <1>2, <1>4
  <2>2. (\A u \in Threads : req'[u] = q => pc'[u] \in {"spawn", "undo"})
          <=> (\A u \in Threads : req[u] = q => pc[u] \in {"spawn", "undo"})
    BY <1>2, <1>3, <1>4, <2>1
  <2> QED
    BY <2>1, <2>2 DEF Pushed
<1> QED
  BY <1>1, <1>5, <1>6 DEF Pushed

(* A step of a thread that says nothing about the list.                    *)
LEMMA PushedSame ==
  ASSUME UNCHANGED <<allocated, kind>>,
         \A u \in Threads : \/ /\ req'[u] = req[u]
                               /\ pc'[u] \in {"spawn", "undo"} <=> pc[u] \in {"spawn", "undo"}
                            \/ /\ req[u] \notin allocated \/ pc[u] \in {"spawn", "undo"}
                               /\ req'[u] \notin allocated \/ pc'[u] \in {"spawn", "undo"}
  PROVE  Pushed' = Pushed
BY DEF Pushed

(* A list whose links have not changed is as right as it was.              *)
LEMMA ListKept ==
  ASSUME TypeOK, TypeOK', ListHoldsUnlessRaced, UNCHANGED <<head, raced>>, Pushed' = Pushed,
         \A q \in Pushed : next'[q] = next[q]
  PROVE  ListHoldsUnlessRaced'
<1> SUFFICES ASSUME ~raced' PROVE Reachable' = Pushed' /\ ~Cyclic'
  BY DEF ListHoldsUnlessRaced, ListHoldsPushed
<1>1. From(next, head) = Pushed /\ ~Loops(next, head)
  BY DEF ListHoldsUnlessRaced, ListHoldsPushed, Reachable, Cyclic, Loops
<1>2. /\ next \in [Requests -> Requests \cup {NULL}] /\ next' \in [Requests -> Requests \cup {NULL}]
      /\ head \in Requests \cup {NULL}
  BY DEF TypeOK
<1>3. \A q \in From(next, head) : next'[q] = next[q]
  BY <1>1
<1>4. From(next', head) = From(next, head)
  BY <1>2, <1>3, FromUnchanged
<1>5. Loops(next', head) <=> Loops(next, head)
  BY <1>2, <1>3, LoopsUnchanged
<1>6. Reachable' = From(next', head) /\ (Cyclic' <=> Loops(next', head))
  BY DEF Reachable, Cyclic, Loops
<1> QED
  BY <1>1, <1>4, <1>5, <1>6

(* A push puts the request before what the list held.                      *)
LEMMA ListPush ==
  ASSUME TypeOK, RequestOwned, HeadLinked, ListHoldsUnlessRaced, NEW t \in Threads, InsertHead(t)
  PROVE  ListHoldsUnlessRaced'
<1> SUFFICES ASSUME ~raced' PROVE Reachable' = Pushed' /\ ~Cyclic'
  BY DEF ListHoldsUnlessRaced, ListHoldsPushed
<1> DEFINE r == req[t]
<1>1. /\ pc' = [pc EXCEPT ![t] = "spawn"] /\ pc[t] = "insert_head" /\ head' = r
      /\ UNCHANGED <<next, allocated, kind, req, raced>>
  BY DEF InsertHead, Goto, members
<1>2. /\ r \in Requests /\ r \in allocated /\ \A u \in Threads \ {t} : req[u] # r
      /\ kind[r] \in AboutHosts /\ next[r] = head
  BY <1>1, Owner DEF CallPCs, RequestOwned, HeadLinked
<1>3. pc'[t] = "spawn" /\ \A u \in Threads \ {t} : pc'[u] = pc[u]
  BY <1>1 DEF TypeOK
<1>4. r \notin Pushed /\ Pushed' = Pushed \cup {r}
  <2>1. r \notin Pushed
    BY <1>1 DEF Pushed
  <2>2. r \in Pushed'
    BY <1>1, <1>2, <1>3 DEF Pushed
  <2>3. ASSUME NEW q, q # r PROVE q \in Pushed' <=> q \in Pushed
    BY <1>1, <1>3, <2>3 DEF Pushed
  <2> QED
    BY <2>1, <2>2, <2>3
<1>5. From(next, head) = Pushed /\ ~Loops(next, head)
  BY <1>1 DEF ListHoldsUnlessRaced, ListHoldsPushed, Reachable, Cyclic, Loops
<1>6. From(next, r) = {r} \cup Pushed
  BY <1>2, <1>5, FromUnfold DEF TypeOK
<1>7. ~Loops(next, r)
  <2> SUFFICES ASSUME NEW q \in From(next, r), q \in From(next, next[q]) PROVE FALSE
    BY DEF Loops
  <2>1. CASE q = r
    BY <1>2, <1>4, <1>5, <2>1
  <2>2. CASE q \in Pushed
    BY <1>5, <2>2 DEF Loops
  <2> QED
    BY <1>6, <2>1, <2>2
<1>8. Reachable' = From(next, r) /\ (Cyclic' <=> Loops(next, r))
  BY <1>1 DEF Reachable, Cyclic, Loops
<1> QED
  BY <1>4, <1>6, <1>7, <1>8

(* A call that finds its own request at the head takes it off.             *)
LEMMA ListUndo ==
  ASSUME TypeOK, RequestOwned, ListHoldsUnlessRaced, NEW t \in Threads, Undo(t)
  PROVE  ListHoldsUnlessRaced'
<1> SUFFICES ASSUME ~raced' PROVE Reachable' = Pushed' /\ ~Cyclic'
  BY DEF ListHoldsUnlessRaced, ListHoldsPushed
<1> DEFINE r == req[t]
<1>1. /\ pc' = [pc EXCEPT ![t] = "idle"] /\ req' = [req EXCEPT ![t] = NULL] /\ pc[t] = "undo"
      /\ head' = next[r] /\ allocated' = allocated \ {r} /\ ~raced /\ head = r
      /\ UNCHANGED <<next, kind>>
  BY DEF Undo, Return, Goto
<1>2. r \in Requests /\ r # NULL
  BY <1>1, Owner DEF CallPCs
<1>3. From(next, r) = Pushed /\ ~Loops(next, r)
  BY <1>1 DEF ListHoldsUnlessRaced, ListHoldsPushed, Reachable, Cyclic, Loops
<1>4. From(next, r) = {r} \cup From(next, next[r])
  BY <1>2, FromUnfold DEF TypeOK
<1>5. r \notin From(next, next[r])
  BY <1>3, <1>4 DEF Loops
<1>6. From(next, next[r]) = Pushed \ {r}
  BY <1>3, <1>4, <1>5
<1>7. ~Loops(next, next[r])
  BY <1>3, <1>4 DEF Loops
<1>8. Pushed' = Pushed \ {r}
  <2>1. pc'[t] = "idle" /\ req'[t] = NULL
    BY <1>1 DEF TypeOK
  <2>2. \A u \in Threads \ {t} : pc'[u] = pc[u] /\ req'[u] = req[u]
    BY <1>1 DEF TypeOK
  <2>3. NULL \notin allocated
    BY NullIsNoRequest DEF TypeOK
  <2>4. ASSUME NEW q, q # r PROVE q \in Pushed' <=> q \in Pushed
    BY <1>1, <2>1, <2>2, <2>3, <2>4 DEF Pushed
  <2> QED
    BY <1>1, <2>4 DEF Pushed
<1>9. Reachable' = From(next, next[r]) /\ (Cyclic' <=> Loops(next, next[r]))
  BY <1>1 DEF Reachable, Cyclic, Loops
<1> QED
  BY <1>6, <1>7, <1>8, <1>9

(* A cancellation looks for a number or for a request that is no lookup of *)
(* a host, and finds neither on the list.                                  *)
LEMMA NothingToCancel ==
  ASSUME TypeOK, ListHoldsUnlessRaced, ~raced, NEW h \in Issued PROVE h \notin Reachable
<1>1. PICK r \in Launched : h = IF kind[r] \in AboutHosts THEN handle[r] ELSE r
  BY DEF Issued
<1>2. Reachable = Pushed
  BY DEF ListHoldsUnlessRaced, ListHoldsPushed
<1>3. CASE kind[r] \in AboutHosts
  BY <1>1, <1>2, <1>3, PushedRequests, RequestsAssumption DEF TypeOK, Launched
<1>4. CASE kind[r] \notin AboutHosts
  BY <1>1, <1>2, <1>4 DEF Pushed
<1> QED
  BY <1>3, <1>4

(* Every step keeps the list right, until two calls that fail have raced.  *)
LEMMA ListStep ==
  ASSUME TypeOK, TypeOK', RequestOwned, HeadLinked, ListHoldsUnlessRaced, [Next]_vars
  PROVE  ListHoldsUnlessRaced'
<1>1. CASE UNCHANGED vars
  BY <1>1, PushedSame, ListKept DEF vars, shared, members, locals
<1>2. ASSUME NEW t \in Threads, NEW k \in Kinds, AsyncGetHost(t, k) PROVE ListHoldsUnlessRaced'
  <2>1. PICK r \in Requests : Allocate(t, r, k)
    BY <1>2 DEF AsyncGetHost
  <2>2. Goto(t, "idle", "insert_lock") /\ UNCHANGED <<head, raced, next>>
    BY <1>2, <2>1 DEF AsyncGetHost, Allocate, shared
  <2> QED
    BY <2>1, <2>2, PushedAllocate, ListKept
<1>3. ASSUME NEW t \in Threads, NEW k \in AboutServices, AsyncGetService(t, k)
      PROVE  ListHoldsUnlessRaced'
  <2>1. PICK r \in Requests : Allocate(t, r, k) /\ next' = [next EXCEPT ![r] = NULL]
    BY <1>3 DEF AsyncGetService
  <2>2. Goto(t, "idle", "spawn") /\ UNCHANGED <<head, raced>>
    BY <1>3, <2>1 DEF AsyncGetService, Allocate, shared
  <2>3. Pushed' = Pushed /\ r \notin Pushed
    BY <2>1, <2>2, PushedAllocate
  <2>4. \A q \in Pushed : next'[q] = next[q]
    BY <2>1, <2>3, PushedRequests DEF TypeOK
  <2> QED
    BY <2>2, <2>3, <2>4, ListKept
<1>4. ASSUME NEW t \in Threads, NEW from, NEW to, Goto(t, from, to),
             UNCHANGED <<allocated, kind, req>>,
             from \in {"spawn", "undo"} <=> to \in {"spawn", "undo"}
      PROVE  Pushed' = Pushed
  BY <1>4, PushedSame DEF Goto, TypeOK
<1>5. ASSUME NEW t \in Threads, InsertLock(t) PROVE ListHoldsUnlessRaced'
  <2>1. Pushed' = Pushed
    BY <1>4, <1>5 DEF InsertLock
  <2> QED
    BY <1>5, <2>1, ListKept DEF InsertLock
<1>6. ASSUME NEW t \in Threads, InsertLink(t) PROVE ListHoldsUnlessRaced'
  <2>1. Pushed' = Pushed
    BY <1>4, <1>6 DEF InsertLink
  <2>2. req[t] \notin Pushed
    BY <1>6 DEF InsertLink, Goto, Pushed
  <2>3. \A q \in Pushed : next'[q] = next[q]
    BY <1>6, <2>2, PushedRequests DEF InsertLink, TypeOK
  <2> QED
    BY <1>6, <2>1, <2>3, ListKept DEF InsertLink
<1>7. ASSUME NEW t \in Threads, SpawnFailsHost(t) PROVE ListHoldsUnlessRaced'
  <2>1. Pushed' = Pushed
    BY <1>4, <1>7 DEF SpawnFailsHost, members
  <2> QED
    BY <1>7, <2>1, ListKept DEF SpawnFailsHost, members
<1>8. ASSUME NEW t \in Threads, Return(t, "spawn")
      PROVE  /\ pc[t] = "spawn" /\ req'[t] = NULL /\ req[t] \in Requests
             /\ NULL \notin allocated
             /\ \A u \in Threads \ {t} : pc'[u] = pc[u] /\ req'[u] = req[u]
  BY <1>8, Owner, NullIsNoRequest DEF Return, Goto, CallPCs, TypeOK
<1>9. ASSUME NEW t \in Threads, Spawn(t) PROVE ListHoldsUnlessRaced'
  <2>1. Return(t, "spawn") /\ UNCHANGED <<head, raced, next, allocated, kind>>
    BY <1>9 DEF Spawn, shared, members
  <2>2. Pushed' = Pushed
    BY <1>8, <2>1, PushedSame
  <2> QED
    BY <2>1, <2>2, ListKept
<1>10. ASSUME NEW t \in Threads, SpawnFailsService(t) PROVE ListHoldsUnlessRaced'
  <2>1. /\ Return(t, "spawn") /\ UNCHANGED <<head, raced, next, kind>>
        /\ kind[req[t]] \in AboutServices /\ allocated' = allocated \ {req[t]}
    BY <1>10 DEF SpawnFailsService, shared
  <2>2. Pushed' = Pushed
    <3>1. req[t] \notin Pushed /\ req[t] \notin Pushed'
      BY <2>1, KindsDisjoint DEF Pushed
    <3>2. ASSUME NEW q, q # req[t] PROVE q \in Pushed' <=> q \in Pushed
      BY <1>8, <2>1, <3>2 DEF Pushed
    <3> QED
      BY <3>1, <3>2
  <2> QED
    BY <2>1, <2>2, ListKept
<1>11. ASSUME NEW t \in Threads, NEW h \in Issued, CancelAsyncRequest(t, h)
       PROVE  ListHoldsUnlessRaced'
  <2>1. CASE raced
    BY <1>11, <2>1 DEF CancelAsyncRequest, ListHoldsUnlessRaced
  <2>2. CASE ~raced
    <3>1. h \notin Reachable /\ ~Cyclic
      BY <2>2, NothingToCancel DEF ListHoldsUnlessRaced
    <3>2. UNCHANGED <<pc, head, next, raced, allocated, kind, req>>
      BY <1>11, <3>1 DEF CancelAsyncRequest
    <3> QED
      BY <3>2, PushedSame, ListKept
  <2> QED
    BY <2>1, <2>2
<1>12. ASSUME NEW r \in Requests, LookupStep(r) PROVE ListHoldsUnlessRaced'
  <2>1. UNCHANGED <<pc, head, next, raced, allocated, kind, req>>
    BY <1>12 DEF LookupStep, LookupStart, LookupAnswer, LookupNotFound, LookupCopy, shared, members,
                 locals
  <2> QED
    BY <2>1, PushedSame, ListKept
<1> QED
  BY <1>1, <1>2, <1>3, <1>5, <1>6, <1>7, <1>9, <1>10, <1>11, <1>12, ListPush, ListUndo
     DEF Next, CallStep

(* Nobody else moves the head, or the link to it, of a thread that has the *)
(* mutex.                                                                  *)
LEMMA HeadStep == TypeOK /\ RequestOwned /\ HeadLinked /\ [Next]_vars => HeadLinked'
<1> SUFFICES ASSUME TypeOK, RequestOwned, HeadLinked, [Next]_vars,
                    NEW u \in Threads, pc'[u] = "insert_head"
             PROVE  next'[req'[u]] = head'
  BY DEF HeadLinked
<1>1. CASE UNCHANGED vars
  BY <1>1 DEF vars, shared, members, locals, HeadLinked
<1>2. ASSUME NEW t \in Threads, NEW from, NEW to, Goto(t, from, to), to # "insert_head"
      PROVE  u # t /\ pc[u] = "insert_head" /\ next[req[u]] = head /\ req[u] \in allocated
             /\ mutex = u
  BY <1>2, Owner, Alone DEF Goto, HeadLinked, CallPCs, LockedPCs, TypeOK
<1>3. ASSUME NEW t \in Threads, NEW r \in Requests, NEW k, Allocate(t, r, k)
      PROVE  UNCHANGED head /\ r \notin allocated /\ (u # t => req'[u] = req[u])
  BY <1>3 DEF Allocate, shared, TypeOK
<1>4. ASSUME NEW t \in Threads, NEW k, AsyncGetHost(t, k) PROVE next'[req'[u]] = head'
  BY <1>2, <1>3, <1>4 DEF AsyncGetHost
<1>5. ASSUME NEW t \in Threads, NEW k, AsyncGetService(t, k) PROVE next'[req'[u]] = head'
  <2>1. PICK r \in Requests : Allocate(t, r, k) /\ next' = [next EXCEPT ![r] = NULL]
    BY <1>5 DEF AsyncGetService
  <2>2. u # t /\ next[req[u]] = head /\ req[u] \in allocated
    BY <1>2, <1>5 DEF AsyncGetService
  <2>3. UNCHANGED head /\ r \notin allocated /\ req'[u] = req[u]
    BY <1>3, <2>1, <2>2
  <2> QED
    BY <2>1, <2>2, <2>3 DEF TypeOK
<1>6. ASSUME NEW t \in Threads, InsertLink(t) PROVE next'[req'[u]] = head'
  <2>1. u = t
    BY <1>6, Alone DEF InsertLink, Goto, LockedPCs, TypeOK
  <2>2. req[t] \in Requests
    BY <1>6, Owner DEF InsertLink, Goto, CallPCs
  <2> QED
    BY <1>6, <2>1, <2>2 DEF InsertLink, TypeOK
<1>7. ASSUME NEW t \in Threads, InsertLock(t) \/ SpawnFailsHost(t) PROVE next'[req'[u]] = head'
  <2>1. UNCHANGED <<head, next, req>>
    BY <1>7 DEF InsertLock, SpawnFailsHost, members
  <2> QED
    BY <1>2, <1>7, <2>1 DEF InsertLock, SpawnFailsHost
<1>8. ASSUME NEW t \in Threads, InsertHead(t) \/ Undo(t) PROVE next'[req'[u]] = head'
  <2>1. PICK from \in LockedPCs, to \in {"spawn", "idle"} : Goto(t, from, to)
    BY <1>8 DEF InsertHead, Undo, Return, LockedPCs
  <2>2. u # t /\ mutex = u
    BY <1>2, <2>1
  <2>3. mutex = t
    BY <2>1, Alone DEF Goto
  <2> QED
    BY <2>2, <2>3
<1>9. ASSUME NEW t \in Threads, Spawn(t) \/ SpawnFailsService(t) PROVE next'[req'[u]] = head'
  <2>1. Goto(t, "spawn", "idle") /\ UNCHANGED <<head, next>> /\ req' = [req EXCEPT ![t] = NULL]
    BY <1>9 DEF Spawn, SpawnFailsService, Return, shared, members
  <2> QED
    BY <1>2, <2>1 DEF TypeOK
<1>10. ASSUME NEW t \in Threads, NEW h, CancelAsyncRequest(t, h) PROVE next'[req'[u]] = head'
  <2>1. mutex = NULL
    BY <1>10 DEF CancelAsyncRequest
  <2>2. u # t => pc'[u] = pc[u]
    BY <1>10 DEF CancelAsyncRequest, Goto, TypeOK
  <2>3. pc'[t] # "insert_head"
    BY <1>10 DEF CancelAsyncRequest, Goto, TypeOK
  <2> QED
    BY <2>1, <2>2, <2>3, Quiet DEF LockedPCs
<1>11. ASSUME NEW r \in Requests, LookupStep(r) PROVE next'[req'[u]] = head'
  BY <1>11
     DEF LookupStep, LookupStart, LookupAnswer, LookupNotFound, LookupCopy, shared, members, locals,
         HeadLinked
<1> QED
  BY <1>1, <1>4, <1>5, <1>6, <1>7, <1>8, <1>9, <1>10, <1>11 DEF Next, CallStep

(***************************************************************************)
(* The theorems                                                            *)
(***************************************************************************)
(* Before the first call no request exists and the list is empty.          *)
LEMMA InvInit == Init => Inv
<1> SUFFICES ASSUME Init PROVE Inv
  OBVIOUS
<1>1. TypeOK
  BY TypeInit
<1>2. RequestOwned /\ LaunchedAllocated /\ NumbersCounted /\ HeadLinked /\ HandlesDistinct
  BY DEF Init, RequestOwned, LaunchedAllocated, Launched, NumbersCounted, HeadLinked, HandlesDistinct
<1>3. NumbersLeft
  <2>1. Counting = {}
    BY DEF Init, Counting
  <2> QED
    BY <2>1, FS_EmptySet, MaxHandleAssumption DEF Init, NumbersLeft
<1>4. ListHoldsUnlessRaced
  <2>1. Reachable = {}
    BY FromNull DEF Init, Reachable
  <2>2. Pushed = {}
    BY DEF Init, Pushed
  <2> QED
    BY <2>1, <2>2 DEF Cyclic, ListHoldsUnlessRaced, ListHoldsPushed
<1> QED
  BY <1>1, <1>2, <1>3, <1>4 DEF Inv

(* Every step of a thread or of a lookup preserves the invariant.          *)
LEMMA InvStep == Inv /\ [Next]_vars => Inv'
<1> SUFFICES ASSUME Inv, [Next]_vars PROVE Inv'
  OBVIOUS
<1>1. TypeOK'
  BY TypeStep DEF Inv
<1>2. RequestOwned' /\ LaunchedAllocated'
  BY OwnedStep DEF Inv
<1>3. NumbersCounted' /\ NumbersLeft' /\ HandlesDistinct'
  BY NumbersStep DEF Inv, Numbers
<1>4. HeadLinked'
  BY HeadStep DEF Inv
<1>5. ListHoldsUnlessRaced'
  BY <1>1, ListStep DEF Inv
<1> QED
  BY <1>1, <1>2, <1>3, <1>4, <1>5 DEF Inv

(* The invariant holds however the calls, the failures of pthread_create,  *)
(* the cancellations and the lookups interleave.                           *)
THEOREM Invariance == Spec => []Inv
<1> QED
  BY InvInit, InvStep, PTL DEF Spec

(* The variables keep their types, the mutex its owner, and the counter    *)
(* its bound.                                                              *)
THEOREM TypeCorrect == Spec => []TypeOK
<1>1. Inv => TypeOK
  BY DEF Inv
<1> QED
  BY <1>1, Invariance, PTL

(* No two requests get the same number: it is taken and counted under the  *)
(* mutex.                                                                  *)
THEOREM NumbersDistinct == Spec => []HandlesDistinct
<1>1. Inv => HandlesDistinct
  BY DEF Inv
<1> QED
  BY <1>1, Invariance, PTL

(* No lookup thread runs on a request that has been freed: a call frees    *)
(* only the request whose thread it could not start.                       *)
THEOREM LookupsHaveRequests == Spec => []RunningIsAllocated
<1>1. Inv => RunningIsAllocated
  BY DEF Inv, LaunchedAllocated, Launched, RunningIsAllocated
<1> QED
  BY <1>1, Invariance, PTL

(* As long as no failing call has found another's request at the head, the *)
(* list holds the requests pushed and alive, each once, and nothing else.  *)
THEOREM ListRight == Spec => []ListHoldsUnlessRaced
<1>1. Inv => ListHoldsUnlessRaced
  BY DEF Inv
<1> QED
  BY <1>1, Invariance, PTL

(* As long as that is so WSACancelAsyncRequest finds none of the handles   *)
(* that the calls have returned: the list is searched for an address, the  *)
(* handle of a request about a host is a number, and the others are not on *)
(* the list.                                                               *)
THEOREM CancelFindsNothing == Spec => [](~raced => Issued \cap Reachable = {})
<1>1. Inv => (~raced => Issued \cap Reachable = {})
  BY NothingToCancel DEF Inv
<1> QED
  BY <1>1, Invariance, PTL
=============================================================================
