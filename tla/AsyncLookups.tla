----------------------------- MODULE AsyncLookups -----------------------------
(***************************************************************************)
(* The asynchronous lookups: of hosts (WSAAsyncGetHostByName and           *)
(* WSAAsyncGetHostByAddr, wsa_events.c) and of services and protocols      *)
(* (WSAAsyncGetServByName and the like, wsock32.c), with                   *)
(* WSACancelAsyncRequest.  A call allocates a request and starts a         *)
(* detached thread that looks the question up and copies the answer to the *)
(* caller's buffer.  Requests about hosts are numbered and pushed on the   *)
(* list g_async_requests, which g_async_mutex guards; the handle of any    *)
(* other request is its address.  Error codes are left out.                *)
(***************************************************************************)
EXTENDS Naturals, FiniteSets

(* As in WSAEvents, MutX is X with a bug in it, for README.md's table.     *)

CONSTANTS Threads,   \* threads of the application
          Requests,  \* addresses malloc can return for a request
          Kinds,     \* the questions the application asks
          MaxHandle, \* bound on the number of handles counted out
          NULL

AboutHosts == {"hostbyname", "hostbyaddr"}
AboutServices == {"servbyname", "servbyport", "protobyname", "protobynumber"}

ASSUME NullAssumption == NULL \notin Threads \cup Requests
ASSUME KindsAssumption == Kinds \subseteq AboutHosts \cup AboutServices
ASSUME MaxHandleAssumption == MaxHandle \in Nat
(* malloc returns no address as small as the numbers counted out.          *)
ASSUME RequestsAssumption == Requests \cap (0..MaxHandle) = {}
(* A process has finitely many threads.                                    *)
ASSUME ThreadsAssumption == IsFiniteSet(Threads)

VARIABLES head,      \* g_async_requests
          counter,   \* g_async_handle_counter
          mutex,     \* g_async_mutex: the thread that holds it, or NULL
          allocated, \* the allocated requests
          next,      \* next[r]: the member of *r
          kind,      \* kind[r]: which function r asks
          cancelled, \* cancelled[r]: its cancelled member
          handle,    \* handle[r]: the number given out for r, 0 before
          lookup,    \* lookup[r]: where r's thread is
          static,    \* static[k]: whose answer libc's buffer for k holds
          pc,        \* pc[t]: where thread t is
          req,       \* req[t]: its local of that name
          raced      \* a failed call has found another's request at the head

shared == <<head, counter, mutex>>
members == <<allocated, next, kind, cancelled, handle>>
locals == <<pc, req>>
vars == <<shared, members, lookup, static, locals, raced>>

Init ==
  /\ head = NULL
  /\ counter = 1
  /\ mutex = NULL
  /\ allocated = {}
  /\ next = [r \in Requests |-> NULL]
  /\ kind = [r \in Requests |-> NULL]
  /\ cancelled = [r \in Requests |-> FALSE]
  /\ handle = [r \in Requests |-> 0]
  /\ lookup = [r \in Requests |-> "none"]
  /\ static = [k \in Kinds |-> NULL]
  /\ pc = [t \in Threads |-> "idle"]
  /\ req = [t \in Threads |-> NULL]
  /\ raced = FALSE

Goto(t, from, to) == pc[t] = from /\ pc' = [pc EXCEPT ![t] = to]
Lock(t) == mutex = NULL /\ mutex' = t
Unlock == mutex' = NULL

Return(t, from) ==
  /\ Goto(t, from, "idle")
  /\ req' = [req EXCEPT ![t] = NULL]

(***************************************************************************)
(* The six request functions.  When malloc fails nothing has happened yet. *)
(***************************************************************************)
Allocate(t, r, k) ==
  /\ r \notin allocated
  /\ allocated' = allocated \cup {r}
  /\ kind' = [kind EXCEPT ![r] = k]
  /\ cancelled' = [cancelled EXCEPT ![r] = FALSE]
  /\ handle' = [handle EXCEPT ![r] = 0]
  /\ lookup' = [lookup EXCEPT ![r] = "none"]
  /\ req' = [req EXCEPT ![t] = r]
  /\ UNCHANGED <<shared, static, raced>>

AsyncGetHost(t, k) ==
  /\ counter + Cardinality({u \in Threads : pc[u] \in {"insert_lock", "insert_link"}}) <= MaxHandle
  /\ Goto(t, "idle", "insert_lock")
  /\ \E r \in Requests : Allocate(t, r, k)
  /\ UNCHANGED next

(* The request is cleared with memset(), where a dangling pointer of the   *)
(* list would look for `next' too.                                         *)
AsyncGetService(t, k) ==
  /\ Goto(t, "idle", "spawn")
  /\ \E r \in Requests : Allocate(t, r, k) /\ next' = [next EXCEPT ![r] = NULL]

MutInsertLock(t) ==   \* without the lock
  /\ Goto(t, "insert_lock", "insert_link")
  /\ handle' = [handle EXCEPT ![req[t]] = counter]
  /\ UNCHANGED <<shared, allocated, next, kind, cancelled, lookup, static, req, raced>>

InsertLock(t) ==
  /\ Goto(t, "insert_lock", "insert_link")
  /\ Lock(t)
  /\ handle' = [handle EXCEPT ![req[t]] = counter]
  /\ UNCHANGED <<head, counter, allocated, next, kind, cancelled, lookup, static, req, raced>>

InsertLink(t) ==
  /\ Goto(t, "insert_link", "insert_head")
  /\ counter' = handle[req[t]] + 1
  /\ next' = [next EXCEPT ![req[t]] = head]
  /\ UNCHANGED <<head, mutex, allocated, kind, cancelled, handle, lookup, static, req, raced>>

MutInsertHead(t) ==   \* without the unlock
  /\ Goto(t, "insert_head", "spawn")
  /\ head' = req[t]
  /\ UNCHANGED <<counter, mutex, members, lookup, static, req, raced>>

InsertHead(t) ==
  /\ Goto(t, "insert_head", "spawn")
  /\ head' = req[t]
  /\ Unlock
  /\ UNCHANGED <<counter, members, lookup, static, req, raced>>

Spawn(t) ==
  /\ Return(t, "spawn")
  /\ lookup' = [lookup EXCEPT ![req[t]] = "start"]
  /\ UNCHANGED <<shared, members, static, raced>>

(* pthread_create fails.  A request about a service is freed.  For one     *)
(* about a host the list is locked again, and its head is set to what      *)
(* followed the request when the request was pushed.                       *)
SpawnFailsService(t) ==
  /\ Return(t, "spawn")
  /\ kind[req[t]] \in AboutServices
  /\ allocated' = allocated \ {req[t]}
  /\ UNCHANGED <<shared, next, kind, cancelled, handle, lookup, static, raced>>

SpawnFailsHost(t) ==
  /\ Goto(t, "spawn", "undo")
  /\ kind[req[t]] \in AboutHosts
  /\ Lock(t)
  /\ UNCHANGED <<head, counter, members, lookup, static, req, raced>>

MutUndoFreesHead(t) ==   \* frees the request it finds at the head
  /\ Return(t, "undo")
  /\ head' = next[req[t]]
  /\ allocated' = allocated \ {head}
  /\ Unlock
  /\ raced' = (raced \/ head # req[t])
  /\ UNCHANGED <<counter, next, kind, cancelled, handle, lookup, static>>

MutUndoKeepsLink(t) ==   \* frees the request and leaves it on the list
  /\ Return(t, "undo")
  /\ allocated' = allocated \ {req[t]}
  /\ Unlock
  /\ raced' = (raced \/ head # req[t])
  /\ UNCHANGED <<head, counter, next, kind, cancelled, handle, lookup, static>>

Undo(t) ==
  /\ Return(t, "undo")
  /\ head' = next[req[t]]
  /\ allocated' = allocated \ {req[t]}
  /\ Unlock
  /\ raced' = (raced \/ head # req[t])
  /\ UNCHANGED <<counter, next, kind, cancelled, handle, lookup, static>>

(***************************************************************************)
(* WSACancelAsyncRequest(h) walks the list for a request whose address is  *)
(* h, takes it off, and returns 0 whether it found one or not.             *)
(***************************************************************************)
Launched == {r \in Requests : lookup[r] # "none"}

Issued == {IF kind[r] \in AboutHosts THEN handle[r] ELSE r : r \in Launched}

(* The nodes that a walk along the links visits from node r: what every    *)
(* set holds that has r and, with a node, the node it links to.            *)
From(link, r) ==
  {q \in Requests :
     \A S \in SUBSET Requests : ({r} \cup {link[p] : p \in S}) \ {NULL} \subseteq S => q \in S}

Reachable == From(next, head)
Cyclic == \E r \in Reachable : r \in From(next, next[r])

Unlink(r) ==
  IF head = r THEN head' = next[r] /\ UNCHANGED next
  ELSE /\ next' = [q \in Requests |-> IF q \in Reachable /\ next[q] = r THEN next[r] ELSE next[q]]
       /\ UNCHANGED head

(* The list is searched under the lock.  A list that loops back on itself  *)
(* is searched for ever.                                                   *)
CancelAsyncRequest(t, h) ==
  /\ pc[t] = "idle"
  /\ mutex = NULL
  /\ IF h \in Reachable
     THEN cancelled' = [cancelled EXCEPT ![h] = TRUE] /\ Unlink(h) /\ UNCHANGED <<mutex, pc>>
     ELSE /\ UNCHANGED <<cancelled, head, next>>
          /\ IF Cyclic THEN Goto(t, "idle", "searching") /\ Lock(t)
                       ELSE UNCHANGED <<mutex, pc>>
  /\ UNCHANGED <<counter, allocated, kind, handle, lookup, static, req, raced>>

(***************************************************************************)
(* The lookup threads, async_gethostbyname_thread and the others.          *)
(***************************************************************************)
LookupGoto(r, from, to) == lookup[r] = from /\ lookup' = [lookup EXCEPT ![r] = to]

LookupStart(r) ==
  /\ LookupGoto(r, "start",
                IF kind[r] \in AboutHosts /\ cancelled[r] THEN "done" ELSE "resolve")
  /\ UNCHANGED <<shared, members, static, locals, raced>>

(* libc answers in a buffer of its own, one for each of its functions. *)
LookupAnswer(r) ==
  /\ LookupGoto(r, "resolve", "copy")
  /\ static' = [static EXCEPT ![kind[r]] = r]
  /\ UNCHANGED <<shared, members, locals, raced>>

LookupNotFound(r) ==
  /\ LookupGoto(r, "resolve", "done")
  /\ UNCHANGED <<shared, members, static, locals, raced>>

(* memcpy() of the struct: its pointers still lead to libc's buffer, so    *)
(* that the caller reads there whatever static[kind[r]] holds.             *)
LookupCopy(r) ==
  /\ LookupGoto(r, "copy",
                IF kind[r] \in AboutHosts /\ cancelled[r] THEN "done" ELSE "delivered")
  /\ UNCHANGED <<shared, members, static, locals, raced>>

-----------------------------------------------------------------------------
LookupStep(r) == LookupStart(r) \/ LookupAnswer(r) \/ LookupNotFound(r) \/ LookupCopy(r)

CallStep(t) ==
  \/ InsertLock(t) \/ InsertLink(t) \/ InsertHead(t)
  \/ Spawn(t) \/ SpawnFailsService(t) \/ SpawnFailsHost(t) \/ Undo(t)

Next ==
  \/ \E t \in Threads :
       \/ \E k \in Kinds \cap AboutHosts : AsyncGetHost(t, k)
       \/ \E k \in Kinds \cap AboutServices : AsyncGetService(t, k)
       \/ CallStep(t)
       \/ \E h \in Issued : CancelAsyncRequest(t, h)
  \/ \E r \in Requests : LookupStep(r)

Spec == Init /\ [][Next]_vars

-----------------------------------------------------------------------------
(***************************************************************************)
(* Properties                                                              *)
(***************************************************************************)
LockedPCs == {"insert_link", "insert_head", "undo", "searching"}
PCs == LockedPCs \cup {"idle", "insert_lock", "spawn"}

(* The type invariant; the mutex belongs to the thread that is between a   *)
(* lock and an unlock.                                                     *)
TypeOK ==
  /\ head \in Requests \cup {NULL}
  /\ counter \in 1..(MaxHandle + 1)
  /\ mutex \in Threads \cup {NULL}
  /\ allocated \in SUBSET Requests
  /\ next \in [Requests -> Requests \cup {NULL}]
  /\ kind \in [Requests -> Kinds \cup {NULL}]
  /\ cancelled \in [Requests -> BOOLEAN]
  /\ handle \in [Requests -> 0..MaxHandle]
  /\ lookup \in [Requests -> {"none", "start", "resolve", "copy", "delivered", "done"}]
  /\ static \in [Kinds -> Requests \cup {NULL}]
  /\ pc \in [Threads -> PCs]
  /\ req \in [Threads -> Requests \cup {NULL}]
  /\ raced \in BOOLEAN
  /\ \A t \in Threads : pc[t] \in LockedPCs <=> mutex = t

(* No two requests, whichever threads made them, share a number.           *)
HandlesDistinct ==
  \A q, r \in allocated : q # r /\ handle[q] # 0 => handle[q] # handle[r]

(* A lookup thread never runs on a request that has been freed.            *)
RunningIsAllocated ==
  \A r \in Requests : lookup[r] \in {"start", "resolve", "copy"} => r \in allocated

(* The requests that are on the list, or are meant to be.                  *)
Pushed ==
  {r \in allocated : /\ kind[r] \in AboutHosts
                     /\ \A t \in Threads : req[t] = r => pc[t] \in {"spawn", "undo"}}

(* The list holds the live requests that were pushed, each once, and       *)
(* nothing else.  (It need not once two calls fail to start their thread.) *)
ListHoldsPushed == Reachable = Pushed

(* That is the only way: however many calls push, cancel and fail, the     *)
(* list is right as long as each failing call finds its own request at the *)
(* head when it comes back to take it off.                                 *)
ListHoldsUnlessRaced == ~raced => ListHoldsPushed /\ ~Cyclic

(* What the caller finds through its buffer is the answer to its request.  *)
(* (It is the answer to the latest lookup of that kind.)                   *)
BufferHoldsAnswer ==
  \A r \in Requests : lookup[r] = "delivered" => static[kind[r]] = r
=============================================================================
