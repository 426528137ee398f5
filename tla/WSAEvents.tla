------------------------------ MODULE WSAEvents ------------------------------
(***************************************************************************)
(* WSACreateEvent, WSACloseEvent, WSASetEvent, WSAResetEvent and           *)
(* WSAWaitForMultipleEvents (wsa_events.c) as threads run them: one action *)
(* per access of state that another thread can see.  An event is a heap    *)
(* block that holds an eventfd, a flag that caches whether the eventfd is  *)
(* readable, and a mutex that the setters and resetters take and the       *)
(* waiters, which only select() on the descriptor, do not.                 *)
(***************************************************************************)
EXTENDS Integers, Sequences

(* An operator whose name starts with Mut is the next definition with a    *)
(* plausible bug in it.  The specification does not use it: putting it in  *)
(* the place of the next definition must break the property that README.md *)
(* pairs it with.                                                          *)

CONSTANTS Threads,    \* threads of the application
          Events,     \* addresses malloc can return for a WSAEventStruct
          Fds,        \* descriptor numbers below FD_SETSIZE
          MaxWait,    \* WSA_MAXIMUM_WAIT_EVENTS
          EventfdMax, \* the largest value of an eventfd counter
          NULL

ASSUME NullAssumption == NULL \notin Threads \cup Events \cup Fds
ASSUME MaxWaitAssumption == MaxWait \in Nat \ {0}
ASSUME EventfdMaxAssumption == EventfdMax \in Nat \ {0}

VARIABLES counter,   \* counter[fd]: the eventfd counter behind fd, or Closed
          eventfd,   \* eventfd[e]: the member of *e, NULL when e is not allocated
          signaled,  \* signaled[e]: the member of *e
          mutex,     \* mutex[e]: the thread that holds the member of *e, or NULL
          pc,        \* pc[t]: where thread t is
          efd,       \* efd[t]: the local of WSACreateEvent
          hEvent,    \* hEvent[t]: the argument of a close, set or reset
          lphEvents, \* lphEvents[t]: the array given to a wait
          infinite,  \* infinite[t]: that wait has dwTimeout = WSA_INFINITE
          unpolled,  \* unpolled[t]: descriptors its select() has yet to look at
          readfds,   \* readfds[t]: descriptors its select() found readable
          result,    \* result[t]: what t's last call returned
          lastError  \* lastError[t]: g_wsa_last_error of thread t

memory == <<counter, eventfd, signaled, mutex>>
locals == <<efd, hEvent, lphEvents, infinite, unpolled, readfds>>
vars == <<memory, pc, locals, result, lastError>>

Closed == -1

Live == {e \in Events : eventfd[e] # NULL}
Members(hs) == {hs[i] : i \in DOMAIN hs}
FdsOf(S) == {eventfd[e] : e \in S}
Uses(t, e) == hEvent[t] = e \/ e \in Members(lphEvents[t])

(* Handles an application may pass: not those it has begun to close. *)
Usable == {e \in Live : \A u \in Threads : ~(pc[u] = "close_free" /\ hEvent[u] = e)}

ArraysOf(S, n) == UNION {[1..k -> S] : k \in 0..n}
Arrays == ArraysOf(Events \cup {NULL}, MaxWait + 1)

Init ==
  /\ counter = [fd \in Fds |-> Closed]
  /\ eventfd = [e \in Events |-> NULL]
  /\ signaled = [e \in Events |-> FALSE]
  /\ mutex = [e \in Events |-> NULL]
  /\ pc = [t \in Threads |-> "idle"]
  /\ efd = [t \in Threads |-> NULL]
  /\ hEvent = [t \in Threads |-> NULL]
  /\ lphEvents = [t \in Threads |-> <<>>]
  /\ infinite = [t \in Threads |-> FALSE]
  /\ unpolled = [t \in Threads |-> {}]
  /\ readfds = [t \in Threads |-> {}]
  /\ result = [t \in Threads |-> "none"]
  /\ lastError = [t \in Threads |-> "0"]

(***************************************************************************)
(* Moving within a call, and into and out of one.                          *)
(***************************************************************************)
Goto(t, from, to) == pc[t] = from /\ pc' = [pc EXCEPT ![t] = to]

Call(t, to) ==
  /\ Goto(t, "idle", to)
  /\ result' = [result EXCEPT ![t] = "none"]
  /\ UNCHANGED lastError

Return(t, r, err) ==
  /\ pc' = [pc EXCEPT ![t] = "idle"]
  /\ efd' = [efd EXCEPT ![t] = NULL]
  /\ hEvent' = [hEvent EXCEPT ![t] = NULL]
  /\ lphEvents' = [lphEvents EXCEPT ![t] = <<>>]
  /\ infinite' = [infinite EXCEPT ![t] = FALSE]
  /\ unpolled' = [unpolled EXCEPT ![t] = {}]
  /\ readfds' = [readfds EXCEPT ![t] = {}]
  /\ result' = [result EXCEPT ![t] = r]
  /\ lastError' = [lastError EXCEPT ![t] = err]

InCall == UNCHANGED <<locals, result, lastError>>

Lock(t, e) == mutex[e] = NULL /\ mutex' = [mutex EXCEPT ![e] = t]
Unlock(t, e) == mutex' = [mutex EXCEPT ![e] = NULL]

(* A call refused because of its arguments. *)
Refuse(t, r, err) ==
  /\ pc[t] = "idle"
  /\ Return(t, r, err)
  /\ UNCHANGED memory

(***************************************************************************)
(* WSACreateEvent                                                          *)
(***************************************************************************)
CreateEventfd(t) ==
  /\ Call(t, "create_malloc")
  /\ \E fd \in Fds :
       /\ counter[fd] = Closed
       /\ counter' = [counter EXCEPT ![fd] = 0]
       /\ efd' = [efd EXCEPT ![t] = fd]
  /\ UNCHANGED <<eventfd, signaled, mutex, hEvent, lphEvents, infinite, unpolled, readfds>>

CreateEventfdFails(t) == Refuse(t, "NULL", "WSA_NOT_ENOUGH_MEMORY")

CreateMalloc(t) ==
  /\ pc[t] = "create_malloc"
  /\ \E e \in Events \ Live :
       /\ eventfd' = [eventfd EXCEPT ![e] = efd[t]]
       /\ signaled' = [signaled EXCEPT ![e] = FALSE]
       /\ mutex' = [mutex EXCEPT ![e] = NULL]
       /\ Return(t, e, "0")
  /\ UNCHANGED counter

MutCreateMallocFails(t) ==   \* without the close()
  /\ pc[t] = "create_malloc"
  /\ Return(t, "NULL", "WSA_NOT_ENOUGH_MEMORY")
  /\ UNCHANGED memory

CreateMallocFails(t) ==
  /\ pc[t] = "create_malloc"
  /\ counter' = [counter EXCEPT ![efd[t]] = Closed]
  /\ Return(t, "NULL", "WSA_NOT_ENOUGH_MEMORY")
  /\ UNCHANGED <<eventfd, signaled, mutex>>

(***************************************************************************)
(* WSACloseEvent.  It neither locks nor waits, so that nobody else uses    *)
(* the event is the application's obligation: it is the guard here.        *)
(***************************************************************************)
CloseEventfd(t) ==
  /\ \E e \in Usable :
       /\ \A u \in Threads : ~Uses(u, e)
       /\ counter' = [counter EXCEPT ![eventfd[e]] = Closed]
       /\ hEvent' = [hEvent EXCEPT ![t] = e]
  /\ Call(t, "close_free")
  /\ UNCHANGED <<eventfd, signaled, mutex, efd, lphEvents, infinite, unpolled, readfds>>

(* The members of a freed block are indeterminate; nobody reads them. *)
CloseFree(t) ==
  /\ pc[t] = "close_free"
  /\ eventfd' = [eventfd EXCEPT ![hEvent[t]] = NULL]
  /\ signaled' = [signaled EXCEPT ![hEvent[t]] = FALSE]
  /\ mutex' = [mutex EXCEPT ![hEvent[t]] = NULL]
  /\ Return(t, "TRUE", "0")
  /\ UNCHANGED counter

CloseSetOrResetNull(t) == Refuse(t, "FALSE", "WSA_INVALID_HANDLE")

(***************************************************************************)
(* WSASetEvent and WSAResetEvent                                           *)
(***************************************************************************)
CallOnEvent(t, to) ==
  /\ \E e \in Usable : hEvent' = [hEvent EXCEPT ![t] = e]
  /\ Call(t, to)
  /\ UNCHANGED <<memory, efd, lphEvents, infinite, unpolled, readfds>>

SetEvent(t) == CallOnEvent(t, "set_lock")

MutSetLock(t) == Goto(t, "set_lock", "set_write") /\ InCall /\ UNCHANGED memory

SetLock(t) ==
  /\ Goto(t, "set_lock", "set_write")
  /\ Lock(t, hEvent[t])
  /\ InCall
  /\ UNCHANGED <<counter, eventfd, signaled>>

(* write() adds 1 to the counter; it fails on a closed descriptor and at   *)
(* the counter's limit (the descriptor is non-blocking).                   *)
WriteSucceeds(fd) == counter[fd] \in 0..(EventfdMax - 1)

SetWrite(t) ==
  LET e == hEvent[t]
      fd == eventfd[e]
  IN /\ pc[t] = "set_write"
     /\ \/ /\ signaled[e]
           /\ Goto(t, "set_write", "set_unlock")
           /\ InCall
           /\ UNCHANGED memory
        \/ /\ ~signaled[e]
           /\ IF WriteSucceeds(fd)
              THEN /\ counter' = [counter EXCEPT ![fd] = @ + 1]
                   /\ Goto(t, "set_write", "set_flag")
                   /\ InCall
                   /\ UNCHANGED mutex
              ELSE /\ Unlock(t, e)
                   /\ Return(t, "FALSE", "WSAENETDOWN")
                   /\ UNCHANGED counter
           /\ UNCHANGED <<eventfd, signaled>>

SetFlag(t) ==
  /\ Goto(t, "set_flag", "set_unlock")
  /\ signaled' = [signaled EXCEPT ![hEvent[t]] = TRUE]
  /\ InCall
  /\ UNCHANGED <<counter, eventfd, mutex>>

SetUnlock(t) ==
  /\ pc[t] = "set_unlock"
  /\ Unlock(t, hEvent[t])
  /\ Return(t, "TRUE", "0")
  /\ UNCHANGED <<counter, eventfd, signaled>>

ResetEvent(t) == CallOnEvent(t, "reset_lock")

ResetLock(t) ==
  /\ Goto(t, "reset_lock", "reset_drain")
  /\ Lock(t, hEvent[t])
  /\ InCall
  /\ UNCHANGED <<counter, eventfd, signaled>>

MutResetDrain(t) ==   \* the loop goes on when read() fails
  /\ pc[t] = "reset_drain"
  /\ IF signaled[hEvent[t]]
     THEN counter' = [counter EXCEPT ![eventfd[hEvent[t]]] = 0] /\ UNCHANGED pc
     ELSE Goto(t, "reset_drain", "reset_unlock") /\ UNCHANGED counter
  /\ InCall
  /\ UNCHANGED <<eventfd, signaled, mutex>>

(* read() until it fails leaves the counter at 0. *)
ResetDrain(t) ==
  LET e == hEvent[t]
  IN /\ pc[t] = "reset_drain"
     /\ IF signaled[e]
        THEN /\ counter' = [counter EXCEPT ![eventfd[e]] = 0]
             /\ Goto(t, "reset_drain", "reset_flag")
        ELSE /\ Goto(t, "reset_drain", "reset_unlock")
             /\ UNCHANGED counter
     /\ InCall
     /\ UNCHANGED <<eventfd, signaled, mutex>>

MutResetFlag(t) == Goto(t, "reset_flag", "reset_unlock") /\ InCall /\ UNCHANGED memory

ResetFlag(t) ==
  /\ Goto(t, "reset_flag", "reset_unlock")
  /\ signaled' = [signaled EXCEPT ![hEvent[t]] = FALSE]
  /\ InCall
  /\ UNCHANGED <<counter, eventfd, mutex>>

MutResetUnlock(t) == pc[t] = "reset_unlock" /\ Return(t, "TRUE", "0") /\ UNCHANGED memory

ResetUnlock(t) ==
  /\ pc[t] = "reset_unlock"
  /\ Unlock(t, hEvent[t])
  /\ Return(t, "TRUE", "0")
  /\ UNCHANGED <<counter, eventfd, signaled>>

(***************************************************************************)
(* WSAWaitForMultipleEvents.  fWaitAll and fAlertable are ignored.  The    *)
(* select() it rests on polls one descriptor at a time (here in any        *)
(* order), sleeps when it found none readable, and starts over when woken. *)
(***************************************************************************)
MutValidArray(hs) == hs # <<>> /\ NULL \notin Members(hs)   \* no upper limit

ValidArray(hs) == Len(hs) \in 1..MaxWait /\ NULL \notin Members(hs)

WaitBegin(t) ==
  /\ \E hs \in Arrays :
       /\ ValidArray(hs)
       /\ Members(hs) \subseteq Usable
       /\ lphEvents' = [lphEvents EXCEPT ![t] = hs]
       /\ unpolled' = [unpolled EXCEPT ![t] = FdsOf(Members(hs))]
  /\ \E forever \in BOOLEAN : infinite' = [infinite EXCEPT ![t] = forever]
  /\ Call(t, "select")
  /\ UNCHANGED <<memory, efd, hEvent, readfds>>

WaitRefused(t) ==
  \E hs \in Arrays :
    /\ ~ValidArray(hs)
    /\ Members(hs) \subseteq Usable \cup {NULL}
    /\ Refuse(t, "WAIT_FAILED", IF Len(hs) \in 1..MaxWait THEN "WSA_INVALID_HANDLE"
                                                        ELSE "WSA_INVALID_PARAMETER")

SelectPoll(t) ==
  /\ pc[t] = "select"
  /\ \E fd \in unpolled[t] :
       /\ unpolled' = [unpolled EXCEPT ![t] = @ \ {fd}]
       /\ readfds' = IF counter[fd] > 0
                     THEN [readfds EXCEPT ![t] = @ \cup {fd}]
                     ELSE readfds
  /\ UNCHANGED <<memory, pc, efd, hEvent, lphEvents, infinite, result, lastError>>

ScannedWithNone(t) == pc[t] = "select" /\ unpolled[t] = {} /\ readfds[t] = {}

SelectWake(t) ==
  /\ ScannedWithNone(t)
  /\ \E fd \in FdsOf(Members(lphEvents[t])) : counter[fd] > 0
  /\ unpolled' = [unpolled EXCEPT ![t] = FdsOf(Members(lphEvents[t]))]
  /\ UNCHANGED <<memory, pc, efd, hEvent, lphEvents, infinite, readfds, result, lastError>>

MutFirstReady(t, i) == eventfd[lphEvents[t][i]] \in readfds[t]   \* any, not the first

FirstReady(t, i) ==
  /\ eventfd[lphEvents[t][i]] \in readfds[t]
  /\ \A j \in 1..(i - 1) : eventfd[lphEvents[t][j]] \notin readfds[t]

(* The result WSA_WAIT_EVENT_0 + i stands here for the handle it indexes. *)
WaitReturn(t) ==
  /\ pc[t] = "select"
  /\ unpolled[t] = {}
  /\ \E i \in DOMAIN lphEvents[t] :
       FirstReady(t, i) /\ Return(t, lphEvents[t][i], "0")
  /\ UNCHANGED memory

WaitTimeout(t) ==
  /\ ScannedWithNone(t)
  /\ ~infinite[t]
  /\ Return(t, "WAIT_TIMEOUT", "0")
  /\ UNCHANGED memory

(* A signal handler ran while select() slept. *)
WaitInterrupted(t) ==
  /\ ScannedWithNone(t)
  /\ Return(t, "WAIT_FAILED", "WSAENETDOWN")
  /\ UNCHANGED memory

-----------------------------------------------------------------------------
(* What a thread inside a call does next, an interruption aside. *)
Step(t) ==
  \/ CreateMalloc(t) \/ CreateMallocFails(t)
  \/ CloseFree(t)
  \/ SetLock(t) \/ SetWrite(t) \/ SetFlag(t) \/ SetUnlock(t)
  \/ ResetLock(t) \/ ResetDrain(t) \/ ResetFlag(t) \/ ResetUnlock(t)
  \/ SelectPoll(t) \/ SelectWake(t) \/ WaitReturn(t) \/ WaitTimeout(t)

Begin(t) ==
  \/ CreateEventfd(t) \/ CreateEventfdFails(t)
  \/ CloseEventfd(t) \/ CloseSetOrResetNull(t)
  \/ SetEvent(t) \/ ResetEvent(t)
  \/ WaitBegin(t) \/ WaitRefused(t)

Next == \E t \in Threads : Begin(t) \/ Step(t) \/ WaitInterrupted(t)

Spec == Init /\ [][Next]_vars

(* The scheduler runs every thread that can move. *)
FairSpec == Spec /\ \A t \in Threads : WF_vars(Step(t))

-----------------------------------------------------------------------------
(***************************************************************************)
(* Properties                                                              *)
(***************************************************************************)
SettingPCs == {"set_lock", "set_write", "set_flag", "set_unlock"}
ResettingPCs == {"reset_lock", "reset_drain", "reset_flag", "reset_unlock"}
EventPCs == SettingPCs \cup ResettingPCs \cup {"close_free"}
HoldingPCs == (SettingPCs \cup ResettingPCs) \ {"set_lock", "reset_lock"}
PCs == EventPCs \cup {"idle", "create_malloc", "select"}

Results == Events \cup {"none", "NULL", "TRUE", "FALSE", "WAIT_FAILED", "WAIT_TIMEOUT"}
Errors == {"0", "WSA_NOT_ENOUGH_MEMORY", "WSA_INVALID_HANDLE", "WSA_INVALID_PARAMETER",
           "WSAENETDOWN"}

(* The type invariant.  A wait in progress has between one and             *)
(* WSA_MAXIMUM_WAIT_EVENTS handles, and an eventfd counter is in range.    *)
TypeOK ==
  /\ counter \in [Fds -> {Closed} \cup 0..EventfdMax]
  /\ eventfd \in [Events -> Fds \cup {NULL}]
  /\ signaled \in [Events -> BOOLEAN]
  /\ mutex \in [Events -> Threads \cup {NULL}]
  /\ pc \in [Threads -> PCs]
  /\ efd \in [Threads -> Fds \cup {NULL}]
  /\ hEvent \in [Threads -> Events \cup {NULL}]
  /\ lphEvents \in [Threads -> ArraysOf(Events, MaxWait)]
  /\ infinite \in [Threads -> BOOLEAN]
  /\ unpolled \in [Threads -> SUBSET Fds]
  /\ readfds \in [Threads -> SUBSET Fds]
  /\ result \in [Threads -> Results]
  /\ lastError \in [Threads -> Errors]

(* The flag that WSASetEvent and WSAResetEvent consult and the descriptor  *)
(* that WSAWaitForMultipleEvents selects on agree whenever nobody holds    *)
(* the event's mutex, and the counter never passes 1, so that the write()  *)
(* of WSASetEvent cannot fail.                                             *)
FlagMatchesCounter ==
  \A e \in Usable :
    /\ counter[eventfd[e]] \in {0, 1}
    /\ mutex[e] = NULL => (signaled[e] <=> counter[eventfd[e]] = 1)

Creators == {t \in Threads : pc[t] = "create_malloc"}

(* Every open descriptor belongs to exactly one event not yet closed or to *)
(* exactly one WSACreateEvent in progress: no failure path leaks one,      *)
(* nothing is closed twice, and no two events share one.                   *)
DescriptorsOwned ==
  /\ {fd \in Fds : counter[fd] # Closed} = FdsOf(Usable) \cup {efd[t] : t \in Creators}
  /\ \A e, f \in Usable : eventfd[e] = eventfd[f] => e = f
  /\ \A t, u \in Creators : efd[t] = efd[u] => t = u
  /\ \A t \in Creators : efd[t] \notin FdsOf(Usable)

(* The inductive strengthening of the two invariants above.  A thread has  *)
(* locals only inside the call they belong to; it uses only events that    *)
(* nobody is closing; it holds the mutex of the event it works on exactly  *)
(* between its lock and its unlock; and flag and counter disagree exactly  *)
(* while a thread is between the access of one and that of the other.      *)
LocalsMatchPC ==
  \A t \in Threads :
    /\ hEvent[t] # NULL <=> pc[t] \in EventPCs
    /\ efd[t] # NULL <=> pc[t] = "create_malloc"
    /\ pc[t] # "select" => lphEvents[t] = <<>>

UsedAreLive ==
  \A t \in Threads, e \in Events :
    Uses(t, e) => /\ e \in Live
                  /\ \A u \in Threads \ {t} : ~(pc[u] = "close_free" /\ hEvent[u] = e)

MutexHeld ==
  \A t \in Threads, e \in Events :
    mutex[e] = t <=> pc[t] \in HoldingPCs /\ hEvent[t] = e

Between(t, e) == hEvent[t] = e /\ pc[t] \in {"set_flag", "reset_flag"}

FlagOrMidway ==
  /\ \A e \in Usable :
       /\ counter[eventfd[e]] \in {0, 1}
       /\ signaled[e] <=> (counter[eventfd[e]] = 1 <=> ~ \E t \in Threads : Between(t, e))
       /\ \A t \in Threads : Between(t, e) => (signaled[e] <=> pc[t] = "reset_flag")
  /\ \A t \in Creators : counter[efd[t]] = 0

Inv == TypeOK /\ LocalsMatchPC /\ UsedAreLive /\ MutexHeld /\ FlagOrMidway /\ DescriptorsOwned

(* Whoever takes an event's mutex releases it: no return is missing its    *)
(* unlock, and no thread blocks or spins while it holds one.               *)
MutexReleased == \A e \in Events : []<>(mutex[e] = NULL)

(* A wait does not sleep forever while one of its events stays signaled:   *)
(* though it reads neither the flag nor the mutex, WSASetEvent wakes it.   *)
WaiterWoken ==
  \A t \in Threads, e \in Events :
    ~ <>[](e \in Members(lphEvents[t]) /\ signaled[e])

(***************************************************************************)
(* The events of the code implement those of ManualResetEvent: an event is *)
(* set when its descriptor is readable, the write() and the drain are the  *)
(* instants at which the calls take effect, and a wait has found set what  *)
(* its select() has, unset what it polled and did not find readable.       *)
(***************************************************************************)
AbstractState ==
  [e \in Events |-> IF e \notin Usable THEN "closed"
                    ELSE IF counter[eventfd[e]] > 0 THEN "set" ELSE "unset"]

AbstractOp ==
  [t \in Threads |-> IF pc[t] \in SettingPCs THEN "set"
                     ELSE IF pc[t] \in ResettingPCs THEN "reset"
                     ELSE IF pc[t] = "close_free" THEN "close"
                     ELSE IF pc[t] = "create_malloc" THEN "create"
                     ELSE IF pc[t] = "select" THEN "wait" ELSE "idle"]

AbstractDone ==
  [t \in Threads |-> pc[t] \in {"set_flag", "set_unlock", "reset_flag", "reset_unlock",
                                "close_free"}]

AbstractSeen ==
  [t \in Threads |-> {e \in Members(lphEvents[t]) : eventfd[e] \in readfds[t]}]

AbstractMissing ==
  [t \in Threads |-> {e \in Members(lphEvents[t]) :
                        eventfd[e] \notin readfds[t] \cup unpolled[t]}]

AbstractFailed == [t \in Threads |-> lastError[t] # "0"]

MRE == INSTANCE ManualResetEvent WITH
         state <- AbstractState, op <- AbstractOp, ev <- hEvent, done <- AbstractDone,
         handles <- lphEvents, seen <- AbstractSeen, missing <- AbstractMissing,
         failed <- AbstractFailed

(* Seen from outside, every call takes effect at one instant, a wait       *)
(* reports the first of its events that it found set and times out only    *)
(* after it found all of them unset, and the error code is zero exactly    *)
(* after success.                                                          *)
ImplementsManualResetEvent == MRE!Spec
=============================================================================
