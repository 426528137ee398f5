--------------------------- MODULE ManualResetEvent ---------------------------
(***************************************************************************)
(* What the event functions of wsa_events.c promise their callers: events  *)
(* that are set and reset at one instant, waits that return the first      *)
(* event of their array found set, waits that time out only when every     *)
(* event was found unset, and an error code that tells success from        *)
(* failure.  There are no mutexes, descriptors or flags here; module       *)
(* WSAEvents shows that the code implements this specification.            *)
(***************************************************************************)
EXTENDS Naturals, Sequences

CONSTANTS Threads,   \* threads of the application
          Events,    \* event handles (addresses of WSAEventStruct)
          MaxWait,   \* WSA_MAXIMUM_WAIT_EVENTS
          NULL

VARIABLES state,     \* state[e]: "closed", "unset" or "set"
          op,        \* op[t]: the call thread t is in, or "idle"
          ev,        \* ev[t]: the event that call is about
          done,      \* done[t]: the call has taken effect
          handles,   \* handles[t]: the array a wait is given
          seen,      \* seen[t]: events that wait has found set
          missing,   \* missing[t]: events that wait has found unset
          result,    \* result[t]: what t's last call returned
          failed     \* failed[t]: t's last error is not zero

vars == <<state, op, ev, done, handles, seen, missing, result, failed>>

Arrays == UNION {[1..n -> Events] : n \in 1..MaxWait}
Members(hs) == {hs[i] : i \in DOMAIN hs}

Init ==
  /\ state = [e \in Events |-> "closed"]
  /\ op = [t \in Threads |-> "idle"]
  /\ ev = [t \in Threads |-> NULL]
  /\ done = [t \in Threads |-> FALSE]
  /\ handles = [t \in Threads |-> <<>>]
  /\ seen = [t \in Threads |-> {}]
  /\ missing = [t \in Threads |-> {}]
  /\ result = [t \in Threads |-> "none"]
  /\ failed = [t \in Threads |-> FALSE]

(***************************************************************************)
(* Beginning and ending a call.                                            *)
(***************************************************************************)
Begin(t, o, e) ==
  /\ op[t] = "idle"
  /\ op' = [op EXCEPT ![t] = o]
  /\ ev' = [ev EXCEPT ![t] = e]
  /\ result' = [result EXCEPT ![t] = "none"]
  /\ UNCHANGED failed

End(t, r, f) ==
  /\ op' = [op EXCEPT ![t] = "idle"]
  /\ ev' = [ev EXCEPT ![t] = NULL]
  /\ done' = [done EXCEPT ![t] = FALSE]
  /\ handles' = [handles EXCEPT ![t] = <<>>]
  /\ seen' = [seen EXCEPT ![t] = {}]
  /\ missing' = [missing EXCEPT ![t] = {}]
  /\ result' = [result EXCEPT ![t] = r]
  /\ failed' = [failed EXCEPT ![t] = f]

(* A call refused before it touches anything. *)
Refuse(t) ==
  /\ op[t] = "idle"
  /\ \E r \in {"NULL", "FALSE", "WAIT_FAILED"} : result' = [result EXCEPT ![t] = r]
  /\ failed' = [failed EXCEPT ![t] = TRUE]
  /\ UNCHANGED <<state, op, ev, done, handles, seen, missing>>

BeginCreate(t) ==
  /\ Begin(t, "create", NULL)
  /\ UNCHANGED <<state, done, handles, seen, missing>>

(* A new event is handed out unset. *)
Create(t) ==
  /\ op[t] = "create"
  /\ \E e \in Events :
       /\ state[e] = "closed"
       /\ state' = [state EXCEPT ![e] = "unset"]
       /\ End(t, e, FALSE)

(* A set or a reset of an open event. *)
BeginChange(t, o) ==
  /\ \E e \in Events : state[e] # "closed" /\ Begin(t, o, e)
  /\ UNCHANGED <<state, done, handles, seen, missing>>

(* The one instant at which a set, or a reset, changes the event. *)
TakeEffect(t, o, s) ==
  /\ op[t] = o
  /\ ~done[t]
  /\ state[ev[t]] # "closed"
  /\ state' = [state EXCEPT ![ev[t]] = s]
  /\ done' = [done EXCEPT ![t] = TRUE]
  /\ UNCHANGED <<op, ev, handles, seen, missing, result, failed>>

(* TRUE is returned only by a call that has taken effect... *)
Succeed(t) ==
  /\ op[t] \in {"set", "reset", "close"}
  /\ done[t]
  /\ End(t, "TRUE", FALSE)
  /\ UNCHANGED state

(* ... and a call that fails has not. *)
Fail(t) ==
  /\ ~done[t]
  /\ \/ op[t] = "create" /\ End(t, "NULL", TRUE)
     \/ op[t] = "wait" /\ End(t, "WAIT_FAILED", TRUE)
  /\ UNCHANGED state

(* Nobody else may be using an event that is closed. *)
Close(t) ==
  /\ \E e \in Events :
       /\ state[e] # "closed"
       /\ \A u \in Threads : ev[u] # e /\ e \notin Members(handles[u])
       /\ Begin(t, "close", e)
       /\ state' = [state EXCEPT ![e] = "closed"]
  /\ done' = [done EXCEPT ![t] = TRUE]
  /\ UNCHANGED <<handles, seen, missing>>

BeginWait(t, hs) ==
  /\ \A e \in Members(hs) : state[e] # "closed"
  /\ Begin(t, "wait", NULL)
  /\ handles' = [handles EXCEPT ![t] = hs]
  /\ UNCHANGED <<state, done, seen, missing>>

(* A wait looks at its events one at a time... *)
Look(t) ==
  /\ op[t] = "wait"
  /\ \E e \in Members(handles[t]) :
       \/ /\ state[e] = "set"
          /\ seen' = [seen EXCEPT ![t] = @ \cup {e}]
          /\ UNCHANGED missing
       \/ /\ state[e] = "unset"
          /\ missing' = [missing EXCEPT ![t] = @ \cup {e}]
          /\ UNCHANGED seen
  /\ UNCHANGED <<state, op, ev, done, handles, result, failed>>

(* ... and starts over while it has found none set. *)
LookAgain(t) ==
  /\ op[t] = "wait"
  /\ seen[t] = {}
  /\ missing' = [missing EXCEPT ![t] = {}]
  /\ UNCHANGED <<state, op, ev, done, handles, seen, result, failed>>

(* It returns the first event of its array that it found set, after it     *)
(* found every earlier one unset.                                          *)
Wake(t) ==
  /\ op[t] = "wait"
  /\ \E i \in DOMAIN handles[t] :
       /\ handles[t][i] \in seen[t]
       /\ \A j \in 1..(i - 1) : handles[t][j] \in missing[t]
       /\ End(t, handles[t][i], FALSE)
  /\ UNCHANGED state

(* It times out only if it found every one of them unset. *)
TimeOut(t) ==
  /\ op[t] = "wait"
  /\ Members(handles[t]) \subseteq missing[t]
  /\ End(t, "WAIT_TIMEOUT", FALSE)
  /\ UNCHANGED state

Next ==
  \E t \in Threads :
    \/ Refuse(t)
    \/ BeginCreate(t) \/ Create(t)
    \/ BeginChange(t, "set") \/ TakeEffect(t, "set", "set")
    \/ BeginChange(t, "reset") \/ TakeEffect(t, "reset", "unset")
    \/ Succeed(t) \/ Fail(t)
    \/ Close(t)
    \/ \E hs \in Arrays : BeginWait(t, hs)
    \/ Look(t) \/ LookAgain(t) \/ Wake(t) \/ TimeOut(t)

Spec == Init /\ [][Next]_vars
=============================================================================
