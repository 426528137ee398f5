--------------------------- MODULE WSAEvents_proofs ---------------------------
(***************************************************************************)
(* Proofs about the event functions, for any number of threads, events and *)
(* descriptors and any limit on the length of a wait.                      *)
(***************************************************************************)
EXTENDS WSAEvents, TLAPS

(* The empty array a thread outside a wait holds is an array.              *)
LEMMA EmptyArray == <<>> \in ArraysOf(Events, MaxWait)
<1>1. <<>> \in [1..0 -> Events]
  BY SMT
<1>2. 0 \in 0..MaxWait
  BY MaxWaitAssumption
<1> QED
  BY <1>1, <1>2 DEF ArraysOf

(* What the argument checks of WSAWaitForMultipleEvents let through: an    *)
(* array of at most MaxWait handles, none of them NULL.                    *)
LEMMA ValidArrayType ==
  ASSUME NEW hs \in Arrays, ValidArray(hs)
  PROVE  hs \in ArraysOf(Events, MaxWait)
<1>1. PICK n \in 0..(MaxWait + 1) : hs \in [1..n -> Events \cup {NULL}]
  BY DEF Arrays, ArraysOf
<1>2. Len(hs) = n
  BY <1>1
<1>3. n \in 1..MaxWait
  BY <1>2 DEF ValidArray
<1>4. \A i \in 1..n : hs[i] \in Events
  BY <1>1 DEF ValidArray, Members
<1>5. hs \in [1..n -> Events]
  BY <1>1, <1>4
<1> QED
  BY <1>3, <1>5, MaxWaitAssumption DEF ArraysOf

(* The entries of an array of handles are handles.                         *)
LEMMA ArrayMembers ==
  ASSUME NEW hs \in ArraysOf(Events, MaxWait)
  PROVE  Members(hs) \subseteq Events
<1>1. PICK n \in 0..MaxWait : hs \in [1..n -> Events]
  BY DEF ArraysOf
<1> QED
  BY <1>1 DEF Members

(* Leaving a call keeps the types of everything a return assigns.          *)
LEMMA ReturnType ==
  ASSUME TypeOK, NEW t \in Threads, NEW r \in Results, NEW err \in Errors, Return(t, r, err)
  PROVE  /\ pc' \in [Threads -> PCs]
         /\ efd' \in [Threads -> Fds \cup {NULL}]
         /\ hEvent' \in [Threads -> Events \cup {NULL}]
         /\ lphEvents' \in [Threads -> ArraysOf(Events, MaxWait)]
         /\ infinite' \in [Threads -> BOOLEAN]
         /\ unpolled' \in [Threads -> SUBSET Fds]
         /\ readfds' \in [Threads -> SUBSET Fds]
         /\ result' \in [Threads -> Results]
         /\ lastError' \in [Threads -> Errors]
<1>1. "idle" \in PCs
  BY DEF PCs
<1> QED
  BY <1>1, EmptyArray DEF TypeOK, Return

(* Every step keeps the types.  UsedAreLive is needed where select() wakes  *)
(* and reads the descriptors of its events again.                          *)
LEMMA TypeStep == TypeOK /\ UsedAreLive /\ [Next]_vars => TypeOK'
<1> SUFFICES ASSUME TypeOK, UsedAreLive, [Next]_vars PROVE TypeOK'
  OBVIOUS
<1> USE DEF PCs, EventPCs, SettingPCs, ResettingPCs, Closed
<1>1. CASE UNCHANGED vars
  BY <1>1 DEF TypeOK, vars, memory, locals
<1>2. ASSUME NEW t \in Threads, CreateEventfd(t) PROVE TypeOK'
  BY <1>2, EventfdMaxAssumption DEF TypeOK, CreateEventfd, Call, Goto, Results
<1>3. ASSUME NEW t \in Threads, NEW r \in Results, NEW err \in Errors, Refuse(t, r, err)
      PROVE  TypeOK'
  BY <1>3, ReturnType DEF Refuse, TypeOK, memory
<1>4. ASSUME NEW t \in Threads, CreateMalloc(t) PROVE TypeOK'
  <2>1. PICK e \in Events : Return(t, e, "0") /\ eventfd' = [eventfd EXCEPT ![e] = efd[t]]
                           /\ signaled' = [signaled EXCEPT ![e] = FALSE]
                           /\ mutex' = [mutex EXCEPT ![e] = NULL]
    BY <1>4 DEF CreateMalloc
  <2> QED
    BY <1>4, <2>1, ReturnType DEF CreateMalloc, TypeOK, Results, Errors
<1>5. ASSUME NEW t \in Threads, CreateMallocFails(t) PROVE TypeOK'
  BY <1>5, ReturnType DEF CreateMallocFails, TypeOK, Results, Errors
<1>6. ASSUME NEW t \in Threads, CloseEventfd(t) PROVE TypeOK'
  BY <1>6 DEF CloseEventfd, Call, Goto, TypeOK, Results, Usable, Live
<1>7. ASSUME NEW t \in Threads, CloseFree(t) PROVE TypeOK'
  BY <1>7, ReturnType DEF CloseFree, TypeOK, Results, Errors
<1>8. ASSUME NEW t \in Threads, NEW l \in PCs, CallOnEvent(t, l) PROVE TypeOK'
  BY <1>8 DEF CallOnEvent, Call, Goto, TypeOK, Results, Usable, Live, memory
<1>9. ASSUME NEW t \in Threads, SetLock(t) \/ ResetLock(t) PROVE TypeOK'
  BY <1>9 DEF SetLock, ResetLock, Lock, Goto, InCall, locals, TypeOK
<1>10. ASSUME NEW t \in Threads, SetWrite(t) PROVE TypeOK'
  <2> DEFINE e == hEvent[t]
             fd == eventfd[e]
  <2>1. CASE ~signaled[e] /\ ~WriteSucceeds(fd)
    BY <1>10, <2>1, ReturnType DEF SetWrite, Unlock, Results, Errors, TypeOK
  <2>2. CASE ~signaled[e] /\ WriteSucceeds(fd)
    <3>1. counter' = [counter EXCEPT ![fd] = @ + 1]
      BY <1>10, <2>2 DEF SetWrite
    <3>2. counter[fd] + 1 \in 0..EventfdMax
      BY <2>2, EventfdMaxAssumption DEF WriteSucceeds
    <3>3. counter' \in [Fds -> {Closed} \cup 0..EventfdMax]
      BY <3>1, <3>2 DEF TypeOK
    <3> QED
      BY <1>10, <2>2, <3>3 DEF SetWrite, Goto, InCall, locals, TypeOK
  <2>3. CASE signaled[e]
    BY <1>10, <2>3 DEF SetWrite, Goto, InCall, locals, memory, TypeOK
  <2> QED
    BY <2>1, <2>2, <2>3
<1>11. ASSUME NEW t \in Threads, SetFlag(t) \/ ResetFlag(t) PROVE TypeOK'
  BY <1>11 DEF SetFlag, ResetFlag, Goto, InCall, locals, TypeOK
<1>12. ASSUME NEW t \in Threads, SetUnlock(t) \/ ResetUnlock(t) PROVE TypeOK'
  BY <1>12, ReturnType DEF SetUnlock, ResetUnlock, Unlock, Results, Errors, TypeOK
<1>13. ASSUME NEW t \in Threads, ResetDrain(t) PROVE TypeOK'
  BY <1>13, EventfdMaxAssumption DEF ResetDrain, Goto, InCall, locals, TypeOK
<1>14. ASSUME NEW t \in Threads, WaitBegin(t) PROVE TypeOK'
  <2>1. PICK hs \in Arrays : /\ ValidArray(hs)
                            /\ Members(hs) \subseteq Usable
                            /\ lphEvents' = [lphEvents EXCEPT ![t] = hs]
                            /\ unpolled' = [unpolled EXCEPT ![t] = FdsOf(Members(hs))]
    BY <1>14 DEF WaitBegin
  <2>2. hs \in ArraysOf(Events, MaxWait)
    BY <2>1, ValidArrayType
  <2>3. FdsOf(Members(hs)) \subseteq Fds
    BY <2>1 DEF FdsOf, Usable, Live, TypeOK
  <2>4. PICK forever \in BOOLEAN : infinite' = [infinite EXCEPT ![t] = forever]
    BY <1>14 DEF WaitBegin
  <2> QED
    BY <1>14, <2>1, <2>2, <2>3, <2>4 DEF WaitBegin, Call, Goto, TypeOK, Results, memory
<1>15. ASSUME NEW t \in Threads, SelectPoll(t) PROVE TypeOK'
  BY <1>15 DEF SelectPoll, TypeOK, memory
<1>16. ASSUME NEW t \in Threads, SelectWake(t) PROVE TypeOK'
  <2>1. FdsOf(Members(lphEvents[t])) \subseteq Fds
    BY ArrayMembers DEF TypeOK, UsedAreLive, Uses, Live, FdsOf
  <2> QED
    BY <1>16, <2>1 DEF SelectWake, TypeOK, memory
<1>17. ASSUME NEW t \in Threads, WaitReturn(t) PROVE TypeOK'
  <2>1. PICK i \in DOMAIN lphEvents[t] : Return(t, lphEvents[t][i], "0")
    BY <1>17 DEF WaitReturn
  <2>2. lphEvents[t][i] \in Events
    BY ArrayMembers DEF TypeOK, Members
  <2> QED
    BY <1>17, <2>1, <2>2, ReturnType DEF WaitReturn, Results, Errors, TypeOK, memory
<1>18. ASSUME NEW t \in Threads, WaitTimeout(t) \/ WaitInterrupted(t) PROVE TypeOK'
  BY <1>18, ReturnType DEF WaitTimeout, WaitInterrupted, Results, Errors, TypeOK, memory
<1> QED
  BY <1>1, <1>2, <1>3, <1>4, <1>5, <1>6, <1>7, <1>8, <1>9, <1>10, <1>11, <1>12, <1>13,
     <1>14, <1>15, <1>16, <1>17, <1>18
     DEF Next, Begin, Step, CreateEventfdFails, CloseSetOrResetNull, SetEvent, ResetEvent,
         WaitRefused, Results, Errors

(* A call sets its locals when it begins and clears them when it returns. *)
LEMMA LocalsStep == TypeOK /\ LocalsMatchPC /\ [Next]_vars => LocalsMatchPC'
<1> SUFFICES ASSUME TypeOK, LocalsMatchPC, [Next]_vars PROVE LocalsMatchPC'
  OBVIOUS
<1> USE DEF memory, locals, PCs, EventPCs, SettingPCs, ResettingPCs
<1>1. CASE UNCHANGED vars
  BY <1>1 DEF vars, TypeOK, LocalsMatchPC
<1>2. ASSUME NEW t \in Threads, NEW r, NEW err, Refuse(t, r, err) PROVE LocalsMatchPC'
  BY <1>2 DEF Refuse, Return, TypeOK, LocalsMatchPC
<1>3. ASSUME NEW t \in Threads, NEW l \in {"set_lock", "reset_lock"}, CallOnEvent(t, l)
      PROVE  LocalsMatchPC'
  BY <1>3, NullAssumption DEF CallOnEvent, Call, Goto, TypeOK, LocalsMatchPC, Usable, Live
<1>4. ASSUME NEW t \in Threads, CreateEventfd(t) PROVE LocalsMatchPC'
  BY <1>4, NullAssumption DEF CreateEventfd, Call, Goto, TypeOK, LocalsMatchPC
<1>5. ASSUME NEW t \in Threads, CreateMalloc(t) PROVE LocalsMatchPC'
  BY <1>5 DEF CreateMalloc, Return, TypeOK, LocalsMatchPC
<1>6. ASSUME NEW t \in Threads, CreateMallocFails(t) PROVE LocalsMatchPC'
  BY <1>6 DEF CreateMallocFails, Return, TypeOK, LocalsMatchPC
<1>7. ASSUME NEW t \in Threads, CloseEventfd(t) PROVE LocalsMatchPC'
  BY <1>7, NullAssumption DEF CloseEventfd, Call, Goto, TypeOK, LocalsMatchPC, Usable, Live
<1>8. ASSUME NEW t \in Threads, CloseFree(t) PROVE LocalsMatchPC'
  BY <1>8 DEF CloseFree, Return, TypeOK, LocalsMatchPC
<1>9. ASSUME NEW t \in Threads, SetLock(t) PROVE LocalsMatchPC'
  BY <1>9 DEF SetLock, Goto, Lock, InCall, TypeOK, LocalsMatchPC
<1>10. ASSUME NEW t \in Threads, SetWrite(t) PROVE LocalsMatchPC'
  BY <1>10 DEF SetWrite, Goto, InCall, Return, Unlock, TypeOK, LocalsMatchPC
<1>11. ASSUME NEW t \in Threads, SetFlag(t) PROVE LocalsMatchPC'
  BY <1>11 DEF SetFlag, Goto, InCall, TypeOK, LocalsMatchPC
<1>12. ASSUME NEW t \in Threads, SetUnlock(t) PROVE LocalsMatchPC'
  BY <1>12 DEF SetUnlock, Return, Unlock, TypeOK, LocalsMatchPC
<1>13. ASSUME NEW t \in Threads, ResetLock(t) PROVE LocalsMatchPC'
  BY <1>13 DEF ResetLock, Goto, Lock, InCall, TypeOK, LocalsMatchPC
<1>14. ASSUME NEW t \in Threads, ResetDrain(t) PROVE LocalsMatchPC'
  BY <1>14 DEF ResetDrain, Goto, InCall, TypeOK, LocalsMatchPC
<1>15. ASSUME NEW t \in Threads, ResetFlag(t) PROVE LocalsMatchPC'
  BY <1>15 DEF ResetFlag, Goto, InCall, TypeOK, LocalsMatchPC
<1>16. ASSUME NEW t \in Threads, ResetUnlock(t) PROVE LocalsMatchPC'
  BY <1>16 DEF ResetUnlock, Return, Unlock, TypeOK, LocalsMatchPC
<1>17. ASSUME NEW t \in Threads, WaitBegin(t) PROVE LocalsMatchPC'
  BY <1>17 DEF WaitBegin, Call, Goto, TypeOK, LocalsMatchPC
<1>18. ASSUME NEW t \in Threads, SelectPoll(t) PROVE LocalsMatchPC'
  BY <1>18 DEF SelectPoll, TypeOK, LocalsMatchPC
<1>19. ASSUME NEW t \in Threads, SelectWake(t) PROVE LocalsMatchPC'
  BY <1>19 DEF SelectWake, TypeOK, LocalsMatchPC
<1>20. ASSUME NEW t \in Threads, WaitReturn(t) PROVE LocalsMatchPC'
  BY <1>20 DEF WaitReturn, Return, TypeOK, LocalsMatchPC
<1>21. ASSUME NEW t \in Threads, WaitTimeout(t) PROVE LocalsMatchPC'
  BY <1>21 DEF WaitTimeout, Return, TypeOK, LocalsMatchPC
<1>22. ASSUME NEW t \in Threads, WaitInterrupted(t) PROVE LocalsMatchPC'
  BY <1>22 DEF WaitInterrupted, Return, TypeOK, LocalsMatchPC
<1> QED
  BY <1>1, <1>2, <1>3, <1>4, <1>5, <1>6, <1>7, <1>8, <1>9, <1>10, <1>11, <1>12, <1>13, <1>14, <1>15, <1>16, <1>17, <1>18, <1>19, <1>20, <1>21, <1>22
     DEF Next, Begin, Step, CreateEventfdFails, CloseSetOrResetNull, SetEvent, ResetEvent,
         WaitRefused

(* A thread outside a wait waits for nothing.                              *)
LEMMA EmptyHasNoMembers == Members(<<>>) = {}
  BY DEF Members

(* A thread that returns stops using events; the others go on as they were. *)
LEMMA ReturnClears ==
  ASSUME TypeOK, NEW t \in Threads, NEW r, NEW err, Return(t, r, err)
  PROVE  /\ pc'[t] = "idle"
         /\ hEvent'[t] = NULL
         /\ \A e \in Events : ~Uses(t, e)'
         /\ \A u \in Threads \ {t} :
              /\ pc'[u] = pc[u]
              /\ hEvent'[u] = hEvent[u]
              /\ \A e \in Events : Uses(u, e)' <=> Uses(u, e)
<1>1. lphEvents'[t] = <<>> /\ hEvent'[t] = NULL /\ pc'[t] = "idle"
  BY DEF Return, TypeOK
<1>2. \A e \in Events : ~Uses(t, e)'
  BY <1>1, EmptyHasNoMembers, NullAssumption DEF Uses
<1>3. ASSUME NEW u \in Threads \ {t}
      PROVE  pc'[u] = pc[u] /\ hEvent'[u] = hEvent[u] /\ lphEvents'[u] = lphEvents[u]
  BY DEF Return, TypeOK
<1> QED
  BY <1>1, <1>2, <1>3 DEF Uses

(* A call uses only live events: CallOnEvent and WaitBegin take usable ones, *)
(* WSACloseEvent frees one that nobody else uses.                          *)
LEMMA UsedStep == TypeOK /\ LocalsMatchPC /\ UsedAreLive /\ [Next]_vars => UsedAreLive'
<1> SUFFICES ASSUME TypeOK, LocalsMatchPC, UsedAreLive, [Next]_vars PROVE UsedAreLive'
  OBVIOUS
<1> USE DEF memory, locals, PCs, EventPCs, SettingPCs, ResettingPCs
<1>1. CASE UNCHANGED vars
  BY <1>1 DEF vars, TypeOK, UsedAreLive, Uses, Live
<1>2. ASSUME NEW t \in Threads, NEW r, NEW err, Refuse(t, r, err) PROVE UsedAreLive'
  BY <1>2, ReturnClears DEF Refuse, UsedAreLive, Live
<1>3. ASSUME NEW t \in Threads, NEW l \in {"set_lock", "reset_lock"}, CallOnEvent(t, l)
      PROVE  UsedAreLive'
  BY <1>3, NullAssumption DEF CallOnEvent, Call, Goto, TypeOK, UsedAreLive, Uses, Live, Usable
<1>4. ASSUME NEW t \in Threads, CreateEventfd(t) PROVE UsedAreLive'
  BY <1>4, NullAssumption DEF CreateEventfd, Call, Goto, TypeOK, UsedAreLive, Uses, Live
<1>5. ASSUME NEW t \in Threads, CreateMalloc(t) PROVE UsedAreLive'
  <2>1. PICK e \in Events : Return(t, e, "0") /\ eventfd' = [eventfd EXCEPT ![e] = efd[t]]
    BY <1>5 DEF CreateMalloc
  <2>2. \A f \in Live : f \in Live'
    BY <1>5, <2>1 DEF CreateMalloc, TypeOK, LocalsMatchPC, Live
  <2> QED
    BY <2>1, <2>2, ReturnClears DEF UsedAreLive
<1>6. ASSUME NEW t \in Threads, CreateMallocFails(t) PROVE UsedAreLive'
  BY <1>6, ReturnClears DEF CreateMallocFails, UsedAreLive, Live
<1>7. ASSUME NEW t \in Threads, CloseEventfd(t) PROVE UsedAreLive'
  BY <1>7, NullAssumption DEF CloseEventfd, Call, Goto, TypeOK, UsedAreLive, Uses, Live, Usable
<1>8. ASSUME NEW t \in Threads, CloseFree(t) PROVE UsedAreLive'
  <2> DEFINE e == hEvent[t]
  <2>1. \A u \in Threads \ {t} : ~Uses(u, e)
    BY <1>8 DEF CloseFree, UsedAreLive, TypeOK, LocalsMatchPC
  <2>2. \A f \in Live : f # e => f \in Live'
    BY <1>8 DEF CloseFree, TypeOK, Live
  <2>3. PICK r, err : Return(t, r, err)
    BY <1>8 DEF CloseFree
  <2> QED
    BY <2>1, <2>2, <2>3, ReturnClears DEF UsedAreLive
<1>9. ASSUME NEW t \in Threads, SetLock(t) PROVE UsedAreLive'
  BY <1>9 DEF SetLock, Goto, Lock, InCall, TypeOK, UsedAreLive, Uses, Live
<1>10. ASSUME NEW t \in Threads, SetWrite(t) PROVE UsedAreLive'
  <2>1. CASE Return(t, "FALSE", "WSAENETDOWN") /\ UNCHANGED eventfd
    BY <2>1, ReturnClears DEF UsedAreLive, Live
  <2>2. CASE pc' \in {[pc EXCEPT ![t] = "set_unlock"], [pc EXCEPT ![t] = "set_flag"]}
             /\ InCall /\ UNCHANGED eventfd
    BY <1>10, <2>2 DEF SetWrite, InCall, TypeOK, UsedAreLive, Uses, Live
  <2> QED
    BY <1>10, <2>1, <2>2 DEF SetWrite, Goto
<1>11. ASSUME NEW t \in Threads, SetFlag(t) PROVE UsedAreLive'
  BY <1>11 DEF SetFlag, Goto, InCall, TypeOK, UsedAreLive, Uses, Live
<1>12. ASSUME NEW t \in Threads, SetUnlock(t) PROVE UsedAreLive'
  BY <1>12, ReturnClears DEF SetUnlock, Unlock, UsedAreLive, Live
<1>13. ASSUME NEW t \in Threads, ResetLock(t) PROVE UsedAreLive'
  BY <1>13 DEF ResetLock, Goto, Lock, InCall, TypeOK, UsedAreLive, Uses, Live
<1>14. ASSUME NEW t \in Threads, ResetDrain(t) PROVE UsedAreLive'
  BY <1>14 DEF ResetDrain, Goto, InCall, TypeOK, UsedAreLive, Uses, Live
<1>15. ASSUME NEW t \in Threads, ResetFlag(t) PROVE UsedAreLive'
  BY <1>15 DEF ResetFlag, Goto, InCall, TypeOK, UsedAreLive, Uses, Live
<1>16. ASSUME NEW t \in Threads, ResetUnlock(t) PROVE UsedAreLive'
  BY <1>16, ReturnClears DEF ResetUnlock, Unlock, UsedAreLive, Live
<1>17. ASSUME NEW t \in Threads, WaitBegin(t) PROVE UsedAreLive'
  BY <1>17, NullAssumption DEF WaitBegin, Call, Goto, TypeOK, UsedAreLive, Uses, Live, Usable
<1>18. ASSUME NEW t \in Threads, SelectPoll(t) PROVE UsedAreLive'
  BY <1>18 DEF SelectPoll, TypeOK, UsedAreLive, Uses, Live
<1>19. ASSUME NEW t \in Threads, SelectWake(t) PROVE UsedAreLive'
  BY <1>19 DEF SelectWake, TypeOK, UsedAreLive, Uses, Live
<1>20. ASSUME NEW t \in Threads, WaitReturn(t) PROVE UsedAreLive'
  BY <1>20, ReturnClears DEF WaitReturn, UsedAreLive, Live
<1>21. ASSUME NEW t \in Threads, WaitTimeout(t) PROVE UsedAreLive'
  BY <1>21, ReturnClears DEF WaitTimeout, UsedAreLive, Live
<1>22. ASSUME NEW t \in Threads, WaitInterrupted(t) PROVE UsedAreLive'
  BY <1>22, ReturnClears DEF WaitInterrupted, UsedAreLive, Live
<1> QED
  BY <1>1, <1>2, <1>3, <1>4, <1>5, <1>6, <1>7, <1>8, <1>9, <1>10, <1>11, <1>12, <1>13, <1>14, <1>15, <1>16, <1>17, <1>18, <1>19, <1>20, <1>21, <1>22
     DEF Next, Begin, Step, CreateEventfdFails, CloseSetOrResetNull, SetEvent, ResetEvent,
         WaitRefused

(* The lock and unlock calls bracket the code they guard, and an event is   *)
(* allocated or freed only while nobody uses it.                           *)
LEMMA MutexStep == TypeOK /\ LocalsMatchPC /\ UsedAreLive /\ MutexHeld /\ [Next]_vars => MutexHeld'
<1> SUFFICES ASSUME TypeOK, LocalsMatchPC, UsedAreLive, MutexHeld, [Next]_vars PROVE MutexHeld'
  OBVIOUS
<1> USE DEF memory, locals, PCs, EventPCs, SettingPCs, ResettingPCs, HoldingPCs
<1>1. CASE UNCHANGED vars
  BY <1>1, NullAssumption DEF vars, TypeOK, LocalsMatchPC, MutexHeld
<1>2. ASSUME NEW t \in Threads, NEW r, NEW err, Refuse(t, r, err) PROVE MutexHeld'
  BY <1>2, NullAssumption DEF Refuse, Return, TypeOK, LocalsMatchPC, MutexHeld
<1>3. ASSUME NEW t \in Threads, NEW l \in {"set_lock", "reset_lock"}, CallOnEvent(t, l)
      PROVE  MutexHeld'
  BY <1>3, NullAssumption DEF CallOnEvent, Call, Goto, TypeOK, LocalsMatchPC, MutexHeld
<1>4. ASSUME NEW t \in Threads, CreateEventfd(t) PROVE MutexHeld'
  BY <1>4, NullAssumption DEF CreateEventfd, Call, Goto, TypeOK, LocalsMatchPC, MutexHeld
<1>5. ASSUME NEW t \in Threads, CreateMalloc(t) PROVE MutexHeld'
  BY <1>5, NullAssumption DEF CreateMalloc, Return, TypeOK, LocalsMatchPC, MutexHeld, UsedAreLive, Uses, Live
<1>6. ASSUME NEW t \in Threads, CreateMallocFails(t) PROVE MutexHeld'
  BY <1>6, NullAssumption DEF CreateMallocFails, Return, TypeOK, LocalsMatchPC, MutexHeld
<1>7. ASSUME NEW t \in Threads, CloseEventfd(t) PROVE MutexHeld'
  BY <1>7, NullAssumption DEF CloseEventfd, Call, Goto, TypeOK, LocalsMatchPC, MutexHeld
<1>8. ASSUME NEW t \in Threads, CloseFree(t) PROVE MutexHeld'
  BY <1>8, NullAssumption DEF CloseFree, Return, TypeOK, LocalsMatchPC, MutexHeld, UsedAreLive, Uses, Live
<1>9. ASSUME NEW t \in Threads, SetLock(t) PROVE MutexHeld'
  BY <1>9, NullAssumption DEF SetLock, Goto, Lock, InCall, TypeOK, LocalsMatchPC, MutexHeld
<1>10. ASSUME NEW t \in Threads, SetWrite(t) PROVE MutexHeld'
  BY <1>10, NullAssumption DEF SetWrite, Goto, InCall, Return, Unlock, TypeOK, LocalsMatchPC, MutexHeld
<1>11. ASSUME NEW t \in Threads, SetFlag(t) PROVE MutexHeld'
  BY <1>11, NullAssumption DEF SetFlag, Goto, InCall, TypeOK, LocalsMatchPC, MutexHeld
<1>12. ASSUME NEW t \in Threads, SetUnlock(t) PROVE MutexHeld'
  BY <1>12, NullAssumption DEF SetUnlock, Return, Unlock, TypeOK, LocalsMatchPC, MutexHeld
<1>13. ASSUME NEW t \in Threads, ResetLock(t) PROVE MutexHeld'
  BY <1>13, NullAssumption DEF ResetLock, Goto, Lock, InCall, TypeOK, LocalsMatchPC, MutexHeld
<1>14. ASSUME NEW t \in Threads, ResetDrain(t) PROVE MutexHeld'
  BY <1>14, NullAssumption DEF ResetDrain, Goto, InCall, TypeOK, LocalsMatchPC, MutexHeld
<1>15. ASSUME NEW t \in Threads, ResetFlag(t) PROVE MutexHeld'
  BY <1>15, NullAssumption DEF ResetFlag, Goto, InCall, TypeOK, LocalsMatchPC, MutexHeld
<1>16. ASSUME NEW t \in Threads, ResetUnlock(t) PROVE MutexHeld'
  BY <1>16, NullAssumption DEF ResetUnlock, Return, Unlock, TypeOK, LocalsMatchPC, MutexHeld
<1>17. ASSUME NEW t \in Threads, WaitBegin(t) PROVE MutexHeld'
  BY <1>17, NullAssumption DEF WaitBegin, Call, Goto, TypeOK, LocalsMatchPC, MutexHeld
<1>18. ASSUME NEW t \in Threads, SelectPoll(t) PROVE MutexHeld'
  BY <1>18, NullAssumption DEF SelectPoll, TypeOK, LocalsMatchPC, MutexHeld
<1>19. ASSUME NEW t \in Threads, SelectWake(t) PROVE MutexHeld'
  BY <1>19, NullAssumption DEF SelectWake, TypeOK, LocalsMatchPC, MutexHeld
<1>20. ASSUME NEW t \in Threads, WaitReturn(t) PROVE MutexHeld'
  BY <1>20, NullAssumption DEF WaitReturn, Return, TypeOK, LocalsMatchPC, MutexHeld
<1>21. ASSUME NEW t \in Threads, WaitTimeout(t) PROVE MutexHeld'
  BY <1>21, NullAssumption DEF WaitTimeout, Return, TypeOK, LocalsMatchPC, MutexHeld, ScannedWithNone
<1>22. ASSUME NEW t \in Threads, WaitInterrupted(t) PROVE MutexHeld'
  BY <1>22, NullAssumption DEF WaitInterrupted, Return, TypeOK, LocalsMatchPC, MutexHeld, ScannedWithNone
<1> QED
  BY <1>1, <1>2, <1>3, <1>4, <1>5, <1>6, <1>7, <1>8, <1>9, <1>10, <1>11, <1>12, <1>13, <1>14, <1>15, <1>16, <1>17, <1>18, <1>19, <1>20, <1>21, <1>22
     DEF Next, Begin, Step, CreateEventfdFails, CloseSetOrResetNull, SetEvent, ResetEvent,
         WaitRefused

(***************************************************************************)
(* How the set of usable events and of creating threads changes.           *)
(***************************************************************************)
(* Steps that neither create nor close change neither.                     *)
Keeps(u) ==
  \/ pc[u] \notin {"close_free", "create_malloc"} /\ pc'[u] \notin {"close_free", "create_malloc"}
  \/ pc'[u] = pc[u] /\ hEvent'[u] = hEvent[u] /\ efd'[u] = efd[u]

(* A step that changes no descriptor, no allocation and nobody's pc into or *)
(* out of creating and closing is quiet.                                    *)
LEMMA QuietStep ==
  ASSUME UNCHANGED eventfd, \A u \in Threads : Keeps(u)
  PROVE  /\ Usable' = Usable
         /\ Creators' = Creators
         /\ \A u \in Creators : efd'[u] = efd[u]
  BY DEF Keeps, Usable, Live, Creators

(* eventfd() makes t a creator, with a descriptor nobody else has.         *)
LEMMA CreateEventfdEffect ==
  ASSUME TypeOK, DescriptorsOwned, NEW t \in Threads, CreateEventfd(t)
  PROVE  \E fd \in Fds :
           /\ counter' = [counter EXCEPT ![fd] = 0] /\ counter[fd] = Closed
           /\ Usable' = Usable /\ Creators' = Creators \cup {t} /\ t \notin Creators
           /\ efd'[t] = fd /\ \A u \in Creators : efd'[u] = efd[u]
           /\ fd \notin FdsOf(Usable) /\ \A u \in Creators : efd[u] # fd
<1>1. PICK fd \in Fds : /\ counter[fd] = Closed
                       /\ counter' = [counter EXCEPT ![fd] = 0]
                       /\ efd' = [efd EXCEPT ![t] = fd]
  BY DEF CreateEventfd
<1>2. Usable' = Usable /\ Creators' = Creators \cup {t} /\ t \notin Creators
  BY DEF CreateEventfd, Call, Goto, TypeOK, Usable, Live, Creators
<1>3. efd'[t] = fd /\ \A u \in Creators : efd'[u] = efd[u]
  BY <1>1, <1>2 DEF TypeOK, Creators
<1>4. fd \notin FdsOf(Usable) /\ \A u \in Creators : efd[u] # fd
  BY <1>1 DEF DescriptorsOwned
<1> QED
  BY <1>1, <1>2, <1>3, <1>4

(* malloc turns a creator's descriptor into a usable event.                *)
LEMMA CreateMallocEffect ==
  ASSUME TypeOK, LocalsMatchPC, UsedAreLive, NEW t \in Threads, CreateMalloc(t)
  PROVE  \E e \in Events :
           /\ Usable' = Usable \cup {e} /\ e \notin Usable
           /\ t \in Creators /\ Creators' = Creators \ {t}
           /\ \A u \in Creators' : efd'[u] = efd[u]
           /\ eventfd'[e] = efd[t] /\ \A f \in Usable : eventfd'[f] = eventfd[f]
           /\ ~signaled'[e] /\ \A f \in Usable : signaled'[f] = signaled[f]
           /\ \A u \in Threads : hEvent[u] # e /\ hEvent'[u] # e
<1>1. PICK e \in Events \ Live : /\ eventfd' = [eventfd EXCEPT ![e] = efd[t]]
                                 /\ signaled' = [signaled EXCEPT ![e] = FALSE]
                                 /\ Return(t, e, "0")
  BY DEF CreateMalloc
<1>2. t \in Creators /\ efd[t] # NULL
  BY DEF CreateMalloc, Creators, LocalsMatchPC
<1>3. Creators' = Creators \ {t} /\ \A u \in Creators' : efd'[u] = efd[u]
  BY <1>1, <1>2 DEF Return, TypeOK, Creators
<1>4. \A u \in Threads : hEvent[u] # e /\ hEvent'[u] # e
  BY <1>1, ReturnClears, NullAssumption DEF UsedAreLive, Uses
<1>5. Usable' = Usable \cup {e} /\ e \notin Usable
  BY <1>1, <1>2, <1>4, ReturnClears DEF Usable, Live, TypeOK, Creators
<1>6. eventfd'[e] = efd[t] /\ \A f \in Usable : eventfd'[f] = eventfd[f]
  BY <1>1, <1>5 DEF TypeOK
<1>7. ~signaled'[e] /\ \A f \in Usable : signaled'[f] = signaled[f]
  BY <1>1, <1>5 DEF TypeOK, Usable, Live
<1> QED
  BY <1>2, <1>3, <1>4, <1>5, <1>6, <1>7

(* When malloc fails the creator gives its descriptor back.                *)
LEMMA CreateMallocFailsEffect ==
  ASSUME TypeOK, NEW t \in Threads, CreateMallocFails(t)
  PROVE  /\ Usable' = Usable /\ t \in Creators /\ Creators' = Creators \ {t}
         /\ \A u \in Creators' : efd'[u] = efd[u]
         /\ \A fd \in Fds : fd # efd[t] => counter'[fd] = counter[fd]
         /\ efd[t] \in Fds => counter'[efd[t]] = Closed
<1>1. /\ t \in Creators
      /\ Return(t, "NULL", "WSA_NOT_ENOUGH_MEMORY")
      /\ counter' = [counter EXCEPT ![efd[t]] = Closed]
      /\ UNCHANGED eventfd
  BY DEF CreateMallocFails, Creators
<1>2. Creators' = Creators \ {t} /\ \A u \in Creators' : efd'[u] = efd[u]
  BY <1>1 DEF Return, TypeOK, Creators
<1>3. Usable' = Usable
  BY <1>1, ReturnClears DEF Usable, Live, Creators
<1> QED
  BY <1>1, <1>2, <1>3 DEF TypeOK

(* close() takes one event, and its descriptor only, out of use.           *)
LEMMA CloseEventfdEffect ==
  ASSUME TypeOK, NEW t \in Threads, CloseEventfd(t)
  PROVE  \E e \in Usable :
           /\ counter' = [counter EXCEPT ![eventfd[e]] = Closed]
           /\ Usable' = Usable \ {e} /\ Creators' = Creators /\ UNCHANGED efd
<1>1. PICK e \in Usable : /\ counter' = [counter EXCEPT ![eventfd[e]] = Closed]
                         /\ hEvent' = [hEvent EXCEPT ![t] = e]
  BY DEF CloseEventfd
<1>2. Usable' = Usable \ {e}
  BY <1>1 DEF CloseEventfd, Call, Goto, TypeOK, Usable, Live
<1>3. Creators' = Creators /\ UNCHANGED efd
  BY DEF CloseEventfd, Call, Goto, TypeOK, Creators
<1> QED
  BY <1>1, <1>2, <1>3

(* free() touches no usable event.                                         *)
LEMMA CloseFreeEffect ==
  ASSUME TypeOK, LocalsMatchPC, UsedAreLive, NEW t \in Threads, CloseFree(t)
  PROVE  /\ Usable' = Usable /\ Creators' = Creators
         /\ \A u \in Creators : efd'[u] = efd[u]
         /\ \A f \in Usable : eventfd'[f] = eventfd[f] /\ signaled'[f] = signaled[f]
<1> USE DEF EventPCs
<1>1. PICK r, err : Return(t, r, err)
  BY DEF CloseFree
<1>2. \A u \in Threads \ {t} : hEvent[u] # hEvent[t]
  BY NullAssumption DEF CloseFree, UsedAreLive, Uses, TypeOK, LocalsMatchPC
<1>3. Usable' = Usable /\ hEvent[t] \notin Usable
  BY <1>1, <1>2, ReturnClears DEF CloseFree, Usable, Live, TypeOK
<1>4. Creators' = Creators /\ \A u \in Creators : efd'[u] = efd[u]
  BY <1>1 DEF CloseFree, Return, TypeOK, Creators
<1> QED
  BY <1>3, <1>4 DEF CloseFree, TypeOK, Usable, Live

(***************************************************************************)
(* Descriptors are owned.                                                  *)
(***************************************************************************)
(* A quiet step leaves every descriptor with its owner.                    *)
LEMMA OwnedByQuietStep ==
  ASSUME TypeOK, DescriptorsOwned, UNCHANGED eventfd, \A u \in Threads : Keeps(u),
         \A fd \in Fds : counter'[fd] = Closed <=> counter[fd] = Closed
  PROVE  DescriptorsOwned'
  BY QuietStep DEF DescriptorsOwned, FdsOf

(* The event that a set or a reset works on is usable.                     *)
LEMMA HeldIsUsable ==
  ASSUME TypeOK, LocalsMatchPC, UsedAreLive, NEW t \in Threads,
         pc[t] \in EventPCs, pc[t] # "close_free"
  PROVE  hEvent[t] \in Usable /\ hEvent[t] \in Events /\ eventfd[hEvent[t]] \in Fds
<1>1. hEvent[t] \in Events
  BY DEF LocalsMatchPC, TypeOK
<1> QED
  BY <1>1 DEF UsedAreLive, Uses, Usable, Live, TypeOK

(* A descriptor is opened for one call, passed to one event, and closed     *)
(* exactly once.                                                           *)
LEMMA OwnedStep == TypeOK /\ LocalsMatchPC /\ UsedAreLive /\ DescriptorsOwned /\ [Next]_vars => DescriptorsOwned'
<1> SUFFICES ASSUME TypeOK, LocalsMatchPC, UsedAreLive, DescriptorsOwned, [Next]_vars PROVE DescriptorsOwned'
  OBVIOUS
<1> USE DEF memory, locals, PCs, EventPCs, SettingPCs, ResettingPCs
<1>1. CASE UNCHANGED vars
  <2>1. \A u \in Threads : Keeps(u)
    BY <1>1 DEF Keeps, TypeOK, vars
  <2> QED
    BY <1>1, <2>1, OwnedByQuietStep DEF vars
<1>2. ASSUME NEW t \in Threads, NEW r, NEW err, Refuse(t, r, err) PROVE DescriptorsOwned'
  <2>1. \A u \in Threads : Keeps(u)
    BY <1>2 DEF Keeps, TypeOK, Refuse, Return
  <2> QED
    BY <1>2, <2>1, OwnedByQuietStep DEF Refuse
<1>3. ASSUME NEW t \in Threads, NEW l \in {"set_lock", "reset_lock"}, CallOnEvent(t, l)
      PROVE  DescriptorsOwned'
  <2>1. \A u \in Threads : Keeps(u)
    BY <1>3 DEF Keeps, TypeOK, CallOnEvent, Call, Goto
  <2> QED
    BY <1>3, <2>1, OwnedByQuietStep DEF CallOnEvent
<1>4. ASSUME NEW t \in Threads, CreateEventfd(t) PROVE DescriptorsOwned'
  <2>1. UNCHANGED eventfd
    BY <1>4 DEF CreateEventfd
  <2>2. PICK fd \in Fds :
          /\ counter' = [counter EXCEPT ![fd] = 0] /\ counter[fd] = Closed
          /\ Usable' = Usable /\ Creators' = Creators \cup {t} /\ t \notin Creators
          /\ efd'[t] = fd /\ \A u \in Creators : efd'[u] = efd[u]
          /\ fd \notin FdsOf(Usable) /\ \A u \in Creators : efd[u] # fd
    BY <1>4, CreateEventfdEffect
  <2>3. (FdsOf(Usable))' = FdsOf(Usable)
    BY <2>1, <2>2 DEF FdsOf
  <2>4. {efd'[u] : u \in Creators'} = {efd[u] : u \in Creators} \cup {fd}
    BY <2>2
  <2>5. {x \in Fds : counter'[x] # Closed} = {x \in Fds : counter[x] # Closed} \cup {fd}
    BY <2>2 DEF TypeOK, Closed
  <2>6. \A e, f \in Usable' : eventfd'[e] = eventfd'[f] => e = f
    BY <2>1, <2>2 DEF DescriptorsOwned
  <2>7. \A u, v \in Creators' : efd'[u] = efd'[v] => u = v
    BY <2>2 DEF DescriptorsOwned
  <2>8. \A u \in Creators' : efd'[u] \notin (FdsOf(Usable))'
    BY <2>2, <2>3 DEF DescriptorsOwned
  <2>9. {x \in Fds : counter[x] # Closed} = FdsOf(Usable) \cup {efd[u] : u \in Creators}
    BY DEF DescriptorsOwned
  <2>10. {x \in Fds : counter'[x] # Closed} = (FdsOf(Usable))' \cup {efd'[u] : u \in Creators'}
    BY <2>3, <2>4, <2>5, <2>9
  <2> QED
    BY <2>6, <2>7, <2>8, <2>10 DEF DescriptorsOwned
<1>5. ASSUME NEW t \in Threads, CreateMalloc(t) PROVE DescriptorsOwned'
  <2>1. UNCHANGED counter
    BY <1>5 DEF CreateMalloc
  <2> QED
    BY <1>5, <2>1, CreateMallocEffect DEF DescriptorsOwned, FdsOf
<1>6. ASSUME NEW t \in Threads, CreateMallocFails(t) PROVE DescriptorsOwned'
  <2>1. UNCHANGED eventfd
    BY <1>6 DEF CreateMallocFails
  <2> QED
    BY <1>6, <2>1, CreateMallocFailsEffect DEF DescriptorsOwned, FdsOf
<1>7. ASSUME NEW t \in Threads, CloseEventfd(t) PROVE DescriptorsOwned'
  <2>1. UNCHANGED eventfd
    BY <1>7 DEF CloseEventfd
  <2> QED
    BY <1>7, <2>1, CloseEventfdEffect DEF DescriptorsOwned, FdsOf, TypeOK
<1>8. ASSUME NEW t \in Threads, CloseFree(t) PROVE DescriptorsOwned'
  <2>1. UNCHANGED counter
    BY <1>8 DEF CloseFree
  <2> QED
    BY <1>8, <2>1, CloseFreeEffect DEF DescriptorsOwned, FdsOf
<1>9. ASSUME NEW t \in Threads, SetLock(t) PROVE DescriptorsOwned'
  <2>1. \A u \in Threads : Keeps(u)
    BY <1>9 DEF Keeps, TypeOK, SetLock, Goto, Lock, InCall
  <2> QED
    BY <1>9, <2>1, OwnedByQuietStep DEF SetLock
<1>10. ASSUME NEW t \in Threads, SetWrite(t) PROVE DescriptorsOwned'
  <2>1. \A u \in Threads : Keeps(u)
    BY <1>10 DEF Keeps, TypeOK, SetWrite, Goto, InCall, Return, Unlock
  <2>2. UNCHANGED eventfd
    BY <1>10 DEF SetWrite
  <2>3. \A fd \in Fds : counter'[fd] = Closed <=> counter[fd] = Closed
    BY <1>10 DEF TypeOK, SetWrite, WriteSucceeds, Closed
  <2> QED
    BY <2>1, <2>2, <2>3, OwnedByQuietStep
<1>11. ASSUME NEW t \in Threads, SetFlag(t) PROVE DescriptorsOwned'
  <2>1. \A u \in Threads : Keeps(u)
    BY <1>11 DEF Keeps, TypeOK, SetFlag, Goto, InCall
  <2> QED
    BY <1>11, <2>1, OwnedByQuietStep DEF SetFlag
<1>12. ASSUME NEW t \in Threads, SetUnlock(t) PROVE DescriptorsOwned'
  <2>1. \A u \in Threads : Keeps(u)
    BY <1>12 DEF Keeps, TypeOK, SetUnlock, Return, Unlock
  <2> QED
    BY <1>12, <2>1, OwnedByQuietStep DEF SetUnlock
<1>13. ASSUME NEW t \in Threads, ResetLock(t) PROVE DescriptorsOwned'
  <2>1. \A u \in Threads : Keeps(u)
    BY <1>13 DEF Keeps, TypeOK, ResetLock, Goto, Lock, InCall
  <2> QED
    BY <1>13, <2>1, OwnedByQuietStep DEF ResetLock
<1>14. ASSUME NEW t \in Threads, ResetDrain(t) PROVE DescriptorsOwned'
  <2>1. \A u \in Threads : Keeps(u)
    BY <1>14 DEF Keeps, TypeOK, ResetDrain, Goto, InCall
  <2>2. counter[eventfd[hEvent[t]]] # Closed
    BY <1>14, HeldIsUsable DEF ResetDrain, DescriptorsOwned, FdsOf
  <2>3. \A fd \in Fds : counter'[fd] = Closed <=> counter[fd] = Closed
    BY <1>14, <2>2 DEF TypeOK, ResetDrain, Closed
  <2> QED
    BY <1>14, <2>1, <2>3, OwnedByQuietStep DEF ResetDrain
<1>15. ASSUME NEW t \in Threads, ResetFlag(t) PROVE DescriptorsOwned'
  <2>1. \A u \in Threads : Keeps(u)
    BY <1>15 DEF Keeps, TypeOK, ResetFlag, Goto, InCall
  <2> QED
    BY <1>15, <2>1, OwnedByQuietStep DEF ResetFlag
<1>16. ASSUME NEW t \in Threads, ResetUnlock(t) PROVE DescriptorsOwned'
  <2>1. \A u \in Threads : Keeps(u)
    BY <1>16 DEF Keeps, TypeOK, ResetUnlock, Return, Unlock
  <2> QED
    BY <1>16, <2>1, OwnedByQuietStep DEF ResetUnlock
<1>17. ASSUME NEW t \in Threads, WaitBegin(t) PROVE DescriptorsOwned'
  <2>1. \A u \in Threads : Keeps(u)
    BY <1>17 DEF Keeps, TypeOK, WaitBegin, Call, Goto
  <2> QED
    BY <1>17, <2>1, OwnedByQuietStep DEF WaitBegin
<1>18. ASSUME NEW t \in Threads, SelectPoll(t) PROVE DescriptorsOwned'
  <2>1. \A u \in Threads : Keeps(u)
    BY <1>18 DEF Keeps, TypeOK, SelectPoll
  <2> QED
    BY <1>18, <2>1, OwnedByQuietStep DEF SelectPoll
<1>19. ASSUME NEW t \in Threads, SelectWake(t) PROVE DescriptorsOwned'
  <2>1. \A u \in Threads : Keeps(u)
    BY <1>19 DEF Keeps, TypeOK, SelectWake
  <2> QED
    BY <1>19, <2>1, OwnedByQuietStep DEF SelectWake
<1>20. ASSUME NEW t \in Threads, WaitReturn(t) PROVE DescriptorsOwned'
  <2>1. \A u \in Threads : Keeps(u)
    BY <1>20 DEF Keeps, TypeOK, WaitReturn, Return
  <2> QED
    BY <1>20, <2>1, OwnedByQuietStep DEF WaitReturn
<1>21. ASSUME NEW t \in Threads, WaitTimeout(t) PROVE DescriptorsOwned'
  <2>1. \A u \in Threads : Keeps(u)
    BY <1>21 DEF Keeps, TypeOK, ScannedWithNone, WaitTimeout, Return
  <2> QED
    BY <1>21, <2>1, OwnedByQuietStep DEF WaitTimeout
<1>22. ASSUME NEW t \in Threads, WaitInterrupted(t) PROVE DescriptorsOwned'
  <2>1. \A u \in Threads : Keeps(u)
    BY <1>22 DEF Keeps, TypeOK, ScannedWithNone, WaitInterrupted, Return
  <2> QED
    BY <1>22, <2>1, OwnedByQuietStep DEF WaitInterrupted
<1> QED
  BY <1>1, <1>2, <1>3, <1>4, <1>5, <1>6, <1>7, <1>8, <1>9, <1>10, <1>11, <1>12, <1>13, <1>14, <1>15, <1>16, <1>17, <1>18, <1>19, <1>20, <1>21, <1>22
     DEF Next, Begin, Step, CreateEventfdFails, CloseSetOrResetNull, SetEvent, ResetEvent,
         WaitRefused

(***************************************************************************)
(* Flag and counter.                                                       *)
(***************************************************************************)
(* The thread between lock and unlock of an event is the only one there.   *)
LEMMA HolderIsAlone ==
  ASSUME MutexHeld, NEW t \in Threads, NEW u \in Threads, hEvent[t] \in Events,
         pc[t] \in HoldingPCs, pc[u] \in HoldingPCs, hEvent[t] = hEvent[u]
  PROVE  t = u
  BY DEF MutexHeld

(* A step that touches the flag and the counter of no usable event, and    *)
(* the pc of no thread midway, keeps them in step.                         *)
LEMMA FlagUntouched ==
  ASSUME FlagOrMidway, Usable' \subseteq Usable, Usable \subseteq Events,
         \A f \in Usable' : /\ eventfd'[f] = eventfd[f]
                            /\ counter'[eventfd[f]] = counter[eventfd[f]]
                            /\ signaled'[f] = signaled[f],
         \A u \in Threads, e \in Events :
           /\ Between(u, e)' <=> Between(u, e)
           /\ Between(u, e) => pc'[u] = pc[u],
         \A u \in Creators' : counter'[efd'[u]] = 0
  PROVE  FlagOrMidway'
<1>1. ASSUME NEW e \in Usable'
      PROVE  (\E u \in Threads : Between(u, e)') <=> (\E u \in Threads : Between(u, e))
  BY <1>1
<1>2. ASSUME NEW e \in Usable', NEW u \in Threads, Between(u, e)'
      PROVE  signaled[e] <=> pc'[u] = "reset_flag"
  BY <1>2 DEF FlagOrMidway
<1> QED
  BY <1>1, <1>2 DEF FlagOrMidway

(* A quiet step that touches neither keeps flag and counter in step.       *)
LEMMA FlagByQuietStep ==
  ASSUME FlagOrMidway, UNCHANGED <<eventfd, counter, signaled>>,
         \A u \in Threads : Keeps(u),
         \A u \in Threads, e \in Events :
           /\ Between(u, e)' <=> Between(u, e)
           /\ Between(u, e) => pc'[u] = pc[u]
  PROVE  FlagOrMidway'
<1>1. Usable' = Usable /\ Usable \subseteq Events
  BY QuietStep DEF Usable, Live
<1>2. \A u \in Creators' : counter'[efd'[u]] = 0
  BY QuietStep DEF FlagOrMidway
<1> QED
  BY <1>1, <1>2, FlagUntouched

(* A step of t on the event it holds keeps the other events as they are,   *)
(* and this one as long as flag and counter end up equal or t is midway.   *)
LEMMA FlagByHolder ==
  ASSUME TypeOK, LocalsMatchPC, UsedAreLive, MutexHeld, DescriptorsOwned, FlagOrMidway,
         NEW t \in Threads, pc[t] \in HoldingPCs, UNCHANGED <<eventfd, hEvent, efd>>,
         NEW l \in SettingPCs \cup ResettingPCs, pc' = [pc EXCEPT ![t] = l],
         \A fd \in Fds \ {eventfd[hEvent[t]]} : counter'[fd] = counter[fd],
         \A f \in Events \ {hEvent[t]} : signaled'[f] = signaled[f],
         counter'[eventfd[hEvent[t]]] \in {0, 1},
         l = "set_flag" => ~signaled'[hEvent[t]] /\ counter'[eventfd[hEvent[t]]] = 1,
         l = "reset_flag" => signaled'[hEvent[t]] /\ counter'[eventfd[hEvent[t]]] = 0,
         l \notin {"set_flag", "reset_flag"} =>
           (signaled'[hEvent[t]] <=> counter'[eventfd[hEvent[t]]] = 1)
  PROVE  FlagOrMidway'
<1> DEFINE x == hEvent[t]
<1> USE DEF HoldingPCs, EventPCs, SettingPCs, ResettingPCs
<1>1. x \in Usable /\ x \in Events /\ eventfd[x] \in Fds
  BY HeldIsUsable
<1>2. \A u \in Threads : Keeps(u)
  BY DEF Keeps, TypeOK
<1>3. /\ Usable' = Usable /\ Usable \subseteq Events /\ \A f \in Usable : eventfd[f] \in Fds
      /\ Creators' = Creators
  BY <1>2, QuietStep DEF Usable, Live, TypeOK
<1>4. \A u \in Threads \ {t} : ~Between(u, x) /\ ~Between(u, x)'
  BY <1>1, HolderIsAlone DEF Between, TypeOK
<1>5. \A u \in Threads \ {t} : pc'[u] = pc[u]
  BY DEF TypeOK
<1>6. Between(t, x)' <=> l \in {"set_flag", "reset_flag"}
  BY DEF Between, TypeOK
<1>7. ASSUME NEW f \in Usable \ {x}
      PROVE  /\ counter'[eventfd[f]] = counter[eventfd[f]] /\ signaled'[f] = signaled[f]
             /\ \A u \in Threads : Between(u, f)' <=> Between(u, f)
             /\ \A u \in Threads : Between(u, f) => u # t
  BY <1>1, <1>3, <1>5 DEF DescriptorsOwned, Between
<1>8. ASSUME NEW f \in Usable \ {x}
      PROVE  /\ counter'[eventfd[f]] \in {0, 1}
             /\ signaled'[f] <=> (counter'[eventfd[f]] = 1
                                    <=> ~ \E u \in Threads : Between(u, f)')
             /\ \A u \in Threads : Between(u, f)' => (signaled'[f] <=> pc'[u] = "reset_flag")
  BY <1>5, <1>7 DEF FlagOrMidway
<1>9. /\ signaled'[x] <=> (counter'[eventfd[x]] = 1 <=> ~ \E u \in Threads : Between(u, x)')
      /\ \A u \in Threads : Between(u, x)' => (signaled'[x] <=> pc'[u] = "reset_flag")
  BY <1>4, <1>6 DEF TypeOK
<1>10. \A u \in Creators : counter'[efd[u]] = 0
  BY <1>1 DEF FlagOrMidway, DescriptorsOwned, FdsOf, Creators, TypeOK, LocalsMatchPC
<1> QED
  BY <1>3, <1>8, <1>9, <1>10 DEF FlagOrMidway

(* Flag and counter of an event change one after the other, under its mutex. *)
LEMMA FlagStep == TypeOK /\ LocalsMatchPC /\ UsedAreLive /\ MutexHeld /\ DescriptorsOwned /\ FlagOrMidway /\ [Next]_vars => FlagOrMidway'
<1> SUFFICES ASSUME TypeOK, LocalsMatchPC, UsedAreLive, MutexHeld, DescriptorsOwned, FlagOrMidway, [Next]_vars PROVE FlagOrMidway'
  OBVIOUS
<1> USE DEF memory, locals, PCs, EventPCs, SettingPCs, ResettingPCs, HoldingPCs
<1>1. CASE UNCHANGED vars
  <2>1. \A u \in Threads : Keeps(u)
    BY <1>1 DEF Keeps, TypeOK, vars
  <2>2. \A u \in Threads, e \in Events : (Between(u, e)' <=> Between(u, e))
                                         /\ (Between(u, e) => pc'[u] = pc[u])
    BY <1>1 DEF Between, TypeOK, vars
  <2> QED
    BY <1>1, <2>1, <2>2, FlagByQuietStep DEF vars
<1>2. ASSUME NEW t \in Threads, NEW r, NEW err, Refuse(t, r, err) PROVE FlagOrMidway'
  <2>1. \A u \in Threads : Keeps(u)
    BY <1>2 DEF Keeps, TypeOK, Refuse, Return
  <2>2. \A u \in Threads, e \in Events : (Between(u, e)' <=> Between(u, e))
                                         /\ (Between(u, e) => pc'[u] = pc[u])
    BY <1>2 DEF Between, TypeOK, Refuse, Return
  <2> QED
    BY <1>2, <2>1, <2>2, FlagByQuietStep DEF Refuse
<1>3. ASSUME NEW t \in Threads, NEW l \in {"set_lock", "reset_lock"}, CallOnEvent(t, l)
      PROVE  FlagOrMidway'
  <2>1. \A u \in Threads : Keeps(u)
    BY <1>3 DEF Keeps, TypeOK, CallOnEvent, Call, Goto
  <2>2. \A u \in Threads, e \in Events : (Between(u, e)' <=> Between(u, e))
                                         /\ (Between(u, e) => pc'[u] = pc[u])
    BY <1>3 DEF Between, TypeOK, CallOnEvent, Call, Goto
  <2> QED
    BY <1>3, <2>1, <2>2, FlagByQuietStep DEF CallOnEvent
<1>4. ASSUME NEW t \in Threads, CreateEventfd(t) PROVE FlagOrMidway'
  <2>1. \A u \in Threads, e \in Events : (Between(u, e)' <=> Between(u, e))
                                         /\ (Between(u, e) => pc'[u] = pc[u])
    BY <1>4 DEF Between, TypeOK, CreateEventfd, Call, Goto
  <2>2. Usable \subseteq Events /\ \A f \in Usable : eventfd[f] \in Fds
    BY DEF Usable, Live, TypeOK
  <2>3. UNCHANGED <<eventfd, signaled>>
    BY <1>4 DEF CreateEventfd
  <2>4. /\ Usable' \subseteq Usable
        /\ \A f \in Usable' : /\ eventfd'[f] = eventfd[f]
                               /\ counter'[eventfd[f]] = counter[eventfd[f]]
                               /\ signaled'[f] = signaled[f]
    BY <1>4, <2>2, <2>3, CreateEventfdEffect DEF DescriptorsOwned, FdsOf, TypeOK
  <2>5. \A u \in Creators' : counter'[efd'[u]] = 0
    BY <1>4, <2>2, <2>3, CreateEventfdEffect DEF FlagOrMidway, DescriptorsOwned, FdsOf, Creators, TypeOK, LocalsMatchPC
  <2> QED
    BY <2>1, <2>2, <2>4, <2>5, FlagUntouched
<1>5. ASSUME NEW t \in Threads, CreateMalloc(t) PROVE FlagOrMidway'
  <2>1. \A u \in Threads, e \in Events : (Between(u, e)' <=> Between(u, e))
                                         /\ (Between(u, e) => pc'[u] = pc[u])
    BY <1>5 DEF Between, TypeOK, CreateMalloc, Return
  <2>2. PICK e \in Events :
          /\ Usable' = Usable \cup {e} /\ e \notin Usable
          /\ t \in Creators /\ Creators' = Creators \ {t}
          /\ \A u \in Creators' : efd'[u] = efd[u]
          /\ eventfd'[e] = efd[t] /\ \A f \in Usable : eventfd'[f] = eventfd[f]
          /\ ~signaled'[e] /\ \A f \in Usable : signaled'[f] = signaled[f]
          /\ \A u \in Threads : hEvent[u] # e /\ hEvent'[u] # e
    BY <1>5, CreateMallocEffect
  <2>3. UNCHANGED counter
    BY <1>5 DEF CreateMalloc
  <2>4. \A u \in Threads : ~Between(u, e)'
    BY <2>2 DEF Between
  <2>5. counter'[eventfd'[e]] = 0
    BY <2>2, <2>3 DEF FlagOrMidway
  <2>6. Usable \subseteq Events
    BY DEF Usable, Live
  <2>7. ASSUME NEW f \in Usable
        PROVE  /\ counter'[eventfd'[f]] \in {0, 1}
               /\ signaled'[f] <=> (counter'[eventfd'[f]] = 1
                                      <=> ~ \E u \in Threads : Between(u, f)')
               /\ \A u \in Threads : Between(u, f)' => (signaled'[f] <=> pc'[u] = "reset_flag")
    BY <2>1, <2>2, <2>3, <2>6 DEF FlagOrMidway
  <2>8. \A u \in Creators' : counter'[efd'[u]] = 0
    BY <2>2, <2>3 DEF FlagOrMidway
  <2> QED
    BY <2>2, <2>4, <2>5, <2>7, <2>8 DEF FlagOrMidway
<1>6. ASSUME NEW t \in Threads, CreateMallocFails(t) PROVE FlagOrMidway'
  <2>1. \A u \in Threads, e \in Events : (Between(u, e)' <=> Between(u, e))
                                         /\ (Between(u, e) => pc'[u] = pc[u])
    BY <1>6 DEF Between, TypeOK, CreateMallocFails, Return
  <2>2. Usable \subseteq Events /\ \A f \in Usable : eventfd[f] \in Fds
    BY DEF Usable, Live, TypeOK
  <2>3. UNCHANGED <<eventfd, signaled>>
    BY <1>6 DEF CreateMallocFails
  <2>4. /\ Usable' \subseteq Usable
        /\ \A f \in Usable' : /\ eventfd'[f] = eventfd[f]
                               /\ counter'[eventfd[f]] = counter[eventfd[f]]
                               /\ signaled'[f] = signaled[f]
    BY <1>6, <2>2, <2>3, CreateMallocFailsEffect DEF DescriptorsOwned, FdsOf, TypeOK
  <2>5. \A u \in Creators' : counter'[efd'[u]] = 0
    BY <1>6, <2>2, <2>3, CreateMallocFailsEffect DEF FlagOrMidway, DescriptorsOwned, FdsOf, Creators, TypeOK, LocalsMatchPC
  <2> QED
    BY <2>1, <2>2, <2>4, <2>5, FlagUntouched
<1>7. ASSUME NEW t \in Threads, CloseEventfd(t) PROVE FlagOrMidway'
  <2>1. \A u \in Threads, e \in Events : (Between(u, e)' <=> Between(u, e))
                                         /\ (Between(u, e) => pc'[u] = pc[u])
    BY <1>7 DEF Between, TypeOK, CloseEventfd, Call, Goto
  <2>2. Usable \subseteq Events /\ \A f \in Usable : eventfd[f] \in Fds
    BY DEF Usable, Live, TypeOK
  <2>3. UNCHANGED <<eventfd, signaled>>
    BY <1>7 DEF CloseEventfd
  <2>4. /\ Usable' \subseteq Usable
        /\ \A f \in Usable' : /\ eventfd'[f] = eventfd[f]
                               /\ counter'[eventfd[f]] = counter[eventfd[f]]
                               /\ signaled'[f] = signaled[f]
    BY <1>7, <2>2, <2>3, CloseEventfdEffect DEF DescriptorsOwned, FdsOf, TypeOK
  <2>5. \A u \in Creators' : counter'[efd'[u]] = 0
    BY <1>7, <2>2, <2>3, CloseEventfdEffect DEF FlagOrMidway, DescriptorsOwned, FdsOf, Creators, TypeOK, LocalsMatchPC
  <2> QED
    BY <2>1, <2>2, <2>4, <2>5, FlagUntouched
<1>8. ASSUME NEW t \in Threads, CloseFree(t) PROVE FlagOrMidway'
  <2>1. \A u \in Threads, e \in Events : (Between(u, e)' <=> Between(u, e))
                                         /\ (Between(u, e) => pc'[u] = pc[u])
    BY <1>8 DEF Between, TypeOK, CloseFree, Return
  <2>2. Usable \subseteq Events /\ \A f \in Usable : eventfd[f] \in Fds
    BY DEF Usable, Live, TypeOK
  <2>3. UNCHANGED <<counter>>
    BY <1>8 DEF CloseFree
  <2>4. /\ Usable' \subseteq Usable
        /\ \A f \in Usable' : /\ eventfd'[f] = eventfd[f]
                               /\ counter'[eventfd[f]] = counter[eventfd[f]]
                               /\ signaled'[f] = signaled[f]
    BY <1>8, <2>2, <2>3, CloseFreeEffect DEF DescriptorsOwned, FdsOf, TypeOK
  <2>5. \A u \in Creators' : counter'[efd'[u]] = 0
    BY <1>8, <2>2, <2>3, CloseFreeEffect DEF FlagOrMidway, DescriptorsOwned, FdsOf, Creators, TypeOK, LocalsMatchPC
  <2> QED
    BY <2>1, <2>2, <2>4, <2>5, FlagUntouched
<1>9. ASSUME NEW t \in Threads, SetLock(t) PROVE FlagOrMidway'
  <2>1. \A u \in Threads : Keeps(u)
    BY <1>9 DEF Keeps, TypeOK, SetLock, Goto, Lock, InCall
  <2>2. \A u \in Threads, e \in Events : (Between(u, e)' <=> Between(u, e))
                                         /\ (Between(u, e) => pc'[u] = pc[u])
    BY <1>9 DEF Between, TypeOK, SetLock, Goto, Lock, InCall
  <2> QED
    BY <1>9, <2>1, <2>2, FlagByQuietStep DEF SetLock
<1>10. ASSUME NEW t \in Threads, SetWrite(t) PROVE FlagOrMidway'
  <2>1. pc[t] \in HoldingPCs /\ hEvent[t] \in Usable /\ hEvent[t] \in Events
        /\ eventfd[hEvent[t]] \in Fds
    BY <1>10, HeldIsUsable DEF SetWrite, Goto
  <2>2. \A u \in Threads \ {t} : ~Between(u, hEvent[t])
    BY <2>1, HolderIsAlone DEF Between
  <2>3. signaled[hEvent[t]] <=> counter[eventfd[hEvent[t]]] = 1
    BY <1>10, <2>1, <2>2 DEF SetWrite, FlagOrMidway, Between
  <2>4. counter[eventfd[hEvent[t]]] \in {0, 1} /\ counter \in [Fds -> {Closed} \cup 0..EventfdMax]
    BY <2>1 DEF FlagOrMidway, TypeOK
  <2>5. CASE signaled[hEvent[t]]
    <3>1. pc' = [pc EXCEPT ![t] = "set_unlock"] /\ UNCHANGED <<counter, eventfd, signaled, hEvent, efd>>
      BY <1>10, <2>5 DEF SetWrite, Goto, InCall
    <3> QED
      BY <2>1, <2>3, <2>4, <2>5, <3>1, FlagByHolder
  <2>6. CASE ~signaled[hEvent[t]]
    <3>1. counter[eventfd[hEvent[t]]] = 0
      BY <2>3, <2>4, <2>6
    <3>2. WriteSucceeds(eventfd[hEvent[t]])
      BY <3>1, EventfdMaxAssumption DEF WriteSucceeds
    <3>3. /\ counter' = [counter EXCEPT ![eventfd[hEvent[t]]] = @ + 1]
          /\ pc' = [pc EXCEPT ![t] = "set_flag"] /\ UNCHANGED <<eventfd, signaled, hEvent, efd>>
      BY <1>10, <2>6, <3>2 DEF SetWrite, Goto, InCall
    <3>4. /\ counter'[eventfd[hEvent[t]]] = 1
          /\ \A fd \in Fds \ {eventfd[hEvent[t]]} : counter'[fd] = counter[fd]
      BY <2>1, <2>4, <3>1, <3>3
    <3> QED
      BY <2>1, <2>6, <3>3, <3>4, FlagByHolder
  <2> QED
    BY <2>5, <2>6
<1>11. ASSUME NEW t \in Threads, SetFlag(t) PROVE FlagOrMidway'
  <2>1. pc[t] \in HoldingPCs /\ hEvent[t] \in Usable /\ hEvent[t] \in Events
        /\ eventfd[hEvent[t]] \in Fds
    BY <1>11, HeldIsUsable DEF SetFlag, Goto
  <2>2. \A u \in Threads \ {t} : ~Between(u, hEvent[t])
    BY <2>1, HolderIsAlone DEF Between
  <2>3. counter[eventfd[hEvent[t]]] = 1
    BY <1>11, <2>1 DEF SetFlag, Goto, FlagOrMidway, Between
  <2>4. /\ pc' = [pc EXCEPT ![t] = "set_unlock"]
        /\ signaled' = [signaled EXCEPT ![hEvent[t]] = TRUE]
        /\ UNCHANGED <<counter, eventfd, hEvent, efd>>
    BY <1>11 DEF SetFlag, Goto, InCall
  <2>5. signaled'[hEvent[t]] /\ \A f \in Events \ {hEvent[t]} : signaled'[f] = signaled[f]
    BY <2>1, <2>4 DEF TypeOK
  <2> QED
    BY <2>1, <2>3, <2>4, <2>5, FlagByHolder
<1>12. ASSUME NEW t \in Threads, SetUnlock(t) PROVE FlagOrMidway'
  <2>1. \A u \in Threads : Keeps(u)
    BY <1>12 DEF Keeps, TypeOK, SetUnlock, Return, Unlock
  <2>2. \A u \in Threads, e \in Events : (Between(u, e)' <=> Between(u, e))
                                         /\ (Between(u, e) => pc'[u] = pc[u])
    BY <1>12 DEF Between, TypeOK, SetUnlock, Return, Unlock
  <2> QED
    BY <1>12, <2>1, <2>2, FlagByQuietStep DEF SetUnlock
<1>13. ASSUME NEW t \in Threads, ResetLock(t) PROVE FlagOrMidway'
  <2>1. \A u \in Threads : Keeps(u)
    BY <1>13 DEF Keeps, TypeOK, ResetLock, Goto, Lock, InCall
  <2>2. \A u \in Threads, e \in Events : (Between(u, e)' <=> Between(u, e))
                                         /\ (Between(u, e) => pc'[u] = pc[u])
    BY <1>13 DEF Between, TypeOK, ResetLock, Goto, Lock, InCall
  <2> QED
    BY <1>13, <2>1, <2>2, FlagByQuietStep DEF ResetLock
<1>14. ASSUME NEW t \in Threads, ResetDrain(t) PROVE FlagOrMidway'
  <2>1. pc[t] \in HoldingPCs /\ hEvent[t] \in Usable /\ hEvent[t] \in Events
        /\ eventfd[hEvent[t]] \in Fds
    BY <1>14, HeldIsUsable DEF ResetDrain
  <2>2. \A u \in Threads \ {t} : ~Between(u, hEvent[t])
    BY <2>1, HolderIsAlone DEF Between
  <2>3. signaled[hEvent[t]] <=> counter[eventfd[hEvent[t]]] = 1
    BY <1>14, <2>1, <2>2 DEF ResetDrain, FlagOrMidway, Between
  <2>4. counter[eventfd[hEvent[t]]] \in {0, 1} /\ counter \in [Fds -> {Closed} \cup 0..EventfdMax]
    BY <2>1 DEF FlagOrMidway, TypeOK
  <2>5. UNCHANGED <<eventfd, signaled, hEvent, efd>>
    BY <1>14 DEF ResetDrain, InCall
  <2>6. CASE ~signaled[hEvent[t]]
    BY <1>14, <2>1, <2>3, <2>4, <2>5, <2>6, FlagByHolder DEF ResetDrain, Goto
  <2>7. CASE signaled[hEvent[t]]
    <3>1. /\ counter' = [counter EXCEPT ![eventfd[hEvent[t]]] = 0]
          /\ pc' = [pc EXCEPT ![t] = "reset_flag"]
      BY <1>14, <2>7 DEF ResetDrain, Goto
    <3>2. /\ counter'[eventfd[hEvent[t]]] = 0
          /\ \A fd \in Fds \ {eventfd[hEvent[t]]} : counter'[fd] = counter[fd]
      BY <2>1, <2>4, <3>1
    <3> QED
      BY <2>1, <2>5, <2>7, <3>1, <3>2, FlagByHolder
  <2> QED
    BY <2>6, <2>7
<1>15. ASSUME NEW t \in Threads, ResetFlag(t) PROVE FlagOrMidway'
  <2>1. pc[t] \in HoldingPCs /\ hEvent[t] \in Usable /\ hEvent[t] \in Events
        /\ eventfd[hEvent[t]] \in Fds
    BY <1>15, HeldIsUsable DEF ResetFlag, Goto
  <2>2. \A u \in Threads \ {t} : ~Between(u, hEvent[t])
    BY <2>1, HolderIsAlone DEF Between
  <2>3. counter[eventfd[hEvent[t]]] = 0
    BY <1>15, <2>1 DEF ResetFlag, Goto, FlagOrMidway, Between
  <2>4. /\ pc' = [pc EXCEPT ![t] = "reset_unlock"]
        /\ signaled' = [signaled EXCEPT ![hEvent[t]] = FALSE]
        /\ UNCHANGED <<counter, eventfd, hEvent, efd>>
    BY <1>15 DEF ResetFlag, Goto, InCall
  <2>5. ~signaled'[hEvent[t]] /\ \A f \in Events \ {hEvent[t]} : signaled'[f] = signaled[f]
    BY <2>1, <2>4 DEF TypeOK
  <2>6. /\ counter'[eventfd[hEvent[t]]] = 0
        /\ signaled'[hEvent[t]] <=> counter'[eventfd[hEvent[t]]] = 1
        /\ \A fd \in Fds \ {eventfd[hEvent[t]]} : counter'[fd] = counter[fd]
    BY <2>3, <2>4, <2>5
  <2> QED
    BY <2>1, <2>4, <2>5, <2>6, FlagByHolder
<1>16. ASSUME NEW t \in Threads, ResetUnlock(t) PROVE FlagOrMidway'
  <2>1. \A u \in Threads : Keeps(u)
    BY <1>16 DEF Keeps, TypeOK, ResetUnlock, Return, Unlock
  <2>2. \A u \in Threads, e \in Events : (Between(u, e)' <=> Between(u, e))
                                         /\ (Between(u, e) => pc'[u] = pc[u])
    BY <1>16 DEF Between, TypeOK, ResetUnlock, Return, Unlock
  <2> QED
    BY <1>16, <2>1, <2>2, FlagByQuietStep DEF ResetUnlock
<1>17. ASSUME NEW t \in Threads, WaitBegin(t) PROVE FlagOrMidway'
  <2>1. \A u \in Threads : Keeps(u)
    BY <1>17 DEF Keeps, TypeOK, WaitBegin, Call, Goto
  <2>2. \A u \in Threads, e \in Events : (Between(u, e)' <=> Between(u, e))
                                         /\ (Between(u, e) => pc'[u] = pc[u])
    BY <1>17 DEF Between, TypeOK, WaitBegin, Call, Goto
  <2> QED
    BY <1>17, <2>1, <2>2, FlagByQuietStep DEF WaitBegin
<1>18. ASSUME NEW t \in Threads, SelectPoll(t) PROVE FlagOrMidway'
  <2>1. \A u \in Threads : Keeps(u)
    BY <1>18 DEF Keeps, TypeOK, SelectPoll
  <2>2. \A u \in Threads, e \in Events : (Between(u, e)' <=> Between(u, e))
                                         /\ (Between(u, e) => pc'[u] = pc[u])
    BY <1>18 DEF Between, TypeOK, SelectPoll
  <2> QED
    BY <1>18, <2>1, <2>2, FlagByQuietStep DEF SelectPoll
<1>19. ASSUME NEW t \in Threads, SelectWake(t) PROVE FlagOrMidway'
  <2>1. \A u \in Threads : Keeps(u)
    BY <1>19 DEF Keeps, TypeOK, SelectWake
  <2>2. \A u \in Threads, e \in Events : (Between(u, e)' <=> Between(u, e))
                                         /\ (Between(u, e) => pc'[u] = pc[u])
    BY <1>19 DEF Between, TypeOK, SelectWake
  <2> QED
    BY <1>19, <2>1, <2>2, FlagByQuietStep DEF SelectWake
<1>20. ASSUME NEW t \in Threads, WaitReturn(t) PROVE FlagOrMidway'
  <2>1. \A u \in Threads : Keeps(u)
    BY <1>20 DEF Keeps, TypeOK, WaitReturn, Return
  <2>2. \A u \in Threads, e \in Events : (Between(u, e)' <=> Between(u, e))
                                         /\ (Between(u, e) => pc'[u] = pc[u])
    BY <1>20 DEF Between, TypeOK, WaitReturn, Return
  <2> QED
    BY <1>20, <2>1, <2>2, FlagByQuietStep DEF WaitReturn
<1>21. ASSUME NEW t \in Threads, WaitTimeout(t) PROVE FlagOrMidway'
  <2>1. \A u \in Threads : Keeps(u)
    BY <1>21 DEF Keeps, TypeOK, ScannedWithNone, WaitTimeout, Return
  <2>2. \A u \in Threads, e \in Events : (Between(u, e)' <=> Between(u, e))
                                         /\ (Between(u, e) => pc'[u] = pc[u])
    BY <1>21 DEF Between, TypeOK, ScannedWithNone, WaitTimeout, Return
  <2> QED
    BY <1>21, <2>1, <2>2, FlagByQuietStep DEF WaitTimeout
<1>22. ASSUME NEW t \in Threads, WaitInterrupted(t) PROVE FlagOrMidway'
  <2>1. \A u \in Threads : Keeps(u)
    BY <1>22 DEF Keeps, TypeOK, ScannedWithNone, WaitInterrupted, Return
  <2>2. \A u \in Threads, e \in Events : (Between(u, e)' <=> Between(u, e))
                                         /\ (Between(u, e) => pc'[u] = pc[u])
    BY <1>22 DEF Between, TypeOK, ScannedWithNone, WaitInterrupted, Return
  <2> QED
    BY <1>22, <2>1, <2>2, FlagByQuietStep DEF WaitInterrupted
<1> QED
  BY <1>1, <1>2, <1>3, <1>4, <1>5, <1>6, <1>7, <1>8, <1>9, <1>10, <1>11, <1>12, <1>13, <1>14, <1>15, <1>16, <1>17, <1>18, <1>19, <1>20, <1>21, <1>22
     DEF Next, Begin, Step, CreateEventfdFails, CloseSetOrResetNull, SetEvent, ResetEvent,
         WaitRefused

(***************************************************************************)
(* The theorems.                                                           *)
(***************************************************************************)
(* The inductive invariant holds in every reachable state.                 *)
THEOREM Invariance == Spec => []Inv
<1>1. Init => Inv
  <2> SUFFICES ASSUME Init PROVE Inv
    OBVIOUS
  <2>1. \A t \in Threads, e \in Events : ~Uses(t, e)
    BY EmptyHasNoMembers, NullAssumption DEF Init, Uses
  <2>2. Usable = {} /\ Creators = {}
    BY DEF Init, Usable, Live, Creators
  <2>3. TypeOK
    BY EmptyArray DEF Init, TypeOK, PCs, Results, Errors
  <2>4. LocalsMatchPC
    BY DEF Init, LocalsMatchPC, EventPCs, SettingPCs, ResettingPCs
  <2>5. MutexHeld
    BY NullAssumption DEF Init, MutexHeld, HoldingPCs, SettingPCs, ResettingPCs
  <2> QED
    BY <2>1, <2>2, <2>3, <2>4, <2>5
       DEF Inv, UsedAreLive, FlagOrMidway, DescriptorsOwned, FdsOf, Init
<1>2. Inv /\ [Next]_vars => Inv'
  BY TypeStep, LocalsStep, UsedStep, MutexStep, OwnedStep, FlagStep DEF Inv
<1> QED
  BY <1>1, <1>2, PTL DEF Spec

(* Every variable keeps its type: no wait holds more handles than the      *)
(* limit or a NULL one, and no counter leaves its range.                   *)
THEOREM TypeCorrect == Spec => []TypeOK
<1>1. Inv => TypeOK
  BY DEF Inv
<1> QED
  BY <1>1, Invariance, PTL

(* While nobody holds an event's mutex, its flag says whether its          *)
(* descriptor is readable; and a write() to it never fails.                *)
THEOREM FlagAgrees == Spec => []FlagMatchesCounter
<1>1. Inv => FlagMatchesCounter
  <2> SUFFICES ASSUME Inv, NEW e \in Usable, mutex[e] = NULL
               PROVE  \A t \in Threads : ~Between(t, e)
    BY DEF Inv, FlagMatchesCounter, FlagOrMidway
  <2>1. e \in Events
    BY DEF Usable, Live
  <2> SUFFICES ASSUME NEW t \in Threads, Between(t, e)
               PROVE  FALSE
    OBVIOUS
  <2>2. pc[t] \in HoldingPCs /\ hEvent[t] = e
    BY DEF Between, HoldingPCs, SettingPCs, ResettingPCs
  <2>3. mutex[e] = t
    BY <2>1, <2>2 DEF Inv, MutexHeld
  <2> QED
    BY <2>3, NullAssumption
<1> QED
  BY <1>1, Invariance, PTL

(* No path of the event functions leaks a descriptor, closes one twice or  *)
(* lets two events share one.                                              *)
THEOREM NoDescriptorLost == Spec => []DescriptorsOwned
<1>1. Inv => DescriptorsOwned
  BY DEF Inv
<1> QED
  BY <1>1, Invariance, PTL
=============================================================================
