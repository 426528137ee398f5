----------------------- MODULE ManualResetEvent_proofs -----------------------
(***************************************************************************)
(* The event functions of wsa_events.c, as module WSAEvents has them,      *)
(* implement ManualResetEvent, for any number of threads, events and       *)
(* descriptors and any limit on the length of a wait.                      *)
(***************************************************************************)
EXTENDS WSAEvents_proofs

(* Outside a wait a thread has found nothing readable.                     *)
NothingRead == \A t \in Threads : pc[t] # "select" => readfds[t] = {}

RefInv == Inv /\ NothingRead

(* A wait clears what it read when it returns, and nobody else reads.      *)
LEMMA NothingReadStep == TypeOK /\ NothingRead /\ [Next]_vars => NothingRead'
<1> SUFFICES ASSUME TypeOK, NothingRead, [Next]_vars PROVE NothingRead'
  OBVIOUS
<1>1. ASSUME NEW t \in Threads, NEW r, NEW err, Return(t, r, err) PROVE NothingRead'
  BY <1>1 DEF Return, NothingRead, TypeOK
<1>2. ASSUME NEW t \in Threads, NEW to, pc' = [pc EXCEPT ![t] = to], pc[t] # "select",
             UNCHANGED readfds
      PROVE  NothingRead'
  BY <1>2 DEF NothingRead, TypeOK
<1>3. CASE UNCHANGED vars
  BY <1>3 DEF vars, locals, NothingRead
<1>4. ASSUME NEW t \in Threads, Begin(t) PROVE NothingRead'
  <2>1. ASSUME NEW to, Call(t, to), UNCHANGED readfds PROVE NothingRead'
    BY <1>2, <2>1 DEF Call, Goto
  <2> QED
    BY <1>1, <1>4, <2>1
       DEF Begin, CreateEventfd, CreateEventfdFails, CloseEventfd, CloseSetOrResetNull, SetEvent,
           ResetEvent, CallOnEvent, WaitBegin, WaitRefused, Refuse
<1>5. ASSUME NEW t \in Threads, Step(t) PROVE NothingRead'
  <2>1. CASE SelectPoll(t) \/ SelectWake(t)
    BY <2>1 DEF SelectPoll, SelectWake, NothingRead, TypeOK
  <2>2. CASE SetLock(t) \/ SetFlag(t) \/ ResetLock(t) \/ ResetFlag(t)
    BY <1>2, <2>2 DEF SetLock, SetFlag, ResetLock, ResetFlag, Goto, InCall, locals
  <2>3. CASE ResetDrain(t)
    BY <1>2, <2>3 DEF ResetDrain, Goto, InCall, locals
  <2>4. CASE SetWrite(t)
    BY <1>1, <1>2, <2>4 DEF SetWrite, Goto, InCall, locals
  <2>5. CASE CreateMalloc(t) \/ CreateMallocFails(t) \/ CloseFree(t) \/ SetUnlock(t)
             \/ ResetUnlock(t) \/ WaitReturn(t) \/ WaitTimeout(t)
    BY <1>1, <2>5 DEF CreateMalloc, CreateMallocFails, CloseFree, SetUnlock, ResetUnlock,
                      WaitReturn, WaitTimeout
  <2> QED
    BY <1>5, <2>1, <2>2, <2>3, <2>4, <2>5 DEF Step
<1>6. ASSUME NEW t \in Threads, WaitInterrupted(t) PROVE NothingRead'
  BY <1>1, <1>6 DEF WaitInterrupted
<1> QED
  BY <1>3, <1>4, <1>5, <1>6 DEF Next

(***************************************************************************)
(* What a step of one thread changes of the abstract state                 *)
(***************************************************************************)
(* Nothing of what the abstract state shows of the other threads changes.  *)
OthersSame(t) ==
  \A u \in Threads \ {t} :
    /\ pc'[u] = pc[u]
    /\ lphEvents'[u] = lphEvents[u]
    /\ unpolled'[u] = unpolled[u]
    /\ readfds'[u] = readfds[u]
    /\ lastError'[u] = lastError[u]
    /\ \A e \in Members(lphEvents[u]) : eventfd'[e] = eventfd[e]

(* The instants after which a set, a reset or a close has taken effect.    *)
DonePCs == {"set_flag", "set_unlock", "reset_flag", "reset_unlock", "close_free"}

(* The abstract done is this, and a Boolean.                               *)
LEMMA DoneShown ==
  /\ AbstractDone \in [Threads -> BOOLEAN] /\ AbstractDone' \in [Threads -> BOOLEAN]
  /\ \A t \in Threads : /\ AbstractDone[t] = (pc[t] \in DonePCs)
                        /\ AbstractDone'[t] = (pc'[t] \in DonePCs)
<1>1. /\ AbstractDone = [t \in Threads |-> pc[t] \in DonePCs]
      /\ AbstractDone' = [t \in Threads |-> pc'[t] \in DonePCs]
  BY DEF AbstractDone, DonePCs
<1> QED
  BY <1>1, SMT

(* A step of t changes the abstract state of t alone.                      *)
LEMMA OthersShown ==
  ASSUME NEW t \in Threads, OthersSame(t)
  PROVE  /\ AbstractOp' = [AbstractOp EXCEPT ![t] = AbstractOp'[t]]
         /\ AbstractDone' = [AbstractDone EXCEPT ![t] = AbstractDone'[t]]
         /\ AbstractSeen' = [AbstractSeen EXCEPT ![t] = AbstractSeen'[t]]
         /\ AbstractMissing' = [AbstractMissing EXCEPT ![t] = AbstractMissing'[t]]
         /\ AbstractFailed' = [AbstractFailed EXCEPT ![t] = AbstractFailed'[t]]
<1>1. AbstractOp' = [AbstractOp EXCEPT ![t] = AbstractOp'[t]]
  <2>1. \A u \in Threads \ {t} : AbstractOp'[u] = AbstractOp[u]
    BY DEF OthersSame, AbstractOp
  <2>2. /\ AbstractOp = [u \in Threads |-> AbstractOp[u]]
        /\ AbstractOp' = [u \in Threads |-> AbstractOp'[u]]
    BY Zenon DEF AbstractOp
  <2> QED
    BY <2>1, <2>2
<1>2. AbstractDone' = [AbstractDone EXCEPT ![t] = AbstractDone'[t]]
  <2>1. ASSUME NEW u \in Threads \ {t} PROVE AbstractDone'[u] = AbstractDone[u]
    <3>1. pc'[u] = pc[u]
      BY DEF OthersSame
    <3> QED
      BY <3>1, DoneShown, Zenon
  <2>2. /\ AbstractDone = [u \in Threads |-> AbstractDone[u]]
        /\ AbstractDone' = [u \in Threads |-> AbstractDone'[u]]
    BY Zenon DEF AbstractDone
  <2> QED
    BY <2>1, <2>2
<1>3. AbstractSeen' = [AbstractSeen EXCEPT ![t] = AbstractSeen'[t]]
  <2>1. \A u \in Threads \ {t} : AbstractSeen'[u] = AbstractSeen[u]
    BY DEF OthersSame, AbstractSeen
  <2> QED
    BY <2>1 DEF AbstractSeen
<1>4. AbstractMissing' = [AbstractMissing EXCEPT ![t] = AbstractMissing'[t]]
  <2>1. \A u \in Threads \ {t} : AbstractMissing'[u] = AbstractMissing[u]
    BY DEF OthersSame, AbstractMissing
  <2> QED
    BY <2>1 DEF AbstractMissing
<1>5. AbstractFailed' = [AbstractFailed EXCEPT ![t] = AbstractFailed'[t]]
  BY DEF OthersSame, AbstractFailed
<1> QED
  BY <1>1, <1>2, <1>3, <1>4, <1>5

(* An event is as it was when its descriptor and the descriptor's counter  *)
(* are, and the same events are usable.                                    *)
LEMMA StateSame ==
  ASSUME Usable' = Usable,
         \A e \in Usable : eventfd'[e] = eventfd[e] /\ counter'[eventfd[e]] = counter[eventfd[e]]
  PROVE  AbstractState' = AbstractState
  BY DEF AbstractState

(* One event changes when its descriptor's counter does: no other event    *)
(* has that descriptor.                                                    *)
LEMMA StateSet ==
  ASSUME TypeOK, DescriptorsOwned, NEW e \in Usable, NEW n \in Nat,
         counter' = [counter EXCEPT ![eventfd[e]] = n], UNCHANGED eventfd, Usable' = Usable
  PROVE  AbstractState' = [AbstractState EXCEPT ![e] = IF n > 0 THEN "set" ELSE "unset"]
<1>1. Usable \subseteq Events /\ \A f \in Usable : eventfd[f] \in Fds
  BY DEF Usable, Live, TypeOK
<1>2. \A f \in Usable \ {e} : eventfd[f] # eventfd[e]
  BY DEF DescriptorsOwned
<1>3. counter'[eventfd[e]] = n /\ \A f \in Usable \ {e} : counter'[eventfd[f]] = counter[eventfd[f]]
  BY <1>1, <1>2 DEF TypeOK
<1>4. \A f \in Events \ {e} : AbstractState'[f] = AbstractState[f]
  BY <1>3 DEF AbstractState
<1>5. AbstractState'[e] = IF n > 0 THEN "set" ELSE "unset"
  BY <1>1, <1>3 DEF AbstractState
<1> QED
  BY <1>1, <1>4, <1>5 DEF AbstractState

(* The events a thread uses are usable, and open in the abstract state.    *)
LEMMA UsedAreOpen ==
  ASSUME TypeOK, UsedAreLive, LocalsMatchPC
  PROVE  /\ \A t \in Threads : Members(lphEvents[t]) \subseteq Usable
         /\ \A t \in Threads : pc[t] \in SettingPCs \cup ResettingPCs => hEvent[t] \in Usable
         /\ \A e \in Usable : /\ AbstractState[e] # "closed"
                              /\ AbstractState[e] = IF counter[eventfd[e]] > 0 THEN "set" ELSE "unset"
<1>1. ASSUME NEW t \in Threads, NEW e \in Members(lphEvents[t]) PROVE e \in Usable
  <2>1. e \in Events /\ Uses(t, e)
    BY ArrayMembers DEF TypeOK, Uses
  <2>2. pc[t] = "select"
    BY <1>1, EmptyHasNoMembers DEF LocalsMatchPC
  <2> QED
    BY <2>1, <2>2 DEF UsedAreLive, Usable
<1>2. ASSUME NEW t \in Threads, pc[t] \in SettingPCs \cup ResettingPCs PROVE hEvent[t] \in Usable
  <2>1. hEvent[t] \in Events /\ Uses(t, hEvent[t]) /\ pc[t] # "close_free"
    BY <1>2 DEF TypeOK, LocalsMatchPC, EventPCs, Uses, SettingPCs, ResettingPCs
  <2> QED
    BY <2>1 DEF UsedAreLive, Usable
<1>3. \A e \in Usable : e \in Events
  BY DEF Usable, Live
<1> QED
  BY <1>1, <1>2, <1>3 DEF AbstractState

(* A thread outside a wait has found nothing set or unset.                 *)
LEMMA NothingShown ==
  ASSUME NEW t \in Threads, lphEvents[t] = <<>>
  PROVE  AbstractSeen[t] = {} /\ AbstractMissing[t] = {}
  BY EmptyHasNoMembers DEF AbstractSeen, AbstractMissing

(* A return ends the abstract call, with an error exactly when it leaves an *)
(* error code.                                                             *)
LEMMA ReturnEnds ==
  ASSUME TypeOK, NEW t \in Threads, NEW r, NEW err, Return(t, r, err),
         \A u \in Threads \ {t} : \A e \in Members(lphEvents[u]) : eventfd'[e] = eventfd[e]
  PROVE  MRE!End(t, r, err # "0")
<1>1. OthersSame(t)
  BY DEF OthersSame, Return, TypeOK
<1>2. /\ pc'[t] = "idle" /\ lphEvents'[t] = <<>> /\ lastError'[t] = err
      /\ hEvent' = [hEvent EXCEPT ![t] = NULL] /\ lphEvents' = [lphEvents EXCEPT ![t] = <<>>]
      /\ result' = [result EXCEPT ![t] = r]
  BY DEF Return, TypeOK
<1>3. AbstractOp'[t] = "idle" /\ AbstractFailed'[t] = (err # "0")
  BY <1>2 DEF AbstractOp, AbstractFailed, SettingPCs, ResettingPCs
<1>4. AbstractDone'[t] = FALSE
  <2>1. pc'[t] \notin DonePCs
    BY <1>2 DEF DonePCs
  <2> QED
    BY <2>1, DoneShown
<1>5. AbstractSeen'[t] = {} /\ AbstractMissing'[t] = {}
  BY <1>2, EmptyHasNoMembers DEF AbstractSeen, AbstractMissing
<1> QED
  BY <1>1, <1>2, <1>3, <1>4, <1>5, OthersShown DEF MRE!End

(* The abstract state is made of functions of the threads.                 *)
LEMMA ShownAreFunctions ==
  /\ AbstractOp = [t \in Threads |-> AbstractOp[t]]
  /\ AbstractDone = [t \in Threads |-> AbstractDone[t]]
  /\ AbstractSeen = [t \in Threads |-> AbstractSeen[t]]
  /\ AbstractMissing = [t \in Threads |-> AbstractMissing[t]]
<1>1. AbstractOp = [t \in Threads |-> AbstractOp[t]]
  BY Zenon DEF AbstractOp
<1>2. AbstractDone = [t \in Threads |-> AbstractDone[t]]
  BY DoneShown
<1>3. AbstractSeen = [t \in Threads |-> AbstractSeen[t]]
  BY Zenon DEF AbstractSeen
<1>4. AbstractMissing = [t \in Threads |-> AbstractMissing[t]]
  BY Zenon DEF AbstractMissing
<1> QED
  BY <1>1, <1>2, <1>3, <1>4

(* What the abstract state shows of a thread outside the calls.            *)
LEMMA IdleShown ==
  ASSUME TypeOK, LocalsMatchPC, NEW t \in Threads, pc[t] = "idle"
  PROVE  /\ AbstractOp[t] = "idle" /\ AbstractDone[t] = FALSE
         /\ AbstractSeen[t] = {} /\ AbstractMissing[t] = {}
         /\ hEvent[t] = NULL /\ lphEvents[t] = <<>>
<1>1. hEvent[t] = NULL /\ lphEvents[t] = <<>>
  BY DEF LocalsMatchPC, EventPCs, SettingPCs, ResettingPCs
<1>2. AbstractOp[t] = "idle"
  BY DEF AbstractOp, SettingPCs, ResettingPCs
<1>3. pc[t] \notin DonePCs
  BY DEF DonePCs
<1> QED
  BY <1>1, <1>2, <1>3, DoneShown, NothingShown

(* Ending a call that never began changes nothing but its result.          *)
LEMMA EndOfIdle ==
  ASSUME TypeOK, LocalsMatchPC, NEW t \in Threads, pc[t] = "idle", NEW r, NEW f, MRE!End(t, r, f)
  PROVE  UNCHANGED <<AbstractOp, hEvent, AbstractDone, lphEvents, AbstractSeen, AbstractMissing>>
<1>1. hEvent' = hEvent /\ lphEvents' = lphEvents
  BY IdleShown DEF MRE!End, TypeOK
<1>2. AbstractOp' = AbstractOp /\ AbstractDone' = AbstractDone
  BY IdleShown, ShownAreFunctions DEF MRE!End
<1>3. AbstractSeen' = AbstractSeen /\ AbstractMissing' = AbstractMissing
  BY IdleShown, ShownAreFunctions DEF MRE!End
<1> QED
  BY <1>1, <1>2, <1>3

(* A step within a call shows in op and done only.                         *)
LEMMA MoveShown ==
  ASSUME TypeOK, NEW t \in Threads, NEW to, pc' = [pc EXCEPT ![t] = to],
         UNCHANGED <<eventfd, lphEvents, unpolled, readfds, lastError>>
  PROVE  /\ pc'[t] = to
         /\ AbstractOp' = [AbstractOp EXCEPT ![t] = AbstractOp'[t]]
         /\ AbstractDone' = [AbstractDone EXCEPT ![t] = AbstractDone'[t]]
         /\ UNCHANGED <<AbstractSeen, AbstractMissing, AbstractFailed>>
<1>1. pc'[t] = to /\ OthersSame(t)
  BY DEF TypeOK, OthersSame
<1>2. UNCHANGED <<AbstractSeen, AbstractMissing, AbstractFailed>>
  BY DEF AbstractSeen, AbstractMissing, AbstractFailed
<1> QED
  BY <1>1, <1>2, OthersShown

(* A move between two places of a call that are one to the caller.         *)
LEMMA MoveStutters ==
  ASSUME TypeOK, NEW t \in Threads, NEW to, pc' = [pc EXCEPT ![t] = to],
         UNCHANGED <<eventfd, lphEvents, unpolled, readfds, lastError>>,
         \E S \in {SettingPCs, ResettingPCs} : pc[t] \in S /\ to \in S,
         pc[t] \in DonePCs <=> to \in DonePCs
  PROVE  UNCHANGED <<AbstractOp, AbstractDone, AbstractSeen, AbstractMissing, AbstractFailed>>
<1>1. /\ pc'[t] = to
      /\ AbstractOp' = [AbstractOp EXCEPT ![t] = AbstractOp'[t]]
      /\ AbstractDone' = [AbstractDone EXCEPT ![t] = AbstractDone'[t]]
      /\ UNCHANGED <<AbstractSeen, AbstractMissing, AbstractFailed>>
  BY MoveShown
<1>2. AbstractOp'[t] = AbstractOp[t]
  BY <1>1 DEF AbstractOp, SettingPCs, ResettingPCs
<1>3. AbstractDone'[t] = AbstractDone[t]
  BY <1>1, DoneShown
<1>4. AbstractOp' = AbstractOp
  BY <1>1, <1>2, ShownAreFunctions
<1>5. AbstractDone' = AbstractDone
  BY <1>1, <1>3, ShownAreFunctions
<1> QED
  BY <1>1, <1>4, <1>5

(***************************************************************************)
(* The steps                                                               *)
(***************************************************************************)
LEMMA RefusalRefines ==
  ASSUME RefInv, NEW t \in Threads, NEW r \in {"NULL", "FALSE", "WAIT_FAILED"},
         NEW err \in Errors \ {"0"}, Refuse(t, r, err)
  PROVE  MRE!Refuse(t)
<1>1. TypeOK /\ LocalsMatchPC /\ pc[t] = "idle" /\ Return(t, r, err) /\ UNCHANGED <<counter, eventfd>>
  BY DEF RefInv, Inv, Refuse, memory
<1>2. MRE!End(t, r, err # "0")
  BY <1>1, ReturnEnds
<1>3. UNCHANGED <<AbstractOp, hEvent, AbstractDone, lphEvents, AbstractSeen, AbstractMissing>>
  BY <1>1, <1>2, EndOfIdle
<1>4. AbstractState' = AbstractState
  <2>1. Usable' = Usable
    BY <1>1, ReturnClears DEF Usable, Live
  <2> QED
    BY <1>1, <2>1, StateSame
<1>5. AbstractOp[t] = "idle" /\ (err # "0") = TRUE
  BY <1>1, IdleShown
<1> QED
  BY <1>2, <1>3, <1>4, <1>5 DEF MRE!Refuse, MRE!End

(* The first step of a create, a close, a set or a reset.                  *)
LEMMA CallBegins ==
  ASSUME TypeOK, LocalsMatchPC, NEW t \in Threads, NEW to, Call(t, to),
         NEW e, hEvent' = [hEvent EXCEPT ![t] = e],
         UNCHANGED <<eventfd, lphEvents, unpolled, readfds>>
  PROVE  /\ pc'[t] = to
         /\ MRE!Begin(t, AbstractOp'[t], e)
         /\ to \in DonePCs => AbstractDone' = [AbstractDone EXCEPT ![t] = TRUE]
         /\ to \notin DonePCs => AbstractDone' = AbstractDone
         /\ UNCHANGED <<AbstractSeen, AbstractMissing>>
<1>1. /\ pc[t] = "idle" /\ pc' = [pc EXCEPT ![t] = to]
      /\ result' = [result EXCEPT ![t] = "none"] /\ UNCHANGED lastError
  BY DEF Call, Goto
<1>2. /\ pc'[t] = to
      /\ AbstractOp' = [AbstractOp EXCEPT ![t] = AbstractOp'[t]]
      /\ AbstractDone' = [AbstractDone EXCEPT ![t] = AbstractDone'[t]]
      /\ UNCHANGED <<AbstractSeen, AbstractMissing, AbstractFailed>>
  BY <1>1, MoveShown
<1>3. AbstractOp[t] = "idle" /\ AbstractDone[t] = FALSE
  BY <1>1, IdleShown
<1>4. ASSUME to \in DonePCs PROVE AbstractDone' = [AbstractDone EXCEPT ![t] = TRUE]
  <2>1. AbstractDone'[t] = TRUE
    BY <1>2, <1>4, DoneShown
  <2> QED
    BY <1>2, <2>1
<1>5. ASSUME to \notin DonePCs PROVE AbstractDone' = AbstractDone
  <2>1. AbstractDone'[t] = AbstractDone[t]
    BY <1>2, <1>3, <1>5, DoneShown
  <2> QED
    BY <1>2, <2>1, ShownAreFunctions
<1>6. MRE!Begin(t, AbstractOp'[t], e)
  BY <1>1, <1>2, <1>3 DEF MRE!Begin
<1> QED
  BY <1>2, <1>4, <1>5, <1>6

(* eventfd() begins a call; no event of the application has its descriptor. *)
LEMMA CreateEventfdRefines ==
  ASSUME RefInv, NEW t \in Threads, CreateEventfd(t)
  PROVE  MRE!BeginCreate(t)
<1>1. TypeOK /\ LocalsMatchPC /\ DescriptorsOwned
  BY DEF RefInv, Inv
<1>2. pc[t] = "idle" /\ Call(t, "create_malloc")
      /\ UNCHANGED <<eventfd, hEvent, lphEvents, unpolled, readfds>>
  BY DEF CreateEventfd, Call, Goto
<1>3. AbstractState' = AbstractState
  <2>1. PICK fd \in Fds : /\ counter' = [counter EXCEPT ![fd] = 0] /\ Usable' = Usable
                         /\ fd \notin FdsOf(Usable)
    BY <1>1, CreateEventfdEffect
  <2>2. \A e \in Usable : eventfd[e] \in Fds /\ eventfd[e] # fd
    BY <1>1, <2>1 DEF FdsOf, Usable, Live, TypeOK
  <2> QED
    BY <1>1, <1>2, <2>1, <2>2, StateSame DEF TypeOK
<1>4. hEvent' = [hEvent EXCEPT ![t] = NULL]
  BY <1>1, <1>2, IdleShown DEF TypeOK
<1>5. /\ pc'[t] = "create_malloc" /\ MRE!Begin(t, AbstractOp'[t], NULL)
      /\ UNCHANGED <<AbstractDone, AbstractSeen, AbstractMissing>>
  <2>1. "create_malloc" \notin DonePCs
    BY DEF DonePCs
  <2> QED
    BY <1>1, <1>2, <1>4, <2>1, CallBegins
<1>6. AbstractOp'[t] = "create"
  BY <1>5 DEF AbstractOp, SettingPCs, ResettingPCs
<1> QED
  BY <1>2, <1>3, <1>5, <1>6 DEF MRE!BeginCreate

(* malloc hands out an event whose descriptor nobody has written to.       *)
LEMMA CreateMallocRefines ==
  ASSUME RefInv, NEW t \in Threads, CreateMalloc(t)
  PROVE  MRE!Create(t)
<1>1. TypeOK /\ LocalsMatchPC /\ UsedAreLive /\ FlagOrMidway
  BY DEF RefInv, Inv
<1>2. PICK e \in Events \ Live : /\ Return(t, e, "0") /\ eventfd' = [eventfd EXCEPT ![e] = efd[t]]
                                 /\ pc[t] = "create_malloc" /\ UNCHANGED counter
  BY DEF CreateMalloc
<1>3. \A f \in Live : eventfd'[f] = eventfd[f] /\ f # e
  BY <1>1, <1>2 DEF TypeOK, Live
<1>4. MRE!End(t, e, FALSE)
  <2>1. \A u \in Threads : Members(lphEvents[u]) \subseteq Live
    BY <1>1, UsedAreOpen DEF Usable
  <2>2. ("0" # "0") = FALSE
    OBVIOUS
  <2> QED
    BY <1>1, <1>2, <1>3, <2>1, <2>2, ReturnEnds
<1>5. e \notin Usable /\ Usable' = Usable \cup {e} /\ eventfd'[e] = efd[t] /\ t \in Creators
  <2>1. efd[t] # NULL
    BY <1>1, <1>2 DEF LocalsMatchPC
  <2>2. Live' = Live \cup {e} /\ eventfd'[e] = efd[t]
    BY <1>1, <1>2, <2>1 DEF TypeOK, Live
  <2>3. \A u \in Threads : hEvent[u] # e
    BY <1>1, <1>2 DEF UsedAreLive, Uses, TypeOK
  <2>4. \A u \in Threads, f \in Events :
          (pc'[u] = "close_free" /\ hEvent'[u] = f) <=> (pc[u] = "close_free" /\ hEvent[u] = f)
    BY <1>1, <1>2, ReturnClears
  <2> QED
    BY <1>2, <2>2, <2>3, <2>4 DEF Usable, Live, Creators
<1>6. counter'[eventfd'[e]] = 0
  BY <1>1, <1>2, <1>5 DEF FlagOrMidway
<1>7. AbstractState[e] = "closed"
  BY <1>5 DEF AbstractState
<1>8. AbstractState' = [AbstractState EXCEPT ![e] = "unset"]
  <2>1. AbstractState'[e] = "unset"
    BY <1>2, <1>5, <1>6 DEF AbstractState
  <2>2. \A f \in Events \ {e} : AbstractState'[f] = AbstractState[f]
    BY <1>2, <1>3, <1>5 DEF AbstractState, Usable
  <2> QED
    BY <2>1, <2>2 DEF AbstractState
<1>9. AbstractOp[t] = "create"
  BY <1>2 DEF AbstractOp, SettingPCs, ResettingPCs
<1> QED
  BY <1>4, <1>7, <1>8, <1>9 DEF MRE!Create

(* Without memory the descriptor is closed; no event had it.               *)
LEMMA CreateMallocFailsRefines ==
  ASSUME RefInv, NEW t \in Threads, CreateMallocFails(t)
  PROVE  MRE!Fail(t)
<1>1. TypeOK /\ LocalsMatchPC /\ DescriptorsOwned
  BY DEF RefInv, Inv
<1>2. /\ pc[t] = "create_malloc" /\ UNCHANGED eventfd /\ Usable' = Usable /\ t \in Creators
      /\ Return(t, "NULL", "WSA_NOT_ENOUGH_MEMORY")
      /\ \A fd \in Fds : fd # efd[t] => counter'[fd] = counter[fd]
  BY <1>1, CreateMallocFailsEffect DEF CreateMallocFails
<1>3. MRE!End(t, "NULL", TRUE)
  <2>1. ("WSA_NOT_ENOUGH_MEMORY" # "0") = TRUE
    OBVIOUS
  <2> QED
    BY <1>1, <1>2, <2>1, ReturnEnds
<1>4. AbstractState' = AbstractState
  <2>1. \A e \in Usable : eventfd[e] \in Fds /\ eventfd[e] # efd[t]
    BY <1>1, <1>2 DEF DescriptorsOwned, FdsOf, Usable, Live, TypeOK
  <2> QED
    BY <1>2, <2>1, StateSame
<1>5. AbstractOp[t] = "create"
  BY <1>2 DEF AbstractOp, SettingPCs, ResettingPCs
<1>6. ~AbstractDone[t]
  <2>1. pc[t] \notin DonePCs
    BY <1>2 DEF DonePCs
  <2> QED
    BY <2>1, DoneShown
<1> QED
  BY <1>3, <1>4, <1>5, <1>6 DEF MRE!Fail

(* WSACloseEvent closes an event nobody else uses: from here on its handle  *)
(* is invalid.                                                             *)
LEMMA CloseEventfdRefines ==
  ASSUME RefInv, NEW t \in Threads, CloseEventfd(t)
  PROVE  MRE!Close(t)
<1>1. TypeOK /\ LocalsMatchPC /\ UsedAreLive /\ DescriptorsOwned
  BY DEF RefInv, Inv
<1>2. PICK e \in Usable : /\ counter' = [counter EXCEPT ![eventfd[e]] = Closed]
                         /\ hEvent' = [hEvent EXCEPT ![t] = e]
                         /\ \A u \in Threads : ~Uses(u, e)
  BY DEF CloseEventfd
<1>3. /\ pc[t] = "idle" /\ Call(t, "close_free")
      /\ UNCHANGED <<eventfd, lphEvents, unpolled, readfds>>
  BY DEF CloseEventfd, Call, Goto
<1>4. "close_free" \in DonePCs
  BY DEF DonePCs
<1>5. /\ pc'[t] = "close_free" /\ MRE!Begin(t, AbstractOp'[t], e)
      /\ AbstractDone' = [AbstractDone EXCEPT ![t] = TRUE]
      /\ UNCHANGED <<AbstractSeen, AbstractMissing>>
  BY <1>1, <1>2, <1>3, <1>4, CallBegins
<1>6. AbstractOp'[t] = "close"
  BY <1>5 DEF AbstractOp, SettingPCs, ResettingPCs
<1>7. Usable' = Usable \ {e}
  BY <1>1, <1>2, <1>3 DEF Call, Goto, TypeOK, Usable, Live
<1>8. AbstractState' = [AbstractState EXCEPT ![e] = "closed"]
  <2>1. AbstractState'[e] = "closed" /\ e \in Events
    BY <1>2, <1>7 DEF AbstractState, Usable, Live
  <2>2. \A f \in Usable \ {e} : eventfd[f] # eventfd[e] /\ eventfd[f] \in Fds
    BY <1>1, <1>2 DEF DescriptorsOwned, Usable, Live, TypeOK
  <2>3. \A f \in Usable \ {e} : counter'[eventfd[f]] = counter[eventfd[f]]
    BY <1>1, <1>2, <2>2 DEF TypeOK
  <2>4. \A f \in Events \ {e} : AbstractState'[f] = AbstractState[f]
    BY <1>3, <1>7, <2>3 DEF AbstractState
  <2> QED
    BY <2>1, <2>4 DEF AbstractState
<1>9. e \in Events /\ AbstractState[e] # "closed"
  BY <1>1, <1>2, UsedAreOpen DEF Usable, Live
<1> QED
  BY <1>2, <1>3, <1>5, <1>6, <1>8, <1>9 DEF MRE!Close, MRE!Members, Uses, Members

(* free() is about an event that the caller may no longer name.            *)
LEMMA CloseFreeRefines ==
  ASSUME RefInv, NEW t \in Threads, CloseFree(t)
  PROVE  MRE!Succeed(t)
<1>1. TypeOK /\ LocalsMatchPC /\ UsedAreLive
  BY DEF RefInv, Inv
<1>2. /\ pc[t] = "close_free" /\ Return(t, "TRUE", "0") /\ UNCHANGED counter
      /\ Usable' = Usable /\ \A f \in Usable : eventfd'[f] = eventfd[f]
  BY <1>1, CloseFreeEffect DEF CloseFree
<1>3. MRE!End(t, "TRUE", FALSE)
  <2>1. ("0" # "0") = FALSE
    OBVIOUS
  <2>2. \A u \in Threads : Members(lphEvents[u]) \subseteq Usable
    BY <1>1, UsedAreOpen
  <2> QED
    BY <1>1, <1>2, <2>1, <2>2, ReturnEnds
<1>4. AbstractState' = AbstractState
  BY <1>2, StateSame
<1>5. AbstractOp[t] = "close"
  BY <1>2 DEF AbstractOp, SettingPCs, ResettingPCs
<1>6. AbstractDone[t]
  <2>1. pc[t] \in DonePCs
    BY <1>2 DEF DonePCs
  <2> QED
    BY <2>1, DoneShown
<1> QED
  BY <1>3, <1>4, <1>5, <1>6 DEF MRE!Succeed

(* A set or a reset begins on an open event.                               *)
LEMMA CallOnEventRefines ==
  ASSUME RefInv, NEW t \in Threads
  PROVE  /\ SetEvent(t) => MRE!BeginChange(t, "set")
         /\ ResetEvent(t) => MRE!BeginChange(t, "reset")
<1>1. TypeOK /\ LocalsMatchPC /\ UsedAreLive
  BY DEF RefInv, Inv
<1>2. ASSUME NEW to \in {"set_lock", "reset_lock"}, CallOnEvent(t, to)
      PROVE  /\ pc'[t] = to /\ UNCHANGED <<AbstractState, AbstractDone, AbstractSeen, AbstractMissing>>
             /\ UNCHANGED lphEvents
             /\ \E e \in Events : AbstractState[e] # "closed" /\ MRE!Begin(t, AbstractOp'[t], e)
  <2>1. PICK e \in Usable : hEvent' = [hEvent EXCEPT ![t] = e]
    BY <1>2 DEF CallOnEvent
  <2>2. /\ Call(t, to) /\ UNCHANGED memory
        /\ UNCHANGED <<eventfd, lphEvents, unpolled, readfds>>
    BY <1>2 DEF CallOnEvent, memory
  <2>3. to \notin DonePCs
    BY DEF DonePCs
  <2>4. pc'[t] = to /\ UNCHANGED <<AbstractDone, AbstractSeen, AbstractMissing>>
    BY <1>1, <2>1, <2>2, <2>3, CallBegins
  <2>5. MRE!Begin(t, AbstractOp'[t], e)
    BY <1>1, <2>1, <2>2, CallBegins
  <2>6. Usable' = Usable
    BY <1>1, <2>1, <2>2 DEF Call, Goto, TypeOK, Usable, Live
  <2>7. UNCHANGED AbstractState
    BY <2>2, <2>6, StateSame DEF memory
  <2>8. e \in Events /\ AbstractState[e] # "closed"
    BY <1>1, <2>1, UsedAreOpen DEF Usable, Live
  <2> QED
    BY <2>2, <2>4, <2>5, <2>7, <2>8
<1>3. ASSUME SetEvent(t) PROVE MRE!BeginChange(t, "set")
  <2>1. CallOnEvent(t, "set_lock")
    BY <1>3 DEF SetEvent
  <2>2. pc'[t] = "set_lock"
    BY <1>2, <2>1
  <2>3. AbstractOp'[t] = "set"
    BY <2>2 DEF AbstractOp, SettingPCs
  <2> QED
    BY <1>2, <2>1, <2>3 DEF MRE!BeginChange
<1>4. ASSUME ResetEvent(t) PROVE MRE!BeginChange(t, "reset")
  <2>1. CallOnEvent(t, "reset_lock")
    BY <1>4 DEF ResetEvent
  <2>2. pc'[t] = "reset_lock"
    BY <1>2, <2>1
  <2>3. AbstractOp'[t] = "reset"
    BY <2>2 DEF AbstractOp, SettingPCs, ResettingPCs
  <2> QED
    BY <1>2, <2>1, <2>3 DEF MRE!BeginChange
<1> QED
  BY <1>3, <1>4

(* The instant at which a call takes effect.                               *)
LEMMA EffectShown ==
  ASSUME TypeOK, NEW t \in Threads, NEW from, NEW to, Goto(t, from, to), InCall, UNCHANGED eventfd,
         from \notin DonePCs, to \in DonePCs, from # "close_free", to # "close_free",
         \E S \in {SettingPCs, ResettingPCs} : from \in S /\ to \in S
  PROVE  /\ ~AbstractDone[t] /\ AbstractDone' = [AbstractDone EXCEPT ![t] = TRUE]
         /\ UNCHANGED <<AbstractOp, hEvent, lphEvents, AbstractSeen, AbstractMissing, result,
                        AbstractFailed, Usable>>
<1>1. /\ pc[t] = from /\ pc' = [pc EXCEPT ![t] = to]
      /\ UNCHANGED <<hEvent, lphEvents, unpolled, readfds, result, lastError>>
  BY DEF Goto, InCall, locals
<1>2. /\ pc'[t] = to
      /\ AbstractOp' = [AbstractOp EXCEPT ![t] = AbstractOp'[t]]
      /\ AbstractDone' = [AbstractDone EXCEPT ![t] = AbstractDone'[t]]
      /\ UNCHANGED <<AbstractSeen, AbstractMissing, AbstractFailed>>
  BY <1>1, MoveShown
<1>3. ~AbstractDone[t]
  BY <1>1, DoneShown
<1>4. AbstractDone' = [AbstractDone EXCEPT ![t] = TRUE]
  <2>1. AbstractDone'[t] = TRUE
    BY <1>2, DoneShown
  <2> QED
    BY <1>2, <2>1
<1>5. AbstractOp' = AbstractOp
  <2>1. AbstractOp'[t] = AbstractOp[t]
    BY <1>1, <1>2 DEF AbstractOp, SettingPCs, ResettingPCs
  <2> QED
    BY <1>2, <2>1, ShownAreFunctions
<1>6. Usable' = Usable
  BY <1>1 DEF Usable, Live, TypeOK
<1> QED
  BY <1>1, <1>2, <1>3, <1>4, <1>5, <1>6

(* A set takes effect when it finds the flag set, which by FlagOrMidway    *)
(* says that the descriptor is readable, or else by its write(), which     *)
(* cannot fail because the counter is 0.                                   *)
LEMMA SetWriteRefines ==
  ASSUME RefInv, NEW t \in Threads, SetWrite(t)
  PROVE  MRE!TakeEffect(t, "set", "set")
<1> DEFINE e == hEvent[t]
           fd == eventfd[e]
<1>1. TypeOK /\ LocalsMatchPC /\ UsedAreLive /\ MutexHeld /\ FlagOrMidway /\ DescriptorsOwned
  BY DEF RefInv, Inv
<1>2. pc[t] = "set_write"
  BY DEF SetWrite
<1>3. e \in Usable /\ e \in Events /\ fd \in Fds
  BY <1>1, <1>2, UsedAreOpen DEF SettingPCs, Usable, Live, TypeOK
<1>4. signaled[e] <=> counter[fd] = 1
  <2>1. \A u \in Threads : ~Between(u, e)
    BY <1>1, <1>2, <1>3, HolderIsAlone DEF Between, HoldingPCs, SettingPCs, ResettingPCs
  <2> QED
    BY <1>1, <1>3, <2>1 DEF FlagOrMidway
<1>5. counter[fd] \in {0, 1}
  BY <1>1, <1>3 DEF FlagOrMidway
<1>6. WriteSucceeds(fd) \/ signaled[e]
  BY <1>4, <1>5, EventfdMaxAssumption DEF WriteSucceeds
<1>7. /\ UNCHANGED eventfd /\ InCall
      /\ \E to \in {"set_flag", "set_unlock"} : Goto(t, "set_write", to)
      /\ \/ signaled[e] /\ UNCHANGED counter
         \/ ~signaled[e] /\ counter' = [counter EXCEPT ![fd] = counter[fd] + 1]
  BY <1>6 DEF SetWrite, memory
<1>8. /\ ~AbstractDone[t] /\ AbstractDone' = [AbstractDone EXCEPT ![t] = TRUE]
      /\ UNCHANGED <<AbstractOp, hEvent, lphEvents, AbstractSeen, AbstractMissing, result,
                     AbstractFailed, Usable>>
  BY <1>1, <1>7, EffectShown DEF DonePCs, SettingPCs
<1>9. AbstractState' = [AbstractState EXCEPT ![e] = "set"]
  <2>1. CASE signaled[e]
    <3>1. AbstractState' = AbstractState
      BY <1>7, <1>8, <2>1, StateSame
    <3>2. AbstractState[e] = "set"
      BY <1>1, <1>3, <1>4, <2>1, UsedAreOpen
    <3> QED
      BY <3>1, <3>2 DEF AbstractState
  <2>2. CASE ~signaled[e]
    <3>1. counter' = [counter EXCEPT ![fd] = 1]
      BY <1>4, <1>5, <1>7, <2>2
    <3>2. 1 \in Nat /\ 1 > 0
      OBVIOUS
    <3>3. UNCHANGED eventfd /\ Usable' = Usable
      BY <1>7, <1>8
    <3>4. AbstractState' = [AbstractState EXCEPT ![e] = IF 1 > 0 THEN "set" ELSE "unset"]
      BY <1>1, <1>3, <3>1, <3>2, <3>3, StateSet, Zenon
    <3> QED
      BY <3>2, <3>4
  <2> QED
    BY <2>1, <2>2
<1>10. AbstractOp[t] = "set" /\ AbstractState[hEvent[t]] # "closed"
  BY <1>1, <1>2, <1>3, UsedAreOpen DEF AbstractOp, SettingPCs
<1> QED
  BY <1>8, <1>9, <1>10 DEF MRE!TakeEffect

(* A reset takes effect when it drains the descriptor, or finds the flag   *)
(* clear, which says that there is nothing to drain.                       *)
LEMMA ResetDrainRefines ==
  ASSUME RefInv, NEW t \in Threads, ResetDrain(t)
  PROVE  MRE!TakeEffect(t, "reset", "unset")
<1> DEFINE e == hEvent[t]
           fd == eventfd[e]
<1>1. TypeOK /\ LocalsMatchPC /\ UsedAreLive /\ MutexHeld /\ FlagOrMidway /\ DescriptorsOwned
  BY DEF RefInv, Inv
<1>2. pc[t] = "reset_drain"
  BY DEF ResetDrain
<1>3. e \in Usable /\ e \in Events /\ fd \in Fds
  BY <1>1, <1>2, UsedAreOpen DEF ResettingPCs, Usable, Live, TypeOK
<1>4. signaled[e] <=> counter[fd] = 1
  <2>1. \A u \in Threads : ~Between(u, e)
    BY <1>1, <1>2, <1>3, HolderIsAlone DEF Between, HoldingPCs, SettingPCs, ResettingPCs
  <2> QED
    BY <1>1, <1>3, <2>1 DEF FlagOrMidway
<1>5. counter[fd] \in {0, 1}
  BY <1>1, <1>3 DEF FlagOrMidway
<1>6. /\ UNCHANGED eventfd /\ InCall
      /\ \E to \in {"reset_flag", "reset_unlock"} : Goto(t, "reset_drain", to)
      /\ \/ ~signaled[e] /\ UNCHANGED counter
         \/ signaled[e] /\ counter' = [counter EXCEPT ![fd] = 0]
  BY DEF ResetDrain
<1>7. /\ ~AbstractDone[t] /\ AbstractDone' = [AbstractDone EXCEPT ![t] = TRUE]
      /\ UNCHANGED <<AbstractOp, hEvent, lphEvents, AbstractSeen, AbstractMissing, result,
                     AbstractFailed, Usable>>
  BY <1>1, <1>6, EffectShown DEF DonePCs, ResettingPCs
<1>8. AbstractState' = [AbstractState EXCEPT ![e] = "unset"]
  <2>1. CASE ~signaled[e]
    <3>1. AbstractState' = AbstractState
      BY <1>6, <1>7, <2>1, StateSame
    <3>2. AbstractState[e] = "unset"
      BY <1>1, <1>3, <1>4, <1>5, <2>1, UsedAreOpen
    <3> QED
      BY <3>1, <3>2 DEF AbstractState
  <2>2. CASE signaled[e]
    <3>1. counter' = [counter EXCEPT ![fd] = 0]
      BY <1>6, <2>2
    <3>2. 0 \in Nat /\ ~(0 > 0)
      OBVIOUS
    <3>3. UNCHANGED eventfd /\ Usable' = Usable
      BY <1>6, <1>7
    <3>4. AbstractState' = [AbstractState EXCEPT ![e] = IF 0 > 0 THEN "set" ELSE "unset"]
      BY <1>1, <1>3, <3>1, <3>2, <3>3, StateSet, Zenon
    <3> QED
      BY <3>2, <3>4
  <2> QED
    BY <2>1, <2>2
<1>9. AbstractOp[t] = "reset" /\ AbstractState[hEvent[t]] # "closed"
  BY <1>1, <1>2, <1>3, UsedAreOpen DEF AbstractOp, SettingPCs, ResettingPCs
<1> QED
  BY <1>7, <1>8, <1>9 DEF MRE!TakeEffect

(* A step that returns, or moves within a call, changes no event.          *)
LEMMA UsableSame ==
  ASSUME TypeOK, NEW t \in Threads, pc[t] # "close_free", UNCHANGED <<counter, eventfd>>,
         \/ \E r, err : Return(t, r, err)
         \/ \E to : pc' = [pc EXCEPT ![t] = to] /\ to # "close_free" /\ UNCHANGED hEvent
  PROVE  Usable' = Usable /\ AbstractState' = AbstractState
<1>1. \A u \in Threads, e \in Events :
        (pc'[u] = "close_free" /\ hEvent'[u] = e) <=> (pc[u] = "close_free" /\ hEvent[u] = e)
  <2>1. CASE \E r, err : Return(t, r, err)
    BY <2>1, ReturnClears
  <2>2. CASE \E to : pc' = [pc EXCEPT ![t] = to] /\ to # "close_free" /\ UNCHANGED hEvent
    BY <2>2 DEF TypeOK
  <2> QED
    BY <2>1, <2>2
<1>2. Usable' = Usable
  BY <1>1 DEF Usable, Live
<1> QED
  BY <1>2, StateSame

(* Taking the mutex, and writing the flag after the descriptor, are        *)
(* invisible.                                                              *)
LEMMA LockAndFlagStutter ==
  ASSUME RefInv, NEW t \in Threads, SetLock(t) \/ SetFlag(t) \/ ResetLock(t) \/ ResetFlag(t)
  PROVE  UNCHANGED MRE!vars
<1>1. TypeOK
  BY DEF RefInv, Inv
<1>2. \E from, to : /\ Goto(t, from, to) /\ from # "close_free" /\ to # "close_free"
                    /\ \E S \in {SettingPCs, ResettingPCs} : from \in S /\ to \in S
                    /\ from \in DonePCs <=> to \in DonePCs
  <2>1. CASE SetLock(t)
    BY <2>1 DEF SetLock, DonePCs, SettingPCs
  <2>2. CASE SetFlag(t)
    BY <2>2 DEF SetFlag, DonePCs, SettingPCs
  <2>3. CASE ResetLock(t)
    BY <2>3 DEF ResetLock, DonePCs, ResettingPCs
  <2>4. CASE ResetFlag(t)
    BY <2>4 DEF ResetFlag, DonePCs, ResettingPCs
  <2> QED
    BY <2>1, <2>2, <2>3, <2>4
<1>3. UNCHANGED <<counter, eventfd, hEvent, lphEvents, unpolled, readfds, result, lastError>>
  BY DEF SetLock, SetFlag, ResetLock, ResetFlag, InCall, locals
<1>4. UNCHANGED <<AbstractOp, AbstractDone, AbstractSeen, AbstractMissing, AbstractFailed>>
  BY <1>1, <1>2, <1>3, MoveStutters DEF Goto
<1>5. UNCHANGED AbstractState
  BY <1>1, <1>2, <1>3, UsableSame DEF Goto
<1> QED
  BY <1>3, <1>4, <1>5 DEF MRE!vars

(* A set or a reset unlocks and returns TRUE after it has taken effect.    *)
LEMMA UnlockRefines ==
  ASSUME RefInv, NEW t \in Threads, SetUnlock(t) \/ ResetUnlock(t)
  PROVE  MRE!Succeed(t)
<1>1. TypeOK
  BY DEF RefInv, Inv
<1>2. /\ pc[t] \in {"set_unlock", "reset_unlock"} /\ Return(t, "TRUE", "0")
      /\ UNCHANGED <<counter, eventfd>>
  BY DEF SetUnlock, ResetUnlock
<1>3. MRE!End(t, "TRUE", FALSE)
  <2>1. ("0" # "0") = FALSE
    OBVIOUS
  <2> QED
    BY <1>1, <1>2, <2>1, ReturnEnds
<1>4. AbstractState' = AbstractState
  BY <1>1, <1>2, UsableSame
<1>5. AbstractOp[t] \in {"set", "reset"}
  BY <1>2 DEF AbstractOp, SettingPCs, ResettingPCs
<1>6. AbstractDone[t]
  <2>1. pc[t] \in DonePCs
    BY <1>2 DEF DonePCs
  <2> QED
    BY <2>1, DoneShown
<1> QED
  BY <1>3, <1>4, <1>5, <1>6 DEF MRE!Succeed

(* A valid array is one the abstract wait may be given.                    *)
LEMMA ValidArrayRefines ==
  ASSUME NEW hs \in Arrays, ValidArray(hs)
  PROVE  hs \in MRE!Arrays
<1>1. PICK n \in 0..MaxWait : hs \in [1..n -> Events]
  BY ValidArrayType DEF ArraysOf
<1>2. n \in 1..MaxWait
  BY <1>1 DEF ValidArray
<1> QED
  BY <1>1, <1>2 DEF MRE!Arrays

(* A wait begins with nothing found, and every descriptor to be polled.    *)
LEMMA WaitBeginRefines ==
  ASSUME RefInv, NEW t \in Threads, WaitBegin(t)
  PROVE  \E hs \in MRE!Arrays : MRE!BeginWait(t, hs)
<1>1. TypeOK /\ LocalsMatchPC /\ UsedAreLive /\ NothingRead
  BY DEF RefInv, Inv
<1>2. PICK hs \in Arrays : /\ ValidArray(hs) /\ Members(hs) \subseteq Usable
                          /\ lphEvents' = [lphEvents EXCEPT ![t] = hs]
                          /\ unpolled' = [unpolled EXCEPT ![t] = FdsOf(Members(hs))]
  BY DEF WaitBegin
<1>3. /\ pc[t] = "idle" /\ pc' = [pc EXCEPT ![t] = "select"]
      /\ result' = [result EXCEPT ![t] = "none"]
      /\ UNCHANGED <<counter, eventfd, hEvent, readfds, lastError>>
  BY DEF WaitBegin, Call, Goto, memory
<1>4. /\ AbstractOp' = [AbstractOp EXCEPT ![t] = AbstractOp'[t]]
      /\ AbstractDone' = [AbstractDone EXCEPT ![t] = AbstractDone'[t]]
      /\ AbstractSeen' = [AbstractSeen EXCEPT ![t] = AbstractSeen'[t]]
      /\ AbstractMissing' = [AbstractMissing EXCEPT ![t] = AbstractMissing'[t]]
  <2>1. OthersSame(t)
    BY <1>1, <1>2, <1>3 DEF OthersSame, TypeOK
  <2> QED
    BY <2>1, OthersShown
<1>5. /\ pc'[t] = "select" /\ lphEvents'[t] = hs /\ unpolled'[t] = FdsOf(Members(hs))
      /\ readfds'[t] = {}
  BY <1>1, <1>2, <1>3 DEF TypeOK, NothingRead
<1>6. /\ AbstractOp[t] = "idle" /\ AbstractDone[t] = FALSE /\ hEvent[t] = NULL
      /\ AbstractSeen[t] = {} /\ AbstractMissing[t] = {}
  BY <1>1, <1>3, IdleShown
<1>7. AbstractOp'[t] = "wait"
  BY <1>5 DEF AbstractOp, SettingPCs, ResettingPCs
<1>8. AbstractDone'[t] = FALSE
  <2>1. pc'[t] \notin DonePCs
    BY <1>5 DEF DonePCs
  <2> QED
    BY <2>1, DoneShown
<1>9. AbstractSeen'[t] = {} /\ AbstractMissing'[t] = {}
  BY <1>3, <1>5 DEF AbstractSeen, AbstractMissing, FdsOf
<1>10. UNCHANGED <<AbstractDone, AbstractSeen, AbstractMissing>>
  <2>1. /\ AbstractDone = [u \in Threads |-> AbstractDone[u]]
        /\ AbstractSeen = [u \in Threads |-> AbstractSeen[u]]
        /\ AbstractMissing = [u \in Threads |-> AbstractMissing[u]]
    BY ShownAreFunctions
  <2>2. /\ AbstractDone'[t] = AbstractDone[t]
        /\ AbstractSeen'[t] = AbstractSeen[t]
        /\ AbstractMissing'[t] = AbstractMissing[t]
    BY <1>6, <1>8, <1>9
  <2> QED
    BY <1>4, <2>1, <2>2
<1>11. UNCHANGED <<AbstractState, AbstractFailed>>
  BY <1>1, <1>3, UsableSame DEF AbstractFailed
<1>12. hEvent' = [hEvent EXCEPT ![t] = NULL]
  BY <1>1, <1>3, <1>6 DEF TypeOK
<1>13. \A e \in MRE!Members(hs) : AbstractState[e] # "closed"
  BY <1>1, <1>2, UsedAreOpen DEF Members, MRE!Members
<1>14. hs \in MRE!Arrays
  BY <1>2, ValidArrayRefines
<1>15. MRE!BeginWait(t, hs)
  BY <1>2, <1>3, <1>4, <1>6, <1>7, <1>10, <1>11, <1>12, <1>13 DEF MRE!BeginWait, MRE!Begin
<1> QED
  BY <1>14, <1>15

(* A step of a select() shows in what the wait has found.                  *)
LEMMA SelectShown ==
  ASSUME TypeOK, NEW t \in Threads, SelectPoll(t) \/ SelectWake(t)
  PROVE  /\ AbstractOp[t] = "wait"
         /\ UNCHANGED <<AbstractState, AbstractOp, hEvent, AbstractDone, lphEvents, result,
                        AbstractFailed>>
         /\ AbstractSeen' = [AbstractSeen EXCEPT ![t] = AbstractSeen'[t]]
         /\ AbstractMissing' = [AbstractMissing EXCEPT ![t] = AbstractMissing'[t]]
<1>1. /\ pc[t] = "select" /\ UNCHANGED <<counter, eventfd, pc, hEvent, lphEvents, result, lastError>>
      /\ \A u \in Threads \ {t} : unpolled'[u] = unpolled[u] /\ readfds'[u] = readfds[u]
  <2>1. /\ pc[t] = "select"
        /\ UNCHANGED <<counter, eventfd, pc, hEvent, lphEvents, result, lastError>>
    BY DEF SelectPoll, SelectWake, ScannedWithNone, memory
  <2>2. /\ \E S : unpolled' = [unpolled EXCEPT ![t] = S]
        /\ readfds' = readfds \/ \E S : readfds' = [readfds EXCEPT ![t] = S]
    BY DEF SelectPoll, SelectWake
  <2> QED
    BY <2>1, <2>2 DEF TypeOK
<1>2. OthersSame(t)
  BY <1>1 DEF OthersSame
<1>3. AbstractOp[t] = "wait"
  BY <1>1 DEF AbstractOp, SettingPCs, ResettingPCs
<1>4. UNCHANGED <<AbstractOp, AbstractDone, AbstractFailed>>
  BY <1>1 DEF AbstractOp, AbstractDone, AbstractFailed
<1>5. UNCHANGED AbstractState
  BY <1>1 DEF AbstractState, Usable, Live
<1> QED
  BY <1>1, <1>2, <1>3, <1>4, <1>5, OthersShown

(* Polling a descriptor is looking at the event that has it; at one that   *)
(* was found readable before, or that no event of the array has, it is     *)
(* nothing.                                                                *)
LEMMA SelectPollRefines ==
  ASSUME RefInv, NEW t \in Threads, SelectPoll(t)
  PROVE  MRE!Look(t) \/ UNCHANGED MRE!vars
<1> DEFINE hs == lphEvents[t]
<1>1. TypeOK /\ LocalsMatchPC /\ UsedAreLive /\ DescriptorsOwned /\ FlagOrMidway
  BY DEF RefInv, Inv
<1>2. PICK fd \in unpolled[t] :
        /\ unpolled' = [unpolled EXCEPT ![t] = unpolled[t] \ {fd}]
        /\ readfds' = IF counter[fd] > 0 THEN [readfds EXCEPT ![t] = readfds[t] \cup {fd}]
                                         ELSE readfds
  BY DEF SelectPoll
<1>3. UNCHANGED <<eventfd, lphEvents>>
  BY DEF SelectPoll, memory
<1>4. /\ unpolled'[t] = unpolled[t] \ {fd}
      /\ readfds'[t] = IF counter[fd] > 0 THEN readfds[t] \cup {fd} ELSE readfds[t]
  BY <1>1, <1>2 DEF TypeOK
<1>5. /\ AbstractSeen[t] = {e \in Members(hs) : eventfd[e] \in readfds[t]}
      /\ AbstractSeen'[t] = {e \in Members(hs) : eventfd[e] \in readfds'[t]}
      /\ AbstractMissing[t] = {e \in Members(hs) : eventfd[e] \notin readfds[t] \cup unpolled[t]}
      /\ AbstractMissing'[t] = {e \in Members(hs) : eventfd[e] \notin readfds'[t] \cup unpolled'[t]}
  BY <1>3 DEF AbstractSeen, AbstractMissing
<1>6. Members(hs) \subseteq Usable
  BY <1>1, UsedAreOpen
<1>7. AbstractSeen = [u \in Threads |-> AbstractSeen[u]]
      /\ AbstractMissing = [u \in Threads |-> AbstractMissing[u]]
  BY ShownAreFunctions
<1>8. CASE \E e \in Members(hs) : eventfd[e] = fd
  <2>1. PICK e \in Members(hs) : eventfd[e] = fd
    BY <1>8
  <2>2. \A f \in Members(hs) : eventfd[f] = fd <=> f = e
    BY <1>1, <1>6, <2>1 DEF DescriptorsOwned
  <2>3. CASE counter[fd] > 0
    <3>1. AbstractState[e] = "set"
      BY <1>1, <1>6, <2>1, <2>3, UsedAreOpen
    <3>2. AbstractSeen'[t] = AbstractSeen[t] \cup {e}
      BY <1>4, <1>5, <2>2, <2>3
    <3>3. AbstractMissing'[t] = AbstractMissing[t]
      BY <1>2, <1>4, <1>5, <2>2, <2>3
    <3>4. AbstractMissing' = AbstractMissing
      BY <1>1, <1>7, <3>3, SelectShown
    <3>5. AbstractSeen' = [AbstractSeen EXCEPT ![t] = AbstractSeen[t] \cup {e}]
      BY <1>1, <3>2, SelectShown
    <3>6. e \in MRE!Members(hs)
      BY <2>1 DEF Members, MRE!Members
    <3> QED
      BY <1>1, <3>1, <3>4, <3>5, <3>6, SelectShown DEF MRE!Look
  <2>4. CASE ~(counter[fd] > 0) /\ fd \notin readfds[t]
    <3>1. AbstractState[e] = "unset"
      BY <1>1, <1>6, <2>1, <2>4, UsedAreOpen
    <3>2. AbstractMissing'[t] = AbstractMissing[t] \cup {e}
      BY <1>4, <1>5, <2>2, <2>4
    <3>3. AbstractSeen'[t] = AbstractSeen[t]
      BY <1>4, <1>5, <2>4
    <3>4. AbstractSeen' = AbstractSeen
      BY <1>1, <1>7, <3>3, SelectShown
    <3>5. AbstractMissing' = [AbstractMissing EXCEPT ![t] = AbstractMissing[t] \cup {e}]
      BY <1>1, <3>2, SelectShown
    <3>6. e \in MRE!Members(hs)
      BY <2>1 DEF Members, MRE!Members
    <3> QED
      BY <1>1, <3>1, <3>4, <3>5, <3>6, SelectShown DEF MRE!Look
  <2>5. CASE ~(counter[fd] > 0) /\ fd \in readfds[t]
    <3>1. AbstractSeen'[t] = AbstractSeen[t] /\ AbstractMissing'[t] = AbstractMissing[t]
      BY <1>4, <1>5, <2>5
    <3>2. AbstractSeen' = AbstractSeen /\ AbstractMissing' = AbstractMissing
      BY <1>1, <1>7, <3>1, SelectShown
    <3> QED
      BY <1>1, <3>2, SelectShown DEF MRE!vars
  <2> QED
    BY <2>3, <2>4, <2>5
<1>9. CASE ~ \E e \in Members(hs) : eventfd[e] = fd
  <2>1. AbstractSeen'[t] = AbstractSeen[t] /\ AbstractMissing'[t] = AbstractMissing[t]
    BY <1>4, <1>5, <1>9
  <2>2. AbstractSeen' = AbstractSeen /\ AbstractMissing' = AbstractMissing
    BY <1>1, <1>7, <2>1, SelectShown
  <2> QED
    BY <1>1, <2>2, SelectShown DEF MRE!vars
<1> QED
  BY <1>8, <1>9

(* A select() that found nothing polls every descriptor again.             *)
LEMMA SelectWakeRefines ==
  ASSUME RefInv, NEW t \in Threads, SelectWake(t)
  PROVE  MRE!LookAgain(t)
<1>1. TypeOK
  BY DEF RefInv, Inv
<1>2. /\ readfds[t] = {} /\ UNCHANGED <<readfds, eventfd, lphEvents>>
      /\ unpolled'[t] = FdsOf(Members(lphEvents[t]))
  BY <1>1 DEF SelectWake, ScannedWithNone, TypeOK, memory
<1>3. AbstractSeen[t] = {} /\ AbstractSeen'[t] = {}
  BY <1>2 DEF AbstractSeen
<1>4. AbstractMissing'[t] = {}
  BY <1>2 DEF AbstractMissing, FdsOf
<1>5. AbstractSeen' = AbstractSeen
  BY <1>1, <1>3, SelectShown, ShownAreFunctions
<1> QED
  BY <1>1, <1>3, <1>4, <1>5, SelectShown DEF MRE!LookAgain

(* A wait returns the first event of its array that it found set, times    *)
(* out when it found all of them unset, or is interrupted.                 *)
LEMMA WaitEndsRefine ==
  ASSUME RefInv, NEW t \in Threads
  PROVE  /\ WaitReturn(t) => MRE!Wake(t)
         /\ WaitTimeout(t) => MRE!TimeOut(t)
         /\ WaitInterrupted(t) => MRE!Fail(t)
<1>1. TypeOK
  BY DEF RefInv, Inv
<1>2. ASSUME pc[t] = "select", UNCHANGED memory, NEW r, NEW err, Return(t, r, err)
      PROVE  /\ MRE!End(t, r, err # "0") /\ AbstractState' = AbstractState
             /\ AbstractOp[t] = "wait" /\ ~AbstractDone[t]
  <2>1. UNCHANGED <<counter, eventfd>>
    BY <1>2 DEF memory
  <2>2. MRE!End(t, r, err # "0") /\ AbstractState' = AbstractState
    BY <1>1, <1>2, <2>1, ReturnEnds, UsableSame
  <2>3. AbstractOp[t] = "wait"
    BY <1>2 DEF AbstractOp, SettingPCs, ResettingPCs
  <2>4. pc[t] \notin DonePCs
    BY <1>2 DEF DonePCs
  <2> QED
    BY <2>2, <2>3, <2>4, DoneShown
<1>3. ("0" # "0") = FALSE /\ ("WSAENETDOWN" # "0") = TRUE
  OBVIOUS
<1>4. ASSUME WaitReturn(t) PROVE MRE!Wake(t)
  <2>1. PICK i \in DOMAIN lphEvents[t] : FirstReady(t, i) /\ Return(t, lphEvents[t][i], "0")
    BY <1>4 DEF WaitReturn
  <2>2. pc[t] = "select" /\ unpolled[t] = {} /\ UNCHANGED memory
    BY <1>4 DEF WaitReturn
  <2>3. lphEvents[t][i] \in AbstractSeen[t]
    BY <2>1 DEF FirstReady, AbstractSeen, Members
  <2>4. \A j \in 1..(i - 1) : j \in DOMAIN lphEvents[t]
    <3>1. lphEvents[t] \in ArraysOf(Events, MaxWait)
      BY <1>1 DEF TypeOK
    <3>2. PICK n \in 0..MaxWait : lphEvents[t] \in [1..n -> Events]
      BY <3>1 DEF ArraysOf
    <3> QED
      BY <2>1, <3>2
  <2>5. \A j \in 1..(i - 1) : lphEvents[t][j] \in AbstractMissing[t]
    BY <2>1, <2>2, <2>4 DEF FirstReady, AbstractMissing, Members
  <2>6. MRE!End(t, lphEvents[t][i], FALSE) /\ AbstractState' = AbstractState /\ AbstractOp[t] = "wait"
    BY <1>2, <1>3, <2>1, <2>2
  <2> QED
    BY <2>1, <2>3, <2>5, <2>6 DEF MRE!Wake
<1>5. ASSUME WaitTimeout(t) PROVE MRE!TimeOut(t)
  <2>1. /\ pc[t] = "select" /\ unpolled[t] = {} /\ readfds[t] = {} /\ UNCHANGED memory
        /\ Return(t, "WAIT_TIMEOUT", "0")
    BY <1>5 DEF WaitTimeout, ScannedWithNone
  <2>2. MRE!Members(lphEvents[t]) \subseteq AbstractMissing[t]
    BY <2>1 DEF AbstractMissing, Members, MRE!Members
  <2>3. MRE!End(t, "WAIT_TIMEOUT", FALSE) /\ AbstractState' = AbstractState /\ AbstractOp[t] = "wait"
    BY <1>2, <1>3, <2>1
  <2> QED
    BY <2>2, <2>3 DEF MRE!TimeOut
<1>6. ASSUME WaitInterrupted(t) PROVE MRE!Fail(t)
  <2>1. pc[t] = "select" /\ UNCHANGED memory /\ Return(t, "WAIT_FAILED", "WSAENETDOWN")
    BY <1>6 DEF WaitInterrupted, ScannedWithNone
  <2>2. /\ MRE!End(t, "WAIT_FAILED", TRUE) /\ AbstractState' = AbstractState
        /\ AbstractOp[t] = "wait" /\ ~AbstractDone[t]
    BY <1>2, <1>3, <2>1
  <2> QED
    BY <2>2 DEF MRE!Fail
<1> QED
  BY <1>4, <1>5, <1>6

(* Every step of the code is a step of the abstract specification, or      *)
(* invisible.                                                              *)
LEMMA StepRefines == RefInv /\ [Next]_vars => [MRE!Next]_(MRE!vars)
<1> SUFFICES ASSUME RefInv, [Next]_vars PROVE MRE!Next \/ UNCHANGED MRE!vars
  OBVIOUS
<1>1. CASE UNCHANGED vars
  <2>1. UNCHANGED <<counter, eventfd, pc, hEvent, lphEvents, unpolled, readfds, result, lastError>>
    BY <1>1 DEF vars, memory, locals
  <2>2. UNCHANGED <<AbstractOp, AbstractDone, AbstractSeen, AbstractMissing, AbstractFailed>>
    BY <2>1 DEF AbstractOp, AbstractDone, AbstractSeen, AbstractMissing, AbstractFailed
  <2>3. UNCHANGED AbstractState
    BY <2>1 DEF AbstractState, Usable, Live
  <2> QED
    BY <2>1, <2>2, <2>3 DEF MRE!vars
<1>2. ASSUME NEW t \in Threads, Begin(t) PROVE MRE!Next
  <2>1. CASE CreateEventfd(t)
    BY <2>1, CreateEventfdRefines DEF MRE!Next
  <2>2. CASE CloseEventfd(t)
    BY <2>2, CloseEventfdRefines DEF MRE!Next
  <2>3. CASE SetEvent(t) \/ ResetEvent(t)
    BY <2>3, CallOnEventRefines DEF MRE!Next
  <2>4. CASE WaitBegin(t)
    BY <2>4, WaitBeginRefines DEF MRE!Next
  <2>5. CASE CreateEventfdFails(t) \/ CloseSetOrResetNull(t) \/ WaitRefused(t)
    <3>1. PICK r \in {"NULL", "FALSE", "WAIT_FAILED"}, err \in Errors \ {"0"} : Refuse(t, r, err)
      BY <2>5 DEF CreateEventfdFails, CloseSetOrResetNull, WaitRefused, Errors
    <3> QED
      BY <3>1, RefusalRefines DEF MRE!Next
  <2> QED
    BY <1>2, <2>1, <2>2, <2>3, <2>4, <2>5 DEF Begin
<1>3. ASSUME NEW t \in Threads, Step(t) PROVE MRE!Next \/ UNCHANGED MRE!vars
  <2>1. CASE CreateMalloc(t)
    BY <2>1, CreateMallocRefines DEF MRE!Next
  <2>2. CASE CreateMallocFails(t)
    BY <2>2, CreateMallocFailsRefines DEF MRE!Next
  <2>3. CASE CloseFree(t)
    BY <2>3, CloseFreeRefines DEF MRE!Next
  <2>4. CASE SetLock(t) \/ SetFlag(t) \/ ResetLock(t) \/ ResetFlag(t)
    BY <2>4, LockAndFlagStutter
  <2>5. CASE SetWrite(t)
    BY <2>5, SetWriteRefines DEF MRE!Next
  <2>6. CASE ResetDrain(t)
    BY <2>6, ResetDrainRefines DEF MRE!Next
  <2>7. CASE SetUnlock(t) \/ ResetUnlock(t)
    BY <2>7, UnlockRefines DEF MRE!Next
  <2>8. CASE SelectPoll(t)
    BY <2>8, SelectPollRefines DEF MRE!Next
  <2>9. CASE SelectWake(t)
    BY <2>9, SelectWakeRefines DEF MRE!Next
  <2>10. CASE WaitReturn(t) \/ WaitTimeout(t)
    BY <2>10, WaitEndsRefine DEF MRE!Next
  <2> QED
    BY <1>3, <2>1, <2>2, <2>3, <2>4, <2>5, <2>6, <2>7, <2>8, <2>9, <2>10 DEF Step
<1>4. ASSUME NEW t \in Threads, WaitInterrupted(t) PROVE MRE!Next
  BY <1>4, WaitEndsRefine DEF MRE!Next
<1> QED
  BY <1>1, <1>2, <1>3, <1>4 DEF Next

(* No event is open and no call is in progress at the beginning.           *)
LEMMA InitRefines == Init => MRE!Init
<1> SUFFICES ASSUME Init PROVE MRE!Init
  OBVIOUS
<1>1. AbstractState = [e \in Events |-> "closed"]
  BY DEF Init, AbstractState, Usable, Live
<1>2. AbstractOp = [t \in Threads |-> "idle"]
  BY DEF Init, AbstractOp, SettingPCs, ResettingPCs
<1>3. AbstractDone = [t \in Threads |-> FALSE]
  <2>1. \A t \in Threads : pc[t] \notin DonePCs
    BY DEF Init, DonePCs
  <2>2. \A t \in Threads : AbstractDone[t] = FALSE
    BY <2>1, DoneShown
  <2> QED
    BY <2>2, ShownAreFunctions
<1>4. \A t \in Threads : lphEvents[t] = <<>>
  BY DEF Init
<1>5. AbstractSeen = [t \in Threads |-> {}] /\ AbstractMissing = [t \in Threads |-> {}]
  <2>1. \A t \in Threads : AbstractSeen[t] = {} /\ AbstractMissing[t] = {}
    BY <1>4, NothingShown
  <2> QED
    BY <2>1, ShownAreFunctions
<1>6. AbstractFailed = [t \in Threads |-> FALSE]
  BY DEF Init, AbstractFailed
<1> QED
  BY <1>1, <1>2, <1>3, <1>5, <1>6 DEF Init, MRE!Init

(* The event functions implement manual-reset events: seen from outside,   *)
(* each call takes effect at one instant although the flag, the descriptor *)
(* and the mutex are accessed one at a time, a wait that takes no mutex    *)
(* returns the first event of its array found set and times out only after *)
(* it found all of them unset, and the error code is 0 exactly after       *)
(* success.                                                                *)
THEOREM Refinement == Spec => ImplementsManualResetEvent
<1>1. Init => NothingRead
  BY DEF Init, NothingRead
<1>2. Inv => TypeOK
  BY DEF Inv
<1>3. Spec => []RefInv
  BY <1>1, <1>2, NothingReadStep, Invariance, PTL DEF Spec, RefInv
<1> QED
  BY <1>3, InitRefines, StepRefines, PTL DEF Spec, ImplementsManualResetEvent, MRE!Spec
=============================================================================
