-------------------------- MODULE WinsockInit_proofs --------------------------
(***************************************************************************)
(* Proofs about WSAStartup and WSACleanup, for any number of threads.  The *)
(* bound MaxCount is a guard of the model that no proof uses.              *)
(***************************************************************************)
EXTENDS WinsockInit, TLAPS

USE DEF LockedPCs, PCs, Results

(* Every step keeps the types.  LoadedIsCurrent is needed where WSACleanup *)
(* subtracts: what it loaded is above zero.                                *)
LEMMA TypeStep == TypeOK /\ LoadedIsCurrent /\ [Next]_vars => TypeOK'
<1> SUFFICES ASSUME TypeOK, LoadedIsCurrent, [Next]_vars PROVE TypeOK'
  OBVIOUS
<1>1. CASE UNCHANGED vars
  BY <1>1 DEF vars, TypeOK
<1>2. ASSUME NEW t \in Threads, Startup(t) \/ Cleanup(t) PROVE TypeOK'
  BY <1>2 DEF Startup, Cleanup, Goto, TypeOK
<1>3. ASSUME NEW t \in Threads, StartupLock(t) \/ CleanupLock(t) PROVE TypeOK'
  BY <1>3 DEF StartupLock, CleanupLock, Goto, Lock, TypeOK
<1>4. ASSUME NEW t \in Threads, StartupFaults(t) \/ StartupRefuses(t) \/ CleanupRefuses(t)
      PROVE  TypeOK'
  BY <1>4 DEF StartupFaults, StartupRefuses, CleanupRefuses, UnlockAndReturn, TypeOK
<1>5. ASSUME NEW t \in Threads, StartupLoad(t) \/ CleanupLoad(t) PROVE TypeOK'
  BY <1>5 DEF StartupLoad, CleanupLoad, Goto, TypeOK
<1>6. ASSUME NEW t \in Threads, StartupStore(t) PROVE TypeOK'
  BY <1>6 DEF StartupStore, UnlockAndReturn, TypeOK
<1>7. ASSUME NEW t \in Threads, CleanupStore(t) PROVE TypeOK'
  <2>1. register[t] \in Nat /\ register[t] > 0
    BY <1>7 DEF CleanupStore, LoadedIsCurrent, TypeOK
  <2> QED
    BY <1>7, <2>1 DEF CleanupStore, UnlockAndReturn, TypeOK
<1>8. ASSUME NEW t \in Threads, SetLastError(t) PROVE TypeOK'
  BY <1>8 DEF SetLastError, TypeOK
<1> QED
  BY <1>1, <1>2, <1>3, <1>4, <1>5, <1>6, <1>7, <1>8 DEF Next, CallStep

(* Only the thread that holds the mutex loads or stores the count.         *)
LEMMA LoadedStep == TypeOK /\ LoadedIsCurrent /\ [Next]_vars => LoadedIsCurrent'
<1> SUFFICES ASSUME TypeOK, LoadedIsCurrent, [Next]_vars PROVE LoadedIsCurrent'
  OBVIOUS
<1>1. CASE UNCHANGED vars
  BY <1>1 DEF vars, LoadedIsCurrent
<1>2. ASSUME NEW t \in Threads, Startup(t) \/ Cleanup(t) PROVE LoadedIsCurrent'
  BY <1>2 DEF Startup, Cleanup, Goto, TypeOK, LoadedIsCurrent
<1>3. ASSUME NEW t \in Threads, StartupLock(t) \/ CleanupLock(t) PROVE LoadedIsCurrent'
  BY <1>3, NullAssumption DEF StartupLock, CleanupLock, Goto, Lock, TypeOK, LoadedIsCurrent
<1>4. ASSUME NEW t \in Threads, StartupFaults(t) \/ StartupRefuses(t) \/ CleanupRefuses(t)
      PROVE  LoadedIsCurrent'
  BY <1>4, NullAssumption
     DEF StartupFaults, StartupRefuses, CleanupRefuses, UnlockAndReturn, TypeOK, LoadedIsCurrent
<1>5. ASSUME NEW t \in Threads, StartupLoad(t) \/ CleanupLoad(t) PROVE LoadedIsCurrent'
  BY <1>5 DEF StartupLoad, CleanupLoad, Goto, TypeOK, LoadedIsCurrent
<1>6. ASSUME NEW t \in Threads, StartupStore(t) \/ CleanupStore(t) PROVE LoadedIsCurrent'
  <2>1. mutex = t
    BY <1>6 DEF StartupStore, CleanupStore, LoadedIsCurrent
  <2>2. \A u \in Threads \ {t} : pc[u] \notin LockedPCs /\ pc'[u] = pc[u]
    BY <1>6, <2>1 DEF StartupStore, CleanupStore, UnlockAndReturn, TypeOK, LoadedIsCurrent
  <2>3. pc'[t] = "idle" /\ mutex' = NULL
    BY <1>6 DEF StartupStore, CleanupStore, UnlockAndReturn, TypeOK
  <2> QED
    BY <2>2, <2>3, NullAssumption DEF LoadedIsCurrent
<1>7. ASSUME NEW t \in Threads, SetLastError(t) PROVE LoadedIsCurrent'
  BY <1>7 DEF SetLastError, LoadedIsCurrent
<1> QED
  BY <1>1, <1>2, <1>3, <1>4, <1>5, <1>6, <1>7 DEF Next, CallStep

(* The stores add what was loaded, and what was loaded is current.         *)
LEMMA BalanceStep == Inv /\ [Next]_vars => CountIsBalance'
<1> SUFFICES ASSUME Inv, [Next]_vars PROVE CountIsBalance'
  OBVIOUS
<1> USE DEF Inv, CountIsBalance
<1>1. CASE UNCHANGED <<initCount, balance>>
  BY <1>1
<1>2. ASSUME NEW t \in Threads, StartupStore(t) \/ CleanupStore(t) PROVE CountIsBalance'
  BY <1>2 DEF StartupStore, CleanupStore, LoadedIsCurrent
<1> QED
  BY <1>1, <1>2
     DEF Next, CallStep, vars, Startup, Cleanup, StartupLock, CleanupLock, StartupFaults,
         StartupRefuses, CleanupRefuses, StartupLoad, CleanupLoad, SetLastError

(* Nothing is initialised at first.                                        *)
LEMMA InitInv == Init => Inv
  BY NullAssumption, ErrorCodesAssumption DEF Init, Inv, TypeOK, CountIsBalance, LoadedIsCurrent

(* The inductive invariant holds in every reachable state: the mutex       *)
(* guards the count, and no update of it is lost.                          *)
THEOREM Invariance == Spec => []Inv
<1>1. Inv /\ [Next]_vars => Inv'
  BY TypeStep, LoadedStep, BalanceStep DEF Inv
<1> QED
  BY InitInv, <1>1, PTL DEF Spec

(* No startup and no cleanup is lost: the count of initialisations is      *)
(* always the number of successful WSAStartup calls less that of           *)
(* successful WSACleanup calls.                                            *)
THEOREM CountCorrect == Spec => []CountIsBalance
<1>1. Inv => CountIsBalance
  BY DEF Inv
<1> QED
  BY <1>1, Invariance, PTL

(* The types hold; in particular the count never goes below zero.          *)
THEOREM TypeCorrect == Spec => []TypeOK
<1>1. Inv => TypeOK
  BY DEF Inv
<1> QED
  BY <1>1, Invariance, PTL

(* A WSACleanup that returns WSANOTINITIALISED found nothing outstanding.  *)
THEOREM RefusalCorrect == Spec => RefusedOnlyWhenClean
<1> DEFINE Refusal == \A t \in Threads :
                        result[t] # "WSANOTINITIALISED" /\ result'[t] = "WSANOTINITIALISED"
                        => balance = 0
<1>1. Inv /\ [Next]_vars => [Refusal]_vars
  <2> SUFFICES ASSUME Inv, Next PROVE Refusal
    BY DEF vars
  <2>1. ASSUME NEW t \in Threads, CleanupRefuses(t) PROVE Refusal
    BY <2>1 DEF CleanupRefuses, Inv, CountIsBalance
  <2>2. ASSUME NEW t \in Threads,
               \/ Startup(t) \/ Cleanup(t) \/ StartupLock(t) \/ CleanupLock(t)
               \/ StartupLoad(t) \/ CleanupLoad(t) \/ SetLastError(t)
        PROVE  Refusal
    BY <2>2 DEF Startup, Cleanup, StartupLock, CleanupLock, StartupLoad, CleanupLoad,
                SetLastError, Inv, TypeOK
  <2>3. ASSUME NEW t \in Threads,
               \/ StartupFaults(t) \/ StartupRefuses(t) \/ StartupStore(t) \/ CleanupStore(t)
        PROVE  Refusal
    BY <2>3 DEF StartupFaults, StartupRefuses, StartupStore, CleanupStore, UnlockAndReturn,
                Inv, TypeOK
  <2> QED
    BY <2>1, <2>2, <2>3 DEF Next, CallStep
<1> QED
  BY <1>1, Invariance, PTL DEF Spec, RefusedOnlyWhenClean
=============================================================================
