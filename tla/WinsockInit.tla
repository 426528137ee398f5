----------------------------- MODULE WinsockInit -----------------------------
(***************************************************************************)
(* WSAStartup, WSACleanup and the last-error variable                      *)
(* (winsock2.c): a process-wide count of initialisations that threads load *)
(* and store under a mutex, and an error code per thread.                  *)
(***************************************************************************)
EXTENDS Integers

(* As in WSAEvents, MutX is X with a bug in it, for README.md's table.     *)

CONSTANTS Threads,    \* threads of the application
          Versions,   \* wVersionRequested arguments, as <<LOBYTE, HIBYTE>>
          ErrorCodes, \* codes that applications give to WSASetLastError
          MaxCount,   \* bound on the number of initialisations outstanding
          NULL

ASSUME NullAssumption == NULL \notin Threads \cup Versions
ASSUME VersionsAssumption == Versions \subseteq (0..255) \X (0..255)
ASSUME MaxCountAssumption == MaxCount \in Nat \ {0}
ASSUME ErrorCodesAssumption == "0" \in ErrorCodes

VARIABLES initCount,   \* g_wsa_init_count
          mutex,       \* g_wsa_init_mutex: the thread that holds it, or NULL
          pc,          \* pc[t]: where thread t is
          version,     \* version[t]: the wVersionRequested of its WSAStartup
          wsaData,     \* wsaData[t]: the version in the WSADATA that t last passed
          register,    \* register[t]: initCount as t last loaded it
          result,      \* result[t]: what its last call returned
          lastError,   \* lastError[t]: g_wsa_last_error of thread t
          balance      \* startups that returned 0 less cleanups that did

vars == <<initCount, mutex, pc, version, wsaData, register, result, lastError, balance>>

Init ==
  /\ initCount = 0
  /\ mutex = NULL
  /\ pc = [t \in Threads |-> "idle"]
  /\ version = [t \in Threads |-> NULL]
  /\ wsaData = [t \in Threads |-> NULL]
  /\ register = [t \in Threads |-> 0]
  /\ result = [t \in Threads |-> "none"]
  /\ lastError = [t \in Threads |-> "0"]
  /\ balance = 0

Goto(t, from, to) == pc[t] = from /\ pc' = [pc EXCEPT ![t] = to]

Lock(t) == mutex = NULL /\ mutex' = t

(* Every way out of the two functions unlocks first; none of them assigns  *)
(* the last error.                                                         *)
UnlockAndReturn(t, r) ==
  /\ mutex' = NULL
  /\ pc' = [pc EXCEPT ![t] = "idle"]
  /\ version' = [version EXCEPT ![t] = NULL]
  /\ register' = [register EXCEPT ![t] = 0]
  /\ result' = [result EXCEPT ![t] = r]
  /\ UNCHANGED lastError

(* LOBYTE is the major version: 0.x and 1.0 are refused. *)
Supported(v) == v[1] >= 1 /\ ~(v[1] = 1 /\ v[2] < 1)

(***************************************************************************)
(* WSAStartup.  version[t] = NULL stands for lpWSAData = NULL.             *)
(***************************************************************************)
Startup(t) ==
  /\ balance < MaxCount
  /\ Goto(t, "idle", "startup_lock")
  /\ \E v \in Versions \cup {NULL} : version' = [version EXCEPT ![t] = v]
  /\ result' = [result EXCEPT ![t] = "none"]
  /\ UNCHANGED <<initCount, mutex, wsaData, register, lastError, balance>>

MutStartupLock(t) ==   \* without the lock
  /\ Goto(t, "startup_lock", "startup_check")
  /\ UNCHANGED <<initCount, mutex, version, wsaData, register, result, lastError, balance>>

StartupLock(t) ==
  /\ Goto(t, "startup_lock", "startup_check")
  /\ Lock(t)
  /\ UNCHANGED <<initCount, version, wsaData, register, result, lastError, balance>>

StartupFaults(t) ==
  /\ pc[t] = "startup_check"
  /\ version[t] = NULL
  /\ UnlockAndReturn(t, "WSAEFAULT")
  /\ UNCHANGED <<initCount, wsaData, balance>>

MutStartupRefuses(t) ==   \* without the unlock
  /\ Goto(t, "startup_check", "idle")
  /\ version[t] # NULL
  /\ ~Supported(version[t])
  /\ result' = [result EXCEPT ![t] = "WSAVERNOTSUPPORTED"]
  /\ version' = [version EXCEPT ![t] = NULL]
  /\ UNCHANGED <<initCount, mutex, wsaData, register, lastError, balance>>

(* The WSADATA is filled in before the version is looked at. *)
StartupRefuses(t) ==
  /\ pc[t] = "startup_check"
  /\ version[t] # NULL
  /\ ~Supported(version[t])
  /\ wsaData' = [wsaData EXCEPT ![t] = version[t]]
  /\ UnlockAndReturn(t, "WSAVERNOTSUPPORTED")
  /\ UNCHANGED <<initCount, balance>>

StartupLoad(t) ==
  /\ Goto(t, "startup_check", "startup_store")
  /\ version[t] # NULL
  /\ Supported(version[t])
  /\ wsaData' = [wsaData EXCEPT ![t] = version[t]]
  /\ register' = [register EXCEPT ![t] = initCount]
  /\ UNCHANGED <<initCount, mutex, version, result, lastError, balance>>

StartupStore(t) ==
  /\ pc[t] = "startup_store"
  /\ initCount' = register[t] + 1
  /\ balance' = balance + 1
  /\ UnlockAndReturn(t, "0")
  /\ UNCHANGED wsaData

(***************************************************************************)
(* WSACleanup                                                              *)
(***************************************************************************)
Cleanup(t) ==
  /\ Goto(t, "idle", "cleanup_lock")
  /\ result' = [result EXCEPT ![t] = "none"]
  /\ UNCHANGED <<initCount, mutex, version, wsaData, register, lastError, balance>>

MutCleanupLock(t) ==   \* without the lock
  /\ Goto(t, "cleanup_lock", "cleanup_check")
  /\ UNCHANGED <<initCount, mutex, version, wsaData, register, result, lastError, balance>>

CleanupLock(t) ==
  /\ Goto(t, "cleanup_lock", "cleanup_check")
  /\ Lock(t)
  /\ UNCHANGED <<initCount, version, wsaData, register, result, lastError, balance>>

MutCleanupRefuses(t) ==   \* off by one
  /\ pc[t] = "cleanup_check"
  /\ initCount <= 1
  /\ UnlockAndReturn(t, "WSANOTINITIALISED")
  /\ UNCHANGED <<initCount, wsaData, balance>>

CleanupRefuses(t) ==
  /\ pc[t] = "cleanup_check"
  /\ initCount = 0
  /\ UnlockAndReturn(t, "WSANOTINITIALISED")
  /\ UNCHANGED <<initCount, wsaData, balance>>

MutCleanupLoad(t) ==   \* whether or not anything is initialised
  /\ Goto(t, "cleanup_check", "cleanup_store")
  /\ register' = [register EXCEPT ![t] = initCount]
  /\ UNCHANGED <<initCount, mutex, version, wsaData, result, lastError, balance>>

CleanupLoad(t) ==
  /\ Goto(t, "cleanup_check", "cleanup_store")
  /\ initCount # 0
  /\ register' = [register EXCEPT ![t] = initCount]
  /\ UNCHANGED <<initCount, mutex, version, wsaData, result, lastError, balance>>

CleanupStore(t) ==
  /\ pc[t] = "cleanup_store"
  /\ initCount' = register[t] - 1
  /\ balance' = balance - 1
  /\ UnlockAndReturn(t, "0")
  /\ UNCHANGED wsaData

(***************************************************************************)
(* WSASetLastError.  (WSAGetLastError reads lastError[t], nothing more.)   *)
(***************************************************************************)
SetLastError(t) ==
  /\ pc[t] = "idle"
  /\ \E err \in ErrorCodes : lastError' = [lastError EXCEPT ![t] = err]
  /\ result' = [result EXCEPT ![t] = "none"]
  /\ UNCHANGED <<initCount, mutex, pc, version, wsaData, register, balance>>

-----------------------------------------------------------------------------
CallStep(t) ==
  \/ StartupLock(t) \/ StartupFaults(t) \/ StartupRefuses(t)
  \/ StartupLoad(t) \/ StartupStore(t)
  \/ CleanupLock(t) \/ CleanupRefuses(t) \/ CleanupLoad(t) \/ CleanupStore(t)

Next ==
  \E t \in Threads :
    Startup(t) \/ Cleanup(t) \/ CallStep(t) \/ SetLastError(t)

Spec == Init /\ [][Next]_vars

FairSpec == Spec /\ \A t \in Threads : WF_vars(CallStep(t))

-----------------------------------------------------------------------------
(***************************************************************************)
(* Properties                                                              *)
(***************************************************************************)
LockedPCs == {"startup_check", "startup_store", "cleanup_check", "cleanup_store"}
PCs == LockedPCs \cup {"idle", "startup_lock", "cleanup_lock"}
Results == {"none", "0", "WSAEFAULT", "WSAVERNOTSUPPORTED", "WSANOTINITIALISED"}

(* The type invariant: the count, in particular, is never negative.        *)
TypeOK ==
  /\ initCount \in Nat
  /\ mutex \in Threads \cup {NULL}
  /\ pc \in [Threads -> PCs]
  /\ version \in [Threads -> Versions \cup {NULL}]
  /\ wsaData \in [Threads -> Versions \cup {NULL}]
  /\ register \in [Threads -> Nat]
  /\ result \in [Threads -> Results]
  /\ lastError \in [Threads -> ErrorCodes]
  /\ balance \in Int

(* The count is the number of successful startups not yet cleaned up,      *)
(* whatever the interleaving of loads and stores: no update is lost.       *)
CountIsBalance == initCount = balance

(* What makes it so: the mutex is held exactly in the critical sections,   *)
(* and what a thread loaded there is still the count when it stores.       *)
LoadedIsCurrent ==
  \A t \in Threads :
    /\ pc[t] \in LockedPCs <=> mutex = t
    /\ pc[t] \in {"startup_store", "cleanup_store"} => register[t] = initCount
    /\ pc[t] = "cleanup_store" => initCount > 0

Inv == TypeOK /\ CountIsBalance /\ LoadedIsCurrent

(* WSACleanup returns WSANOTINITIALISED only when every successful startup *)
(* has been cleaned up.                                                    *)
RefusedOnlyWhenClean ==
  [][\A t \in Threads :
       result[t] # "WSANOTINITIALISED" /\ result'[t] = "WSANOTINITIALISED"
       => balance = 0]_vars

(* Whoever takes the mutex releases it, on each of the five ways out.      *)
MutexReleased == []<>(mutex = NULL)
=============================================================================
