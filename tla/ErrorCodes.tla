----------------------------- MODULE ErrorCodes -----------------------------
(***************************************************************************)
(* The error codes of winsock2_api.h and the mapping of errno to them,     *)
(* errno_to_wsa_error, which winsock2.c and wsa_extended.c each define in  *)
(* the same words.  An error of a system call is its Linux number.         *)
(***************************************************************************)
EXTENDS Naturals

(* As in WSAEvents, MutX is X with a bug in it, for README.md's table.     *)

WSABASEERR == 10000

(* Linux numbers of the errors that the mapping has a case for ... *)
Errno ==
  [EINTR |-> 4, EBADF |-> 9, EACCES |-> 13, EFAULT |-> 14, EINVAL |-> 22, EMFILE |-> 24,
   EWOULDBLOCK |-> 11, EINPROGRESS |-> 115, EALREADY |-> 114, ENOTSOCK |-> 88,
   EDESTADDRREQ |-> 89, EMSGSIZE |-> 90, EPROTOTYPE |-> 91, ENOPROTOOPT |-> 92,
   EPROTONOSUPPORT |-> 93, ESOCKTNOSUPPORT |-> 94, EOPNOTSUPP |-> 95, EPFNOSUPPORT |-> 96,
   EAFNOSUPPORT |-> 97, EADDRINUSE |-> 98, EADDRNOTAVAIL |-> 99, ENETDOWN |-> 100,
   ENETUNREACH |-> 101, ENETRESET |-> 102, ECONNABORTED |-> 103, ECONNRESET |-> 104,
   ENOBUFS |-> 105, EISCONN |-> 106, ENOTCONN |-> 107, ESHUTDOWN |-> 108,
   ETOOMANYREFS |-> 109, ETIMEDOUT |-> 110, ECONNREFUSED |-> 111, ELOOP |-> 40,
   ENAMETOOLONG |-> 36, EHOSTDOWN |-> 112, EHOSTUNREACH |-> 113, ENOTEMPTY |-> 39,
   EUSERS |-> 87, EDQUOT |-> 122, ESTALE |-> 116, EREMOTE |-> 66]

(* ... and of some it has none for. *)
ENOMEM == 12
ENOTTY == 25
EPROTO == 71

(* The Winsock number of the error of the same name, less WSABASEERR, and  *)
(* that of WSAEPROCLIM, whose name Linux does not have.                    *)
Winsock ==
  [EINTR |-> 4, EBADF |-> 9, EACCES |-> 13, EFAULT |-> 14, EINVAL |-> 22, EMFILE |-> 24,
   EWOULDBLOCK |-> 35, EINPROGRESS |-> 36, EALREADY |-> 37, ENOTSOCK |-> 38,
   EDESTADDRREQ |-> 39, EMSGSIZE |-> 40, EPROTOTYPE |-> 41, ENOPROTOOPT |-> 42,
   EPROTONOSUPPORT |-> 43, ESOCKTNOSUPPORT |-> 44, EOPNOTSUPP |-> 45, EPFNOSUPPORT |-> 46,
   EAFNOSUPPORT |-> 47, EADDRINUSE |-> 48, EADDRNOTAVAIL |-> 49, ENETDOWN |-> 50,
   ENETUNREACH |-> 51, ENETRESET |-> 52, ECONNABORTED |-> 53, ECONNRESET |-> 54,
   ENOBUFS |-> 55, EISCONN |-> 56, ENOTCONN |-> 57, ESHUTDOWN |-> 58,
   ETOOMANYREFS |-> 59, ETIMEDOUT |-> 60, ECONNREFUSED |-> 61, ELOOP |-> 62,
   ENAMETOOLONG |-> 63, EHOSTDOWN |-> 64, EHOSTUNREACH |-> 65, ENOTEMPTY |-> 66,
   EPROCLIM |-> 67, EUSERS |-> 68, EDQUOT |-> 69, ESTALE |-> 70, EREMOTE |-> 71]

Cased == DOMAIN Errno

WSA(name) == WSABASEERR + Winsock[name]

MutErrnoToWsaError(err) ==   \* no table
  IF err = 0 THEN 0 ELSE WSABASEERR + err

(* A number outside the table keeps its value: it is shifted into the      *)
(* range where another error may live.                                     *)
errno_to_wsa_error(err) ==
  IF err = 0 THEN 0
  ELSE IF \E name \in Cased : Errno[name] = err
       THEN WSA(CHOOSE name \in Cased : Errno[name] = err)
       ELSE WSABASEERR + err

(* The errors for which that is the code of another error: all Linux       *)
(* numbers from EDEADLK, which comes out as WSAEWOULDBLOCK, to EPROTO,     *)
(* which comes out as WSAEREMOTE, but for the four that have a case.       *)
(* ENOLCK, ENOSYS, ENODATA, ETIME, ENOSR and ENONET are among them.        *)
Mistaken == (35..71) \ {Errno.ENAMETOOLONG, Errno.ENOTEMPTY, Errno.ELOOP, Errno.EREMOTE}
=============================================================================
