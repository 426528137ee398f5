--------------------------- MODULE AddressStrings ---------------------------
(***************************************************************************)
(* The conversions of wsa_addr.c between addresses, strings and wide       *)
(* strings.  A string is a sequence of tokens of length one, a colon or a  *)
(* number as it is written; a dotted IPv4 address is one token, the number *)
(* it begins with.  Every array has one place more than its longest        *)
(* string, for the terminator.                                             *)
(***************************************************************************)
EXTENDS ErrorCodes, Integers, Sequences

(* As in WSAEvents, MutX is X with a bug in it, for README.md's table.     *)

CONSTANTS Ntop,              \* Ntop[family][host]: what inet_ntop() writes
          INET6_ADDRSTRLEN,
          NoAddress          \* no host, no address

COLON == -1
STRANGE == -2   \* a wide character that the locale has no bytes for

Families == DOMAIN Ntop
SockaddrLength == [AF_INET |-> 16, AF_INET6 |-> 28]
Ports == 0..(2^16 - 1)
Address == UNION {[family : {af}, host : DOMAIN Ntop[af], port : Ports] : af \in Families}

ASSUME NtopAssumption ==
  /\ INET6_ADDRSTRLEN \in Nat
  /\ NoAddress \notin Address
  /\ Families = DOMAIN SockaddrLength
  /\ \A af \in Families : NoAddress \notin DOMAIN Ntop[af]
  /\ \A af \in Families : \A h, other \in DOMAIN Ntop[af] :
       /\ Ntop[af][h] \in Seq({COLON} \cup Nat)
       /\ Len(Ntop[af][h]) < INET6_ADDRSTRLEN
       /\ Ntop[af][h] = Ntop[af][other] => h = other

(* buffer of WSAAddressToString and of WSAStringToAddressW *)
BufferSize == INET6_ADDRSTRLEN + 2

Prefix(text, n) == SubSeq(text, 1, IF n < Len(text) THEN n ELSE Len(text))

InetPton(af, text) ==
  IF \E h \in DOMAIN Ntop[af] : Ntop[af][h] = text
  THEN CHOOSE h \in DOMAIN Ntop[af] : Ntop[af][h] = text
  ELSE NoAddress

(* mbstowcs() into an array of size places: a string that does not fit is  *)
(* cut and gets no terminator.                                             *)
Widened(text, size) == Prefix(text, size)

(* What a callee may read after wcstombs() into an array of size places:   *)
(* a string that does not fit goes on with what lies behind the array.     *)
Narrowed(text, size) ==
  IF Len(text) < size THEN {text}
  ELSE {Prefix(text, size) \o stray : stray \in {<<>>, <<COLON>>, <<0>>}}

(***************************************************************************)
(* WSAAddressToString.  size is *lpdwAddressStringLength.                  *)
(***************************************************************************)
Printed(error, length, text) == [error |-> error, length |-> length, text |-> text]

Buffer(address) == Ntop[address.family][address.host] \o <<COLON, address.port>>

MutCopied(buffer, size) ==   \* returns the length without the terminator
  IF size < Len(buffer) + 1 THEN Printed(WSA("EFAULT"), Len(buffer), <<>>)
  ELSE Printed(0, Len(buffer), buffer)

Copied(buffer, size) ==
  LET len == Len(buffer) + 1
  IN IF size < len THEN Printed(WSA("EFAULT"), len, <<>>) ELSE Printed(0, len, buffer)

WSAAddressToStringA(address, size) ==
  IF address = NoAddress THEN Printed(WSA("EFAULT"), size, <<>>)
  ELSE IF address.family \notin Families THEN Printed(WSA("EAFNOSUPPORT"), size, <<>>)
  ELSE Copied(Buffer(address), size)

(* The size of the caller's array limits what is written but is not        *)
(* compared: when the string is cut, wcslen() reads on behind the array,   *)
(* here up to two places.                                                  *)
WSAAddressToStringW(address, size) ==
  LET a == WSAAddressToStringA(address, BufferSize)
  IN IF a.error # 0 THEN {[a EXCEPT !.length = size]}
     ELSE IF Len(a.text) < size THEN {a}
     ELSE {Printed(0, wcslen + 1, Widened(a.text, size)) : wcslen \in size..(size + 2)}

(***************************************************************************)
(* WSAStringToAddress.  size is *lpAddressLength.                          *)
(***************************************************************************)
Parsed(error, length, address) == [error |-> error, length |-> length, address |-> address]

Colons(text) == {i \in DOMAIN text : text[i] = COLON}

(* strrchr() *)
LastColon(text) == CHOOSE i \in Colons(text) : \A j \in Colons(text) : j <= i

MutPort(text) == IF text = <<>> THEN 0 ELSE text[1]   \* without the uint16_t

(* atoi() of what follows the colon, as a uint16_t *)
Port(text) == (IF text = <<>> THEN 0 ELSE text[1]) % 2^16

MutSplit(text) ==   \* at the first colon
  IF Colons(text) = {} THEN <<text, 0>>
  ELSE LET colon == CHOOSE i \in Colons(text) : \A j \in Colons(text) : i <= j
       IN <<Prefix(text, colon - 1), Port(SubSeq(text, colon + 1, Len(text)))>>

(* addr_only and the port: what follows the last colon is the port, also   *)
(* in an IPv6 address that was written without one.                        *)
Split(text) ==
  IF Colons(text) = {} THEN <<Prefix(text, INET6_ADDRSTRLEN - 1), 0>>
  ELSE LET colon == LastColon(text)
       IN <<Prefix(text, colon - 1), Port(SubSeq(text, colon + 1, Len(text)))>>

WSAStringToAddressA(text, af, size) ==
  LET addr_only == Split(text)[1]
      host == InetPton(af, addr_only)
  IN IF Len(addr_only) >= INET6_ADDRSTRLEN THEN Parsed(WSA("EINVAL"), size, NoAddress)
     ELSE IF af \notin Families THEN Parsed(WSA("EAFNOSUPPORT"), size, NoAddress)
     ELSE IF size < SockaddrLength[af] THEN Parsed(WSA("EFAULT"), SockaddrLength[af], NoAddress)
     ELSE IF host = NoAddress THEN Parsed(WSA("EINVAL"), SockaddrLength[af], NoAddress)
     ELSE Parsed(0, SockaddrLength[af],
                 [family |-> af, host |-> host, port |-> Split(text)[2]])

IsStrange(text) == \E i \in DOMAIN text : text[i] = STRANGE

WSAStringToAddressW(text, af, size) ==
  IF IsStrange(text) THEN {Parsed(WSA("EINVAL"), size, NoAddress)}
  ELSE {WSAStringToAddressA(narrow, af, size) : narrow \in Narrowed(text, BufferSize)}

(***************************************************************************)
(* InetNtopW and InetPtonW, the other wide conversions                     *)
(***************************************************************************)
InetNtopW(af, host, size) == Widened(Ntop[af][host], size)

MutInetPtonW(af, text) ==   \* sizeof(buffer) - 1, and no terminator either
  IF IsStrange(text) THEN {NoAddress}
  ELSE {InetPton(af, narrow) : narrow \in Narrowed(text, INET6_ADDRSTRLEN - 1)}

InetPtonW(af, text) ==
  IF IsStrange(text) THEN {NoAddress}
  ELSE {InetPton(af, narrow) : narrow \in Narrowed(text, INET6_ADDRSTRLEN)}

(* GetNameInfoW asked for numbers: the host and the service *)
GetNameInfoW(address, nodeSize, serviceSize) ==
  <<Widened(Ntop[address.family][address.host], nodeSize), Widened(<<address.port>>, serviceSize)>>
=============================================================================
