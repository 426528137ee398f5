----------------------------- MODULE Addresses -----------------------------
(***************************************************************************)
(* GetAddrInfoW and FreeAddrInfoW of wsa_addr.c, which copy libc's list of *)
(* addresses block by block, any malloc() of which can fail.  No two calls *)
(* share anything, so the module has one caller.  The conversions of       *)
(* AddressStrings are functions: the properties apply them to the          *)
(* addresses that the caller holds and to strings it may have.             *)
(***************************************************************************)
EXTENDS AddressStrings

(* As in WSAEvents, MutX is X with a bug in it, for README.md's table.     *)

CONSTANTS Answers,   \* what getaddrinfo() may answer: sequences of [addr, name]
          Texts,     \* strings that it parses
          Sizes      \* sizes of its arrays and of its struct sockaddr

ASSUME AnswersAssumption == Answers \subseteq Seq([addr : Address, name : BOOLEAN]) \ {<<>>}
ASSUME TextsAssumption == Texts \subseteq Seq({COLON, STRANGE} \cup Nat)
ASSUME SizesAssumption == Sizes \subseteq Nat

VARIABLES at,       \* where the call is
          answer,   \* libc's list in the present or latest call
          wresult,  \* the list under construction
          witem,    \* and its next item
          held,     \* the list that the application has to free
          heap,     \* the blocks in use
          refused,  \* the blocks that malloc() refused in the present or latest call
          ret       \* what the latest call returned

addressVars == <<at, answer, wresult, witem, held, heap, refused, ret>>

NoItem == [addr |-> NoAddress, name |-> FALSE]

AddressesInit ==
  /\ at = "idle"
  /\ answer = <<>>
  /\ wresult = <<>>
  /\ witem = NoItem
  /\ held = <<>>
  /\ heap = {}
  /\ refused = {}
  /\ ret = 0

(***************************************************************************)
(* The heap                                                                *)
(***************************************************************************)
LibcList == <<"libc", 0>>

(* The blocks of the nodes, addresses and names of a list *)
Blocks(list) ==
  UNION {{<<"node", i>>}
         \cup (IF list[i].addr = NoAddress THEN {} ELSE {<<"addr", i>>})
         \cup (IF list[i].name THEN {<<"name", i>>} ELSE {}) : i \in DOMAIN list}

(* malloc() of a block for the item that follows wresult *)
Malloc(kind) == heap' = heap \cup {<<kind, Len(wresult) + 1>>} /\ UNCHANGED refused
Refuse(kind) == refused' = refused \cup {<<kind, Len(wresult) + 1>>} /\ UNCHANGED heap

(***************************************************************************)
(* GetAddrInfoW                                                            *)
(***************************************************************************)
WSA_NOT_ENOUGH_MEMORY == 8
EAI_NONAME == -2

MutCurrent == answer[1]   \* `result` for `current`

Current == answer[Len(wresult) + 1]

Finish(error) ==
  /\ at' = "idle"
  /\ wresult' = <<>>
  /\ witem' = NoItem
  /\ ret' = error
  /\ UNCHANGED <<answer, refused>>

(* The application gives up one list before it asks for another. *)
GetAddrInfoW ==
  /\ at = "idle"
  /\ held = <<>>
  /\ at' = "node"
  /\ answer' \in Answers
  /\ heap' = heap \cup {LibcList}
  /\ refused' = {}
  /\ UNCHANGED <<wresult, witem, held, ret>>

(* A name has a strange character, or libc does not know it: its code is   *)
(* returned as it is.                                                      *)
GetAddrInfoWFails ==
  /\ at = "idle"
  /\ held = <<>>
  /\ \E error \in {WSA("EINVAL"), EAI_NONAME} : Finish(error)
  /\ UNCHANGED <<held, heap>>

NewItem ==
  /\ at = "node"
  /\ Len(wresult) < Len(answer)
  /\ Malloc("node")
  /\ at' = "addr"
  /\ UNCHANGED <<answer, wresult, witem, held, ret>>

MutNewItemFails ==   \* forgets the names
  /\ at = "node"
  /\ Len(wresult) < Len(answer)
  /\ heap' = {b \in heap : b[1] = "name"}
  /\ Finish(WSA_NOT_ENOUGH_MEMORY)
  /\ UNCHANGED held

NewItemFails ==
  /\ at = "node"
  /\ Len(wresult) < Len(answer)
  /\ heap' = heap \ (Blocks(wresult) \cup {LibcList})
  /\ Finish(WSA_NOT_ENOUGH_MEMORY)
  /\ UNCHANGED held

(* An item whose address could not be copied stays in the list without it. *)
CopyAddress ==
  /\ at = "addr"
  /\ \/ Malloc("addr") /\ witem' = [witem EXCEPT !.addr = Current.addr]
     \/ Refuse("addr") /\ UNCHANGED witem
  /\ at' = "name"
  /\ UNCHANGED <<answer, wresult, held, ret>>

Link(item) == wresult' = Append(wresult, item)

CopyName ==
  /\ at = "name"
  /\ IF Current.name
     THEN \/ Malloc("name") /\ Link([witem EXCEPT !.name = TRUE])
          \/ Refuse("name") /\ Link(witem)
     ELSE Link(witem) /\ UNCHANGED <<heap, refused>>
  /\ witem' = NoItem
  /\ at' = "node"
  /\ UNCHANGED <<answer, held, ret>>

GetAddrInfoWReturn ==
  /\ at = "node"
  /\ Len(wresult) = Len(answer)
  /\ heap' = heap \ {LibcList}
  /\ held' = wresult
  /\ Finish(0)

FreeAddrInfoW ==
  /\ at = "idle"
  /\ heap' = heap \ Blocks(held)
  /\ held' = <<>>
  /\ UNCHANGED <<at, answer, wresult, witem, refused, ret>>

-----------------------------------------------------------------------------
AddressesNext ==
  \/ GetAddrInfoW \/ GetAddrInfoWFails
  \/ NewItem \/ NewItemFails \/ CopyAddress \/ CopyName \/ GetAddrInfoWReturn
  \/ FreeAddrInfoW

AddressesSpec == AddressesInit /\ [][AddressesNext]_addressVars

-----------------------------------------------------------------------------
(***************************************************************************)
(* Properties                                                              *)
(***************************************************************************)
Item == [addr : Address \cup {NoAddress}, name : BOOLEAN]
Held == {held[i].addr : i \in DOMAIN held} \ {NoAddress}

Parses(text, af) == WSAStringToAddressA(text, af, SockaddrLength[af])
ParsedTexts == {Parses(text, af).address : text \in Texts, af \in Families} \ {NoAddress}

(* The type invariant.  A port that was parsed has 16 bits.                *)
AddressesTypeOK ==
  /\ at \in {"idle", "node", "addr", "name"}
  /\ answer \in Answers \cup {<<>>}
  /\ wresult \in Seq(Item) /\ held \in Seq(Item)
  /\ witem \in Item
  /\ Len(wresult) <= Len(answer)
  /\ ParsedTexts \subseteq Address

(* Every block in use is a part of the list that the application holds or  *)
(* of the call in progress: no path of GetAddrInfoW and no combination of  *)
(* failed malloc()s leaks one, frees one that is still to be used, or      *)
(* leaves libc's list behind.                                              *)
HeapOwned ==
  heap = Blocks(held)
         \cup (IF at = "idle" THEN {} ELSE {LibcList})
         \cup Blocks(IF at \in {"addr", "name"} THEN Append(wresult, witem) ELSE wresult)

(* The list that the application gets is libc's, item for item in libc's   *)
(* order, and lacks an address or a name only where malloc() refused the   *)
(* block, although GetAddrInfoW returns 0 then too; with any other return  *)
(* the application gets none.                                              *)
ResolvedInOrder ==
  at = "idle" /\ held # <<>> =>
    /\ ret = 0
    /\ held = [i \in DOMAIN answer |->
                 [addr |-> IF <<"addr", i>> \in refused THEN NoAddress ELSE answer[i].addr,
                  name |-> answer[i].name /\ <<"name", i>> \notin refused]]

(* What is said of one address, and of those that do not depend on the    *)
(* state.                                                                  *)
ReadBack(a) ==
  \A size \in Sizes :
    \A p \in {WSAAddressToStringA(a, size)} \cup WSAAddressToStringW(a, size) :
      p.error = 0 /\ p.length <= size =>
        \A r \in {Parses(p.text, a.family)}
                   \cup WSAStringToAddressW(p.text, a.family, SockaddrLength[a.family]) :
          r.address = a

ParsedReadBack == \A a \in ParsedTexts : ReadBack(a)

(* What WSAAddressToString returned 0 for, with a length that its array    *)
(* has, WSAStringToAddress of either width parses to the same address and  *)
(* port: of a wide string that was cut, and read past its end, the length  *)
(* that is returned tells.                                                 *)
PrintedParses == ParsedReadBack /\ \A a \in Held : ReadBack(a)

TextsRetry ==
  \A text \in Texts, af \in Families, size \in Sizes :
    LET r == WSAStringToAddressA(text, af, size)
    IN WSAStringToAddressA(text, af, r.length).error # WSA("EFAULT")

(* After WSAEFAULT on too small an array the length that was returned is   *)
(* enough: the same call with an array of that length does not fail so     *)
(* again.                                                                  *)
RetryFits ==
  /\ TextsRetry
  /\ \A a \in Held, size \in Sizes :
       LET p == WSAAddressToStringA(a, size)
       IN p.error = 0 \/ WSAAddressToStringA(a, p.length).error = 0

(* In arrays of INET6_ADDRSTRLEN places InetNtopW and GetNameInfoW leave   *)
(* what InetPtonW reads back as the same address, the longest one          *)
(* included: no conversion on the way cuts it.                             *)
WideReadsBack ==
  \A a \in Held :
    \A text \in {InetNtopW(a.family, a.host, INET6_ADDRSTRLEN),
                 GetNameInfoW(a, INET6_ADDRSTRLEN, INET6_ADDRSTRLEN)[1]} :
      InetPtonW(a.family, text) = {a.host}
=============================================================================
