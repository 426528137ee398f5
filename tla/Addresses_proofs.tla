--------------------------- MODULE Addresses_proofs ---------------------------
(***************************************************************************)
(* Theorems about Addresses, whatever libc answers, whichever malloc()     *)
(* fails, whatever inet_ntop() writes and whichever strings are parsed.    *)
(***************************************************************************)
EXTENDS Addresses, SequenceTheorems, WellFoundedInduction, TLAPS

(***************************************************************************)
(* The inductive invariant of GetAddrInfoW                                 *)
(***************************************************************************)
(* A call makes one item after the other, and an application that waits    *)
(* for its list holds none.                                                *)
Underway ==
  /\ at = "idle" => wresult = <<>>
  /\ at # "idle" => held = <<>>
  /\ at # "name" => witem = NoItem
  /\ at \in {"addr", "name"} => Len(wresult) < Len(answer)
  /\ ~witem.name

(* What is left of the i-th item of list a without the refused blocks.     *)
Kept(a, missing, i) ==
  [addr |-> IF <<"addr", i>> \in missing THEN NoAddress ELSE a[i].addr,
   name |-> a[i].name /\ <<"name", i>> \notin missing]

(* What is linked so far is what is left of the answer, and no block has   *)
(* been refused of items yet to come.                                      *)
Linked ==
  at # "idle" =>
    /\ \A i \in 1..Len(wresult) : wresult[i] = Kept(answer, refused, i)
    /\ at = "name" => witem.addr = Kept(answer, refused, Len(wresult) + 1).addr
    /\ \A b \in refused : \/ b[2] \in 1..Len(wresult)
                          \/ at = "name" /\ b = <<"addr", Len(wresult) + 1>>

Inv == AddressesTypeOK /\ Underway /\ Linked /\ HeapOwned /\ ResolvedInOrder

(***************************************************************************)
(* Lemmas about the data                                                   *)
(***************************************************************************)
(* The blocks of one item.                                                 *)
Parts(i, item) ==
  {<<"node", i>>} \cup (IF item.addr = NoAddress THEN {} ELSE {<<"addr", i>>})
    \cup (IF item.name THEN {<<"name", i>>} ELSE {})

(* What an answer is made of, and the empty one.                           *)
LEMMA AnswerItems ==
  ASSUME AddressesTypeOK
  PROVE  /\ answer \in Seq([addr : Address, name : BOOLEAN])
         /\ Len(answer) \in Nat /\ DOMAIN answer = 1..Len(answer)
         /\ \A i \in 1..Len(answer) :
              answer[i].addr \in Address /\ answer[i].addr # NoAddress /\ answer[i].name \in BOOLEAN
<1>1. answer \in Seq([addr : Address, name : BOOLEAN])
  <2>1. <<>> \in Seq([addr : Address, name : BOOLEAN])
    BY EmptySeq
  <2> QED
    BY <2>1, AnswersAssumption DEF AddressesTypeOK
<1>2. Len(answer) \in Nat /\ DOMAIN answer = 1..Len(answer)
      /\ answer \in [1..Len(answer) -> [addr : Address, name : BOOLEAN]]
  BY <1>1, LenProperties
<1>3. NoAddress \notin Address
  BY NtopAssumption
<1>4. ASSUME NEW i \in 1..Len(answer)
      PROVE  answer[i].addr \in Address /\ answer[i].addr # NoAddress /\ answer[i].name \in BOOLEAN
  <2>1. answer[i] \in [addr : Address, name : BOOLEAN]
    BY <1>2
  <2> QED
    BY <1>3, <2>1
<1> QED
  BY <1>1, <1>2, <1>4

(* The blocks of a list, item by item.                                     *)
LEMMA BlocksEach ==
  ASSUME NEW list \in Seq(Item)
  PROVE  /\ Blocks(list) = UNION {Parts(i, list[i]) : i \in 1..Len(list)}
         /\ \A b \in Blocks(list) : b[1] # "libc" /\ b[2] \in 1..Len(list)
<1>1. DOMAIN list = 1..Len(list)
  BY LenProperties
<1>2. Blocks(list) = UNION {Parts(i, list[i]) : i \in 1..Len(list)}
  BY <1>1 DEF Blocks, Parts
<1>3. ASSUME NEW b \in Blocks(list) PROVE b[1] # "libc" /\ b[2] \in 1..Len(list)
  <2>1. PICK i \in 1..Len(list) : b \in Parts(i, list[i])
    BY <1>2
  <2>2. b = <<"node", i>> \/ b = <<"addr", i>> \/ b = <<"name", i>>
    BY <2>1 DEF Parts
  <2> QED
    BY <2>2
<1> QED
  BY <1>2, <1>3

(* An item at the end adds its blocks.                                     *)
LEMMA BlocksAppend ==
  ASSUME NEW list \in Seq(Item), NEW item \in Item
  PROVE  /\ Append(list, item) \in Seq(Item) /\ Len(Append(list, item)) = Len(list) + 1
         /\ \A i \in 1..Len(list) : Append(list, item)[i] = list[i]
         /\ Append(list, item)[Len(list) + 1] = item
         /\ Blocks(Append(list, item)) = Blocks(list) \cup Parts(Len(list) + 1, item)
<1> DEFINE longer == Append(list, item)
<1>1. /\ longer \in Seq(Item) /\ Len(longer) = Len(list) + 1 /\ Len(list) \in Nat
      /\ \A i \in 1..Len(list) : longer[i] = list[i]
      /\ longer[Len(list) + 1] = item
  BY LenProperties, AppendProperties
<1> HIDE DEF longer
<1>2. Blocks(longer) = UNION {Parts(i, longer[i]) : i \in 1..Len(longer)}
      /\ Blocks(list) = UNION {Parts(i, list[i]) : i \in 1..Len(list)}
  BY <1>1, BlocksEach
<1>3. 1..Len(longer) = 1..Len(list) \cup {Len(list) + 1}
  BY <1>1
<1>4. Blocks(longer) = Blocks(list) \cup Parts(Len(list) + 1, item)
  BY <1>1, <1>2, <1>3
<1> QED
  BY <1>1, <1>4 DEF longer

(* The empty list has none.                                                *)
LEMMA BlocksNone == Blocks(<<>>) = {} /\ <<>> \in Seq(Item) /\ Len(<<>>) = 0
  BY EmptySeq DEF Blocks

(* Setting the name of an item leaves its address.                         *)
LEMMA NameSet ==
  ASSUME NEW S, NEW T, NEW item \in [addr : S, name : T], NEW named
  PROVE  [item EXCEPT !.name = named] = [addr |-> item.addr, name |-> named]
  OBVIOUS

(* The item that the next one starts as has a node only.                   *)
LEMMA NewParts ==
  ASSUME NEW i PROVE NoItem \in Item /\ Parts(i, NoItem) = {<<"node", i>>} /\ ~NoItem.name
  BY DEF NoItem, Item, Parts

(***************************************************************************)
(* The steps of GetAddrInfoW                                               *)
(***************************************************************************)
(* Initially there is no list and no call.                                 *)
LEMMA InvInit ==
  ASSUME ParsedTexts \subseteq Address, AddressesInit PROVE Inv
<1>1. AddressesTypeOK
  BY BlocksNone, NewParts DEF AddressesInit, AddressesTypeOK
<1>2. Underway /\ Linked /\ ResolvedInOrder
  BY NewParts DEF AddressesInit, Underway, Linked, ResolvedInOrder
<1>3. HeapOwned
  BY BlocksNone DEF AddressesInit, HeapOwned
<1> QED
  BY <1>1, <1>2, <1>3 DEF Inv

(* A call begins with libc's answer and with nothing of its own.           *)
LEMMA GetAddrInfoWKeeps == ASSUME Inv, GetAddrInfoW PROVE Inv'
<1>1. /\ at = "idle" /\ held = <<>> /\ at' = "node" /\ answer' \in Answers
      /\ heap' = heap \cup {LibcList} /\ refused' = {}
      /\ UNCHANGED <<wresult, witem, held, ret>>
  BY DEF GetAddrInfoW
<1>2. wresult = <<>> /\ witem = NoItem
  BY <1>1 DEF Inv, Underway
<1>3. Len(answer') \in Nat
  <2>1. answer' \in Seq([addr : Address, name : BOOLEAN])
    BY <1>1, AnswersAssumption
  <2> QED
    BY <2>1, LenProperties
<1>4. AddressesTypeOK'
  BY <1>1, <1>2, <1>3, BlocksNone DEF Inv, AddressesTypeOK, ParsedTexts
<1>5. Underway' /\ Linked' /\ ResolvedInOrder'
  BY <1>1, <1>2, BlocksNone, NewParts DEF Underway, Linked, ResolvedInOrder
<1>6. HeapOwned'
  BY <1>1, <1>2 DEF Inv, HeapOwned
<1> QED
  BY <1>4, <1>5, <1>6 DEF Inv

(* A call that ends with an error leaves as little behind.                 *)
LEMMA FailsKeep ==
  ASSUME Inv, GetAddrInfoWFails \/ NewItemFails PROVE Inv'
<1>1. /\ at' = "idle" /\ wresult' = <<>> /\ witem' = NoItem /\ held = <<>>
      /\ UNCHANGED <<answer, refused, held>>
  BY DEF GetAddrInfoWFails, NewItemFails, Finish, Inv, Underway
<1>2. AddressesTypeOK'
  <2>1. Len(wresult') <= Len(answer)
    BY <1>1, AnswerItems, BlocksNone DEF Inv
  <2> QED
    BY <1>1, <2>1, BlocksNone, NewParts DEF Inv, AddressesTypeOK, ParsedTexts
<1>3. Underway' /\ Linked' /\ ResolvedInOrder'
  BY <1>1, NewParts DEF Underway, Linked, ResolvedInOrder
<1>4. heap' = {}
  <2>1. CASE GetAddrInfoWFails
    <3>1. at = "idle" /\ heap' = heap /\ wresult = <<>>
      BY <2>1 DEF GetAddrInfoWFails, Inv, Underway
    <3> QED
      BY <1>1, <3>1, BlocksNone DEF Inv, HeapOwned
  <2>2. CASE NewItemFails
    <3>1. at = "node" /\ heap' = heap \ (Blocks(wresult) \cup {LibcList})
      BY <2>2 DEF NewItemFails
    <3> QED
      BY <1>1, <3>1, BlocksNone DEF Inv, HeapOwned
  <2> QED
    BY <2>1, <2>2
<1>5. HeapOwned'
  BY <1>1, <1>4, BlocksNone DEF HeapOwned
<1> QED
  BY <1>2, <1>3, <1>5 DEF Inv

(* A new item has its node.                                                *)
LEMMA NewItemKeeps == ASSUME Inv, NewItem PROVE Inv'
<1>1. /\ at = "node" /\ Len(wresult) < Len(answer) /\ at' = "addr"
      /\ heap' = heap \cup {<<"node", Len(wresult) + 1>>}
      /\ UNCHANGED <<answer, wresult, witem, held, ret, refused>>
  BY DEF NewItem, Malloc
<1>2. witem = NoItem /\ held = <<>> /\ wresult \in Seq(Item)
  BY <1>1 DEF Inv, Underway, AddressesTypeOK
<1>3. AddressesTypeOK' /\ Underway' /\ ResolvedInOrder'
  BY <1>1, <1>2 DEF Inv, AddressesTypeOK, Underway, ResolvedInOrder, ParsedTexts
<1>4. Linked'
  BY <1>1 DEF Inv, Linked
<1>5. Blocks(Append(wresult, witem)) = Blocks(wresult) \cup {<<"node", Len(wresult) + 1>>}
  BY <1>2, BlocksAppend, NewParts
<1>6. HeapOwned'
  BY <1>1, <1>5 DEF Inv, HeapOwned
<1> QED
  BY <1>3, <1>4, <1>6 DEF Inv

(* It gets a copy of the address, or has to do without.                    *)
LEMMA CopyAddressKeeps == ASSUME Inv, CopyAddress PROVE Inv'
<1> DEFINE i == Len(wresult) + 1
<1>1. /\ at = "addr" /\ at' = "name" /\ UNCHANGED <<answer, wresult, held, ret>>
  BY DEF CopyAddress
<1>2. /\ witem = NoItem /\ held = <<>> /\ wresult \in Seq(Item) /\ Len(wresult) < Len(answer)
      /\ Len(wresult) \in Nat
  BY <1>1, LenProperties DEF Inv, Underway, AddressesTypeOK
<1>3. answer[i].addr \in Address /\ answer[i].addr # NoAddress
  BY <1>2, AnswerItems DEF Inv
<1>4. \A b \in refused : b[2] \in 1..Len(wresult)
  BY <1>1 DEF Inv, Linked
<1>5. <<"addr", i>> \notin refused
  BY <1>2, <1>4
<1>6. \/ /\ heap' = heap \cup {<<"addr", i>>} /\ refused' = refused
         /\ witem' = [addr |-> answer[i].addr, name |-> FALSE]
      \/ /\ heap' = heap /\ refused' = refused \cup {<<"addr", i>>}
         /\ witem' = [addr |-> NoAddress, name |-> FALSE]
  BY <1>2 DEF CopyAddress, Malloc, Refuse, Current, NoItem
<1>7. witem' \in Item /\ ~witem'.name
  <2>1. PICK a \in Address \cup {NoAddress} : witem' = [addr |-> a, name |-> FALSE]
    BY <1>3, <1>6
  <2>2. [addr |-> a, name |-> FALSE] \in Item /\ [addr |-> a, name |-> FALSE].name = FALSE
    BY DEF Item
  <2> QED
    BY <2>1, <2>2
<1>8. AddressesTypeOK' /\ Underway' /\ ResolvedInOrder'
  BY <1>1, <1>2, <1>7 DEF Inv, AddressesTypeOK, Underway, ResolvedInOrder, ParsedTexts
<1>9. Linked'
  <2>1. \A k \in 1..Len(wresult) : Kept(answer, refused', k) = Kept(answer, refused, k)
    BY <1>2, <1>6 DEF Kept
  <2>2. \A k \in 1..Len(wresult) : wresult[k] = Kept(answer, refused, k)
    BY <1>1 DEF Inv, Linked
  <2>3. witem'.addr = Kept(answer, refused', i).addr
    BY <1>5, <1>6 DEF Kept
  <2>4. \A b \in refused' : b[2] \in 1..Len(wresult) \/ b = <<"addr", i>>
    BY <1>4, <1>6
  <2> QED
    BY <1>1, <2>1, <2>2, <2>3, <2>4 DEF Linked
<1>10. Blocks(Append(wresult, witem)) = Blocks(wresult) \cup {<<"node", i>>}
  BY <1>2, BlocksAppend, NewParts
<1>11. Blocks(Append(wresult, witem')) = Blocks(wresult) \cup Parts(i, witem')
  BY <1>2, <1>7, BlocksAppend
<1>12. \/ heap' = heap \cup {<<"addr", i>>} /\ Parts(i, witem') = {<<"node", i>>, <<"addr", i>>}
       \/ heap' = heap /\ Parts(i, witem') = {<<"node", i>>}
  BY <1>3, <1>6 DEF Parts
<1>13. HeapOwned'
  BY <1>1, <1>10, <1>11, <1>12 DEF Inv, HeapOwned
<1> QED
  BY <1>8, <1>9, <1>13 DEF Inv

(* And likewise with the name; then it is linked to the others.            *)
LEMMA CopyNameKeeps == ASSUME Inv, CopyName PROVE Inv'
<1> DEFINE i == Len(wresult) + 1
<1>1. /\ at = "name" /\ at' = "node" /\ witem' = NoItem /\ UNCHANGED <<answer, held, ret>>
  BY DEF CopyName
<1>2. /\ held = <<>> /\ wresult \in Seq(Item) /\ Len(wresult) < Len(answer)
      /\ Len(wresult) \in Nat /\ Len(answer) \in Nat /\ witem \in Item /\ ~witem.name
  BY <1>1, LenProperties, AnswerItems DEF Inv, Underway, AddressesTypeOK
<1>3. answer[i].name \in BOOLEAN
  BY <1>2, AnswerItems DEF Inv
<1>4. \A b \in refused : b[2] \in 1..Len(wresult) \/ b = <<"addr", i>>
  BY <1>1 DEF Inv, Linked
<1>5. <<"name", i>> \notin refused
  BY <1>2, <1>4
<1>6. witem = [addr |-> witem.addr, name |-> FALSE] /\ witem.addr \in Address \cup {NoAddress}
  BY <1>2 DEF Item
<1>7. PICK item \in Item :
        /\ wresult' = Append(wresult, item) /\ item.addr = witem.addr
        /\ \/ /\ heap' = heap \cup {<<"name", i>>} /\ refused' = refused
              /\ item.name = TRUE /\ answer[i].name = TRUE
           \/ /\ heap' = heap /\ refused' = refused \cup {<<"name", i>>} /\ item.name = FALSE
           \/ /\ heap' = heap /\ refused' = refused /\ item.name = FALSE /\ answer[i].name = FALSE
  <2>1. CASE answer[i].name /\ Malloc("name") /\ Link([witem EXCEPT !.name = TRUE])
    <3>1. [witem EXCEPT !.name = TRUE] = [addr |-> witem.addr, name |-> TRUE]
      BY <1>2, NameSet, Zenon DEF Item
    <3>2. [addr |-> witem.addr, name |-> TRUE] \in Item
      BY <1>6 DEF Item
    <3> QED
      BY <2>1, <3>1, <3>2 DEF Malloc, Link
  <2>2. CASE Refuse("name") /\ Link(witem)
    BY <1>2, <1>6, <2>2 DEF Refuse, Link
  <2>3. CASE ~answer[i].name /\ Link(witem) /\ UNCHANGED <<heap, refused>>
    BY <1>2, <1>3, <1>6, <2>3 DEF Link
  <2> QED
    BY <2>1, <2>2, <2>3 DEF CopyName, Current
<1>8. /\ wresult' \in Seq(Item) /\ Len(wresult') = i
      /\ \A k \in 1..Len(wresult) : wresult'[k] = wresult[k]
      /\ wresult'[i] = item
      /\ Blocks(wresult') = Blocks(wresult) \cup Parts(i, item)
  BY <1>2, <1>7, BlocksAppend
<1>9. AddressesTypeOK' /\ Underway' /\ ResolvedInOrder'
  BY <1>1, <1>2, <1>8, NewParts DEF Inv, AddressesTypeOK, Underway, ResolvedInOrder, ParsedTexts
<1>10. Linked'
  <2>1. \A k \in 1..Len(wresult) : Kept(answer, refused', k) = Kept(answer, refused, k)
    BY <1>2, <1>7 DEF Kept
  <2>2. \A k \in 1..Len(wresult) : wresult[k] = Kept(answer, refused, k)
    BY <1>1 DEF Inv, Linked
  <2>3. witem.addr = IF <<"addr", i>> \in refused THEN NoAddress ELSE answer[i].addr
    BY <1>1 DEF Inv, Linked, Kept
  <2>4. <<"addr", i>> \in refused' <=> <<"addr", i>> \in refused
    BY <1>7
  <2>5. item.name = (answer[i].name /\ <<"name", i>> \notin refused')
    BY <1>3, <1>5, <1>7
  <2>6. item = Kept(answer, refused', i)
    <3>1. item = [addr |-> item.addr, name |-> item.name]
      BY DEF Item
    <3> QED
      BY <1>7, <2>3, <2>4, <2>5, <3>1 DEF Kept
  <2>7. \A k \in 1..Len(wresult') : wresult'[k] = Kept(answer, refused', k)
    BY <1>2, <1>8, <2>1, <2>2, <2>6
  <2>8. \A b \in refused' : b[2] \in 1..Len(wresult')
    BY <1>2, <1>4, <1>7, <1>8
  <2> QED
    BY <1>1, <2>7, <2>8 DEF Linked
<1>11. Blocks(Append(wresult, witem)) = Blocks(wresult) \cup Parts(i, witem)
  BY <1>2, BlocksAppend
<1>12. \/ heap' = heap \cup {<<"name", i>>} /\ Parts(i, item) = Parts(i, witem) \cup {<<"name", i>>}
       \/ heap' = heap /\ Parts(i, item) = Parts(i, witem)
  BY <1>2, <1>7 DEF Parts
<1>13. HeapOwned'
  BY <1>1, <1>8, <1>11, <1>12 DEF Inv, HeapOwned
<1> QED
  BY <1>9, <1>10, <1>13 DEF Inv

(* The application gets the list when all of the answer is in it.          *)
LEMMA GetAddrInfoWReturnKeeps == ASSUME Inv, GetAddrInfoWReturn PROVE Inv'
<1>1. /\ at = "node" /\ Len(wresult) = Len(answer) /\ heap' = heap \ {LibcList}
      /\ held' = wresult /\ at' = "idle" /\ wresult' = <<>> /\ witem' = NoItem /\ ret' = 0
      /\ UNCHANGED <<answer, refused>>
  BY DEF GetAddrInfoWReturn, Finish
<1>2. held = <<>> /\ wresult \in Seq(Item) /\ DOMAIN wresult = 1..Len(wresult)
  BY <1>1, LenProperties DEF Inv, Underway, AddressesTypeOK
<1>3. AddressesTypeOK'
  BY <1>1, <1>2, AnswerItems, BlocksNone, NewParts DEF Inv, AddressesTypeOK, ParsedTexts
<1>4. Underway' /\ Linked'
  BY <1>1, NewParts DEF Underway, Linked
<1>5. wresult = [i \in DOMAIN answer |-> Kept(answer, refused, i)]
  <2>1. DOMAIN wresult = DOMAIN answer
    BY <1>1, <1>2, AnswerItems DEF Inv
  <2>2. \A i \in DOMAIN wresult : wresult[i] = Kept(answer, refused, i)
    BY <1>1, <1>2 DEF Inv, Linked
  <2>3. wresult = [i \in DOMAIN wresult |-> wresult[i]]
    BY <1>2, LenProperties
  <2> QED
    BY <2>1, <2>2, <2>3
<1>6. ResolvedInOrder'
  BY <1>1, <1>5 DEF ResolvedInOrder, Kept
<1>7. LibcList \notin Blocks(wresult)
  BY <1>2, BlocksEach DEF LibcList
<1>8. HeapOwned'
  BY <1>1, <1>2, <1>7, BlocksNone DEF Inv, HeapOwned
<1> QED
  BY <1>3, <1>4, <1>6, <1>8 DEF Inv

(* FreeAddrInfoW gives all of it back.                                     *)
LEMMA FreeAddrInfoWKeeps == ASSUME Inv, FreeAddrInfoW PROVE Inv'
<1>1. /\ at = "idle" /\ heap' = heap \ Blocks(held) /\ held' = <<>>
      /\ UNCHANGED <<at, answer, wresult, witem, refused, ret>>
  BY DEF FreeAddrInfoW
<1>2. AddressesTypeOK' /\ Underway' /\ Linked' /\ ResolvedInOrder'
  BY <1>1, BlocksNone DEF Inv, AddressesTypeOK, Underway, Linked, ResolvedInOrder, ParsedTexts
<1>3. HeapOwned'
  BY <1>1, BlocksNone DEF Inv, HeapOwned, Underway
<1> QED
  BY <1>2, <1>3 DEF Inv

(* Every step is one of those.                                             *)
LEMMA InvStep == ASSUME Inv, [AddressesNext]_addressVars PROVE Inv'
<1>1. CASE UNCHANGED addressVars
  BY <1>1 DEF addressVars, Inv, AddressesTypeOK, Underway, Linked, HeapOwned, ResolvedInOrder, ParsedTexts
<1> QED
  BY <1>1, GetAddrInfoWKeeps, FailsKeep, NewItemKeeps, CopyAddressKeeps, CopyNameKeeps,
     GetAddrInfoWReturnKeeps, FreeAddrInfoWKeeps DEF AddressesNext

(***************************************************************************)
(* Lemmas about the conversions                                            *)
(***************************************************************************)
Tokens == {COLON, STRANGE} \cup Nat

(* What inet_ntop() writes has no strange token and fits into its array.   *)
LEMMA NtopText ==
  ASSUME NEW af \in Families, NEW h \in DOMAIN Ntop[af]
  PROVE  /\ Ntop[af][h] \in Seq({COLON} \cup Nat) /\ Len(Ntop[af][h]) \in Nat
         /\ Len(Ntop[af][h]) < INET6_ADDRSTRLEN /\ INET6_ADDRSTRLEN \in Nat
<1>1. /\ Ntop[af][h] \in Seq({COLON} \cup Nat) /\ Len(Ntop[af][h]) < INET6_ADDRSTRLEN
      /\ INET6_ADDRSTRLEN \in Nat
  BY NtopAssumption
<1> QED
  BY <1>1, LenProperties

(* inet_pton() reads back what inet_ntop() wrote ...                       *)
LEMMA PtonReads ==
  ASSUME NEW af \in Families, NEW h \in DOMAIN Ntop[af]
  PROVE  InetPton(af, Ntop[af][h]) = h
<1>1. \A other \in DOMAIN Ntop[af] : Ntop[af][other] = Ntop[af][h] => other = h
  BY NtopAssumption
<1> QED
  BY <1>1 DEF InetPton

(* ... and answers with a host or not at all.                              *)
LEMMA PtonHost ==
  ASSUME NEW af \in Families, NEW text, InetPton(af, text) # NoAddress
  PROVE  InetPton(af, text) \in DOMAIN Ntop[af]
  BY DEF InetPton

(* An address has a family, a host of it and a port of 16 bits.            *)
LEMMA AddressParts ==
  ASSUME NEW a \in Address
  PROVE  /\ a # NoAddress /\ a.family \in Families /\ a.host \in DOMAIN Ntop[a.family]
         /\ a.port \in Nat /\ a.port % 2^16 = a.port
         /\ a = [family |-> a.family, host |-> a.host, port |-> a.port]
<1>1. a # NoAddress
  BY NtopAssumption
<1>2. PICK af \in Families : a \in [family : {af}, host : DOMAIN Ntop[af], port : Ports]
  BY DEF Address
<1>3. a.port \in Nat /\ a.port % 2^16 = a.port
  <2>1. a.port \in Ports
    BY <1>2
  <2>2. \A i \in Ports : i \in Nat /\ i % 2^16 = i
    BY DEF Ports
  <2> QED
    BY <2>1, <2>2
<1> QED
  BY <1>1, <1>2, <1>3

(* A set of natural numbers with an upper bound has a greatest one.        *)
LEMMA Greatest ==
  ASSUME NEW n \in Nat, NEW S \in SUBSET (1..n), S # {}
  PROVE  \E i \in S : \A j \in S : j <= i
<1> DEFINE T == {n - i : i \in S}
<1>1. T \subseteq Nat /\ T # {}
  <2>1. \A i \in 1..n : n - i \in Nat
    OBVIOUS
  <2> QED
    BY <2>1
<1>2. PICK x \in T : \A y \in T : ~(<<y, x>> \in OpToRel(<, Nat))
  <2> HIDE DEF T
  <2> QED
    BY <1>1, NatLessThanWellFounded, WFMin
<1>3. \A y \in T : ~(y < x)
  <2> HIDE DEF T
  <2>1. \A y \in T : <<y, x>> \in Nat \X Nat
    BY <1>1
  <2>2. \A p \in Nat \X Nat : p[1] < p[2] => p \in OpToRel(<, Nat)
    BY DEF OpToRel
  <2> QED
    BY <1>2, <2>1, <2>2
<1>4. PICK i \in S : x = n - i
  BY <1>2
<1>5. ASSUME NEW j \in S PROVE j <= i
  <2>1. ~(n - j < n - i)
    BY <1>3, <1>4
  <2> QED
    BY <2>1
<1> QED
  BY <1>5

(* strrchr() finds the last colon if there is one.                         *)
LEMMA LastColonFound ==
  ASSUME NEW text \in Seq(Int), Colons(text) # {}
  PROVE  /\ LastColon(text) \in Colons(text) /\ LastColon(text) \in 1..Len(text)
         /\ \A j \in Colons(text) : j <= LastColon(text)
<1>1. DOMAIN text = 1..Len(text) /\ Len(text) \in Nat
  BY LenProperties
<1>2. \E i \in Colons(text) : \A j \in Colons(text) : j <= i
  <2>1. Colons(text) \in SUBSET (1..Len(text))
    BY <1>1 DEF Colons
  <2> QED
    BY <1>1, <2>1, Greatest
<1> QED
  BY <1>1, <1>2 DEF LastColon, Colons

(* The port that is parsed has 16 bits, whatever is written there.         *)
LEMMA PortParsed == ASSUME NEW text \in Seq(Int) PROVE Split(text)[2] \in Ports
<1>1. 0 \in Ports /\ \A i \in Int : i % 2^16 \in Ports
  BY DEF Ports
<1>2. CASE Colons(text) = {}
  BY <1>1, <1>2 DEF Split
<1>3. CASE Colons(text) # {}
  <2> DEFINE rest == SubSeq(text, LastColon(text) + 1, Len(text))
  <2>1. LastColon(text) \in 1..Len(text) /\ Len(text) \in Nat /\ \A i \in 1..Len(text) : text[i] \in Int
    BY <1>3, LastColonFound, LenProperties, ElementOfSeq
  <2>2. rest \in Seq(Int)
    <3>1. \A i \in (LastColon(text) + 1)..Len(text) : text[i] \in Int
      BY <2>1
    <3> QED
      BY <2>1, <3>1, SubSeqProperties
  <2> HIDE DEF rest
  <2>3. rest # <<>> => rest[1] \in Int
    <3>1. rest # <<>> => 1 \in 1..Len(rest)
      BY <2>2, EmptySeq
    <3> QED
      BY <2>2, <3>1, ElementOfSeq
  <2>4. Port(rest) \in Ports
    BY <1>1, <2>3 DEF Port
  <2> QED
    BY <1>3, <2>4 DEF Split, rest
<1> QED
  BY <1>2, <1>3

(* So that WSAStringToAddress makes addresses only.                        *)
LEMMA ParsedIsAddress ==
  ASSUME NEW text \in Seq(Int), NEW af \in Families, NEW size
  PROVE  WSAStringToAddressA(text, af, size).address \in Address \cup {NoAddress}
<1> DEFINE host == InetPton(af, Split(text)[1])
           port == Split(text)[2]
<1>1. host # NoAddress => host \in DOMAIN Ntop[af]
  BY PtonHost
<1>2. port \in Ports
  BY PortParsed
<1> HIDE DEF host, port
<1>3. host # NoAddress => [family |-> af, host |-> host, port |-> port] \in Address
  BY <1>1, <1>2 DEF Address
<1> QED
  BY <1>3 DEF WSAStringToAddressA, Parsed, host, port

(* What the texts are parsed to.                                           *)
LEMMA ParsedTextsAreAddresses == ParsedTexts \subseteq Address
<1>1. ASSUME NEW text \in Texts, NEW af \in Families
      PROVE  Parses(text, af).address \in Address \cup {NoAddress}
  <2>1. text \in Seq(Int)
    <3>1. text \in Seq(Tokens)
      BY TextsAssumption DEF Tokens
    <3>2. Tokens \subseteq Int
      BY DEF Tokens, COLON, STRANGE
    <3> QED
      BY <3>1, <3>2, SeqMonotonic
  <2> QED
    BY <2>1, ParsedIsAddress DEF Parses
<1> QED
  BY <1>1 DEF ParsedTexts

(* A prefix that is long enough is the string itself.                      *)
LEMMA PrefixWhole ==
  ASSUME NEW S, NEW text \in Seq(S), NEW n \in Nat, Len(text) <= n
  PROVE  Prefix(text, n) = text
<1>1. (IF n < Len(text) THEN n ELSE Len(text)) = Len(text)
  BY LenProperties
<1> QED
  BY <1>1, SubSeqFull DEF Prefix

(* The string that WSAAddressToString makes of an address: its parts, the  *)
(* length that its own array is large enough for, and its last colon.      *)
LEMMA BufferText ==
  ASSUME NEW a \in Address
  PROVE  LET ntop == Ntop[a.family][a.host]
         IN /\ Buffer(a) \in Seq({COLON} \cup Nat) /\ Len(Buffer(a)) = Len(ntop) + 2
            /\ Len(Buffer(a)) < BufferSize /\ BufferSize \in Nat
            /\ Prefix(Buffer(a), Len(ntop)) = ntop
            /\ Buffer(a)[Len(ntop) + 1] = COLON
            /\ Buffer(a)[Len(ntop) + 2] = a.port
<1> DEFINE ntop == Ntop[a.family][a.host]
           tail == <<COLON, a.port>>
<1>1. /\ ntop \in Seq({COLON} \cup Nat) /\ Len(ntop) \in Nat /\ Len(ntop) < INET6_ADDRSTRLEN
      /\ INET6_ADDRSTRLEN \in Nat
  BY AddressParts, NtopText
<1>2. tail \in Seq({COLON} \cup Nat) /\ Len(tail) = 2 /\ tail[1] = COLON /\ tail[2] = a.port
  BY AddressParts
<1>3. Buffer(a) = ntop \o tail
  BY DEF Buffer
<1> HIDE DEF ntop, tail
<1>4. /\ ntop \o tail \in Seq({COLON} \cup Nat) /\ Len(ntop \o tail) = Len(ntop) + 2
      /\ \A i \in 1..(Len(ntop) + 2) :
           (ntop \o tail)[i] = IF i <= Len(ntop) THEN ntop[i] ELSE tail[i - Len(ntop)]
  <2>1. /\ ntop \o tail \in Seq({COLON} \cup Nat) /\ Len(ntop \o tail) = Len(ntop) + Len(tail)
        /\ \A i \in 1..(Len(ntop) + Len(tail)) :
             (ntop \o tail)[i] = IF i <= Len(ntop) THEN ntop[i] ELSE tail[i - Len(ntop)]
    BY <1>1, <1>2, ConcatProperties
  <2> QED
    BY <1>2, <2>1
<1>5. (ntop \o tail)[Len(ntop) + 1] = COLON /\ (ntop \o tail)[Len(ntop) + 2] = a.port
  <2>1. Len(ntop) + 1 \in 1..(Len(ntop) + 2) /\ Len(ntop) + 2 \in 1..(Len(ntop) + 2)
    BY <1>1
  <2>2. (ntop \o tail)[Len(ntop) + 1] = tail[1] /\ (ntop \o tail)[Len(ntop) + 2] = tail[2]
    BY <1>1, <1>4, <2>1
  <2> QED
    BY <1>2, <2>2
<1>6. Prefix(ntop \o tail, Len(ntop)) = ntop
  <2>1. Prefix(ntop \o tail, Len(ntop)) = SubSeq(ntop \o tail, 1, Len(ntop))
    BY <1>1, <1>4 DEF Prefix
  <2>2. CASE Len(ntop) = 0
    <3>1. ntop = <<>>
      BY <1>1, <2>2, EmptySeq
    <3> QED
      BY <2>1, <2>2, <3>1, SubSeqEmpty
  <2>3. CASE Len(ntop) # 0
    <3>1. 1 \in 1..Len(ntop) /\ Len(ntop) \in 1..Len(ntop)
      BY <1>1, <2>3
    <3> QED
      BY <1>1, <1>2, <2>1, <3>1, SubSeqOfConcat1, SubSeqFull
  <2> QED
    BY <2>2, <2>3
<1>7. Len(ntop) + 2 < BufferSize /\ BufferSize \in Nat
  BY <1>1 DEF BufferSize
<1> QED
  BY <1>3, <1>4, <1>5, <1>6, <1>7 DEF ntop

(* A string without strange tokens that fits reaches a callee as it is.    *)
LEMMA NarrowedWhole ==
  ASSUME NEW text \in Seq({COLON} \cup Nat), NEW size \in Nat, Len(text) < size
  PROVE  ~IsStrange(text) /\ Narrowed(text, size) = {text}
<1>1. \A i \in DOMAIN text : text[i] # STRANGE
  <2>1. \A i \in DOMAIN text : text[i] \in {COLON} \cup Nat
    BY LenProperties, ElementOfSeq
  <2> QED
    BY <2>1 DEF COLON, STRANGE
<1> QED
  BY <1>1 DEF IsStrange, Narrowed

(* WSAStringToAddress splits that string where its parts meet.             *)
LEMMA BufferSplit ==
  ASSUME NEW a \in Address
  PROVE  Split(Buffer(a)) = <<Ntop[a.family][a.host], a.port>>
<1> DEFINE ntop == Ntop[a.family][a.host]
           text == Buffer(a)
<1>1. /\ text \in Seq({COLON} \cup Nat) /\ Len(text) = Len(ntop) + 2
      /\ Prefix(text, Len(ntop)) = ntop
      /\ text[Len(ntop) + 1] = COLON /\ text[Len(ntop) + 2] = a.port
  BY BufferText
<1>2. Len(ntop) \in Nat
  BY AddressParts, NtopText
<1>3. a.port \in Nat /\ a.port % 2^16 = a.port
  BY AddressParts
<1> HIDE DEF ntop, text
<1>4. DOMAIN text = 1..(Len(ntop) + 2) /\ text \in Seq(Int)
  <2>1. {COLON} \cup Nat \subseteq Int
    BY DEF COLON
  <2> QED
    BY <1>1, <2>1, LenProperties, SeqMonotonic
<1>5. Len(ntop) + 1 \in Colons(text)
  BY <1>1, <1>2, <1>4 DEF Colons
<1>6. Len(ntop) + 2 \notin Colons(text)
  BY <1>1, <1>3 DEF Colons, COLON
<1>7. LastColon(text) = Len(ntop) + 1
  <2>1. /\ LastColon(text) \in Colons(text) /\ LastColon(text) \in 1..(Len(ntop) + 2)
        /\ Len(ntop) + 1 <= LastColon(text)
    BY <1>1, <1>4, <1>5, LastColonFound
  <2>2. LastColon(text) # Len(ntop) + 2
    BY <1>6, <2>1
  <2> QED
    BY <1>2, <2>1, <2>2
<1>8. SubSeq(text, Len(ntop) + 2, Len(text)) = <<a.port>>
  <2> DEFINE rest == SubSeq(text, Len(ntop) + 2, Len(ntop) + 2)
  <2>1. \A i \in (Len(ntop) + 2)..(Len(ntop) + 2) : text[i] \in Nat
    BY <1>1, <1>2, <1>3
  <2>2. rest \in Seq(Nat) /\ Len(rest) = 1 /\ rest[1] = text[Len(ntop) + 2]
    <3>1. /\ SubSeq(text, Len(ntop) + 2, Len(ntop) + 2) \in Seq(Nat)
          /\ Len(SubSeq(text, Len(ntop) + 2, Len(ntop) + 2))
               = IF Len(ntop) + 2 <= Len(ntop) + 2 THEN (Len(ntop) + 2) - (Len(ntop) + 2) + 1 ELSE 0
          /\ \A i \in 1..((Len(ntop) + 2) - (Len(ntop) + 2) + 1) :
               SubSeq(text, Len(ntop) + 2, Len(ntop) + 2)[i] = text[(Len(ntop) + 2) + i - 1]
      BY <1>2, <2>1, SubSeqProperties
    <3>2. 1 \in 1..((Len(ntop) + 2) - (Len(ntop) + 2) + 1)
          /\ (Len(ntop) + 2) + 1 - 1 = Len(ntop) + 2
          /\ (Len(ntop) + 2) - (Len(ntop) + 2) + 1 = 1
      BY <1>2
    <3> QED
      BY <1>2, <3>1, <3>2
  <2> HIDE DEF rest
  <2>3. <<a.port>> \in Seq(Nat) /\ Len(<<a.port>>) = 1 /\ <<a.port>>[1] = a.port
    BY <1>3
  <2>4. \A i \in 1..Len(rest) : rest[i] = <<a.port>>[i]
    BY <1>1, <2>2, <2>3
  <2>5. rest = <<a.port>>
    BY <2>2, <2>3, <2>4, SeqEqual
  <2> QED
    BY <1>1, <2>5 DEF rest
<1>9. Port(<<a.port>>) = a.port
  BY <1>3 DEF Port
<1>10. Prefix(text, LastColon(text) - 1) = ntop
  BY <1>1, <1>2, <1>7
<1>11. SubSeq(text, LastColon(text) + 1, Len(text)) = <<a.port>>
  <2>1. LastColon(text) + 1 = Len(ntop) + 2
    BY <1>2, <1>7
  <2> QED
    BY <1>8, <2>1
<1>12. Split(text) = <<ntop, a.port>>
  BY <1>5, <1>9, <1>10, <1>11 DEF Split
<1> QED
  BY <1>12 DEF text, ntop

(* Both widths of WSAStringToAddress read it back.                         *)
LEMMA BufferReadBack ==
  ASSUME NEW a \in Address,
         NEW r \in {Parses(Buffer(a), a.family)}
                     \cup WSAStringToAddressW(Buffer(a), a.family, SockaddrLength[a.family])
  PROVE  r.address = a
<1>1. ~IsStrange(Buffer(a)) /\ Narrowed(Buffer(a), BufferSize) = {Buffer(a)}
  BY BufferText, NarrowedWhole
<1>2. r = WSAStringToAddressA(Buffer(a), a.family, SockaddrLength[a.family])
  BY <1>1 DEF WSAStringToAddressW, Parses
<1>3. /\ Split(Buffer(a))[1] = Ntop[a.family][a.host] /\ Split(Buffer(a))[2] = a.port
      /\ InetPton(a.family, Ntop[a.family][a.host]) = a.host
      /\ a.family \in Families /\ a.host \in DOMAIN Ntop[a.family]
      /\ a = [family |-> a.family, host |-> a.host, port |-> a.port]
  BY BufferSplit, AddressParts, PtonReads
<1>4. a.host # NoAddress
  BY <1>3, NtopAssumption
<1>5. ~(Len(Ntop[a.family][a.host]) >= INET6_ADDRSTRLEN)
  BY <1>3, NtopText
<1>6. ~(SockaddrLength[a.family] < SockaddrLength[a.family])
  <2>1. a.family \in {"AF_INET", "AF_INET6"}
    BY <1>3, NtopAssumption DEF SockaddrLength
  <2> QED
    BY <2>1 DEF SockaddrLength
<1>7. WSAStringToAddressA(Buffer(a), a.family, SockaddrLength[a.family])
        = Parsed(0, SockaddrLength[a.family], [family |-> a.family, host |-> a.host, port |-> a.port])
  BY <1>3, <1>4, <1>5, <1>6 DEF WSAStringToAddressA
<1> QED
  BY <1>2, <1>3, <1>7 DEF Parsed

(* An array that WSAAddressToString has not overrun holds all of it.       *)
LEMMA PrintedWhole ==
  ASSUME NEW a \in Address, NEW size \in Nat,
         NEW p \in {WSAAddressToStringA(a, size)} \cup WSAAddressToStringW(a, size),
         p.error = 0, p.length <= size
  PROVE  p.text = Buffer(a)
<1>1. WSA("EFAULT") # 0
  BY DEF WSA, Winsock, WSABASEERR
<1>2. \A n : WSAAddressToStringA(a, n) = Copied(Buffer(a), n)
  BY AddressParts DEF WSAAddressToStringA
<1>3. /\ Len(Buffer(a)) \in Nat /\ Len(Buffer(a)) < BufferSize /\ BufferSize \in Nat
  BY BufferText, LenProperties
<1>4. CASE p = WSAAddressToStringA(a, size)
  BY <1>1, <1>2, <1>4 DEF Copied, Printed
<1>5. CASE p \in WSAAddressToStringW(a, size)
  <2>1. WSAAddressToStringA(a, BufferSize) = Printed(0, Len(Buffer(a)) + 1, Buffer(a))
    BY <1>2, <1>3 DEF Copied
  <2>2. CASE Len(Buffer(a)) < size
    BY <1>5, <2>1, <2>2 DEF WSAAddressToStringW, Printed
  <2>3. CASE ~(Len(Buffer(a)) < size)
    <3>1. PICK wcslen \in size..(size + 2) :
            p = Printed(0, wcslen + 1, Widened(Buffer(a), size))
      BY <1>5, <2>1, <2>3 DEF WSAAddressToStringW, Printed
    <3> QED
      BY <3>1 DEF Printed
  <2> QED
    BY <2>2, <2>3
<1> QED
  BY <1>4, <1>5

(***************************************************************************)
(* Theorems                                                                *)
(***************************************************************************)
(* The invariant holds at every moment.                                    *)
THEOREM Invariance == AddressesSpec => []Inv
<1>1. AddressesInit => Inv
  BY InvInit, ParsedTextsAreAddresses
<1>2. Inv /\ [AddressesNext]_addressVars => Inv'
  BY InvStep
<1> QED
  BY <1>1, <1>2, PTL DEF AddressesSpec

(* The variables keep their types, and a port that was parsed has 16 bits. *)
THEOREM TypeCorrect == AddressesSpec => []AddressesTypeOK
<1>1. Inv => AddressesTypeOK
  BY DEF Inv
<1> QED
  BY <1>1, Invariance, PTL

(* GetAddrInfoW, whichever malloc() fails, and FreeAddrInfoW leave only    *)
(* the blocks in use that are part of the application's list.              *)
THEOREM HeapAccounted == AddressesSpec => []HeapOwned
<1>1. Inv => HeapOwned
  BY DEF Inv
<1> QED
  BY <1>1, Invariance, PTL

(* The application gets libc's list, item for item and in libc's order,    *)
(* without exactly those addresses and names that malloc() refused.        *)
THEOREM AnswerKept == AddressesSpec => []ResolvedInOrder
<1>1. Inv => ResolvedInOrder
  BY DEF Inv
<1> QED
  BY <1>1, Invariance, PTL

(* The application's list holds addresses.                                 *)
LEMMA HeldAreAddresses == ASSUME AddressesTypeOK PROVE Held \subseteq Address
<1>1. \A i \in DOMAIN held : held[i].addr \in Address \cup {NoAddress}
  <2>1. \A i \in DOMAIN held : held[i] \in Item
    BY LenProperties DEF AddressesTypeOK
  <2> QED
    BY <2>1 DEF Item
<1> QED
  BY <1>1 DEF Held

(* Any address that WSAAddressToString prints WSAStringToAddress parses to *)
(* the same address and port, in any combination of the two widths.        *)
THEOREM PrintedReadBack == AddressesSpec => []PrintedParses
<1>1. AddressesTypeOK => PrintedParses
  <2> SUFFICES ASSUME AddressesTypeOK, NEW a \in Held \cup ParsedTexts, NEW size \in Sizes,
                      NEW p \in {WSAAddressToStringA(a, size)} \cup WSAAddressToStringW(a, size),
                      p.error = 0, p.length <= size,
                      NEW r \in {Parses(p.text, a.family)}
                                  \cup WSAStringToAddressW(p.text, a.family, SockaddrLength[a.family])
               PROVE  r.address = a
    BY DEF PrintedParses, ParsedReadBack, ReadBack
  <2>1. a \in Address /\ size \in Nat
    BY HeldAreAddresses, ParsedTextsAreAddresses, SizesAssumption
  <2>2. p.text = Buffer(a)
    BY <2>1, PrintedWhole
  <2> QED
    BY <2>1, <2>2, BufferReadBack
<1> QED
  BY <1>1, TypeCorrect, PTL

(* An array of the length that was returned with WSAEFAULT is large enough *)
(* for WSAAddressToString and WSAStringToAddress.                          *)
THEOREM RetrySucceeds == AddressesSpec => []RetryFits
<1>1. WSA("EFAULT") # 0 /\ WSA("EINVAL") # WSA("EFAULT") /\ WSA("EAFNOSUPPORT") # WSA("EFAULT")
  BY DEF WSA, Winsock, WSABASEERR
<1>2. ASSUME NEW a \in Address, NEW size \in Nat
      PROVE  LET p == WSAAddressToStringA(a, size)
             IN p.error = 0 \/ WSAAddressToStringA(a, p.length).error = 0
  <2>1. \A n : WSAAddressToStringA(a, n) = Copied(Buffer(a), n)
    BY AddressParts DEF WSAAddressToStringA
  <2>2. Len(Buffer(a)) \in Nat
    BY BufferText, LenProperties
  <2> QED
    BY <2>1, <2>2 DEF Copied, Printed
<1>3. ASSUME NEW text, NEW af \in Families, NEW size \in Nat
      PROVE  LET r == WSAStringToAddressA(text, af, size)
             IN WSAStringToAddressA(text, af, r.length).error # WSA("EFAULT")
  <2> DEFINE long == Len(Split(text)[1]) >= INET6_ADDRSTRLEN
  <2>1. ~(SockaddrLength[af] < SockaddrLength[af])
    <3>1. af \in {"AF_INET", "AF_INET6"}
      BY NtopAssumption DEF SockaddrLength
    <3> QED
      BY <3>1 DEF SockaddrLength
  <2>2. CASE long
    BY <1>1, <2>2 DEF WSAStringToAddressA, Parsed
  <2>3. CASE ~long
    <3>1. WSAStringToAddressA(text, af, size).length = SockaddrLength[af]
      BY <2>3 DEF WSAStringToAddressA, Parsed
    <3>2. WSAStringToAddressA(text, af, SockaddrLength[af]).error \in {0, WSA("EINVAL")}
      BY <2>1, <2>3 DEF WSAStringToAddressA, Parsed
    <3> QED
      BY <1>1, <3>1, <3>2
  <2> QED
    BY <2>2, <2>3
<1>4. AddressesTypeOK => RetryFits
  <2> SUFFICES ASSUME AddressesTypeOK PROVE RetryFits
    OBVIOUS
  <2>1. Held \subseteq Address /\ Sizes \subseteq Nat
    BY HeldAreAddresses, SizesAssumption
  <2> QED
    BY <1>2, <1>3, <2>1 DEF RetryFits, TextsRetry
<1> QED
  BY <1>4, TypeCorrect, PTL

(* InetPtonW reads back what InetNtopW and GetNameInfoW have written into  *)
(* arrays of INET6_ADDRSTRLEN places, the longest address too.             *)
THEOREM WideRoundTrip == AddressesSpec => []WideReadsBack
<1>1. ASSUME NEW a \in Address,
             NEW text \in {InetNtopW(a.family, a.host, INET6_ADDRSTRLEN),
                           GetNameInfoW(a, INET6_ADDRSTRLEN, INET6_ADDRSTRLEN)[1]}
      PROVE  InetPtonW(a.family, text) = {a.host}
  <2> DEFINE ntop == Ntop[a.family][a.host]
  <2>1. /\ ntop \in Seq({COLON} \cup Nat) /\ Len(ntop) < INET6_ADDRSTRLEN
        /\ INET6_ADDRSTRLEN \in Nat /\ Len(ntop) \in Nat
    BY AddressParts, NtopText
  <2>2. text = Widened(ntop, INET6_ADDRSTRLEN)
    BY DEF InetNtopW, GetNameInfoW
  <2>3. InetPton(a.family, ntop) = a.host
    BY AddressParts, PtonReads
  <2> HIDE DEF ntop
  <2>4. text = ntop
    BY <2>1, <2>2, PrefixWhole DEF Widened
  <2>5. ~IsStrange(ntop) /\ Narrowed(ntop, INET6_ADDRSTRLEN) = {ntop}
    BY <2>1, NarrowedWhole
  <2> QED
    BY <2>3, <2>4, <2>5 DEF InetPtonW
<1>2. AddressesTypeOK => WideReadsBack
  BY <1>1, HeldAreAddresses DEF WideReadsBack
<1> QED
  BY <1>2, TypeCorrect, PTL
=============================================================================
