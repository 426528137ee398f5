# A verification of linux_winsock2

TLA+ modules that model the Winsock 2 library of this repository, TLC
configurations that check them on small instances, and TLAPS proofs about them.
Line numbers are those of the sources in `src/`.

The library is a layer of C functions over POSIX sockets. Most functions are one
system call with its arguments renamed. What can go wrong is in the rest: the
state the library itself keeps between calls, shared by the threads of the
application and by threads the library starts.

## 1. Inventory

### Event objects (`wsa_events.c` 14-237)

- **State.** A `WSAEVENT` is the address of a heap block with an eventfd
  descriptor, a flag `signaled` and a mutex.
- **Operations.** `WSACreateEvent`, `WSACloseEvent`, `WSASetEvent`,
  `WSAResetEvent`, `WSAWaitForMultipleEvents`.
- **Hard.** Setters and resetters take the mutex and change flag and eventfd one
  after the other. Waiters take no mutex and see only descriptors, in a
  `select()` over all of them. Closing takes no mutex either.
- **Correct when** flag and descriptor agree outside the critical sections; a wait
  returns an event that was set, the first of its array, and times out only
  when it saw all unset; a set wakes it; no path leaks a descriptor or keeps the
  mutex.

### Socket events (`wsa_events.c` 26-39, 239-439; `closesocket`, `winsock2.c` 157-170)

- **State.** A list `g_socket_event_map` of mappings from a socket to an event
  and a mask, under `g_map_mutex`; for each mapping an epoll instance and a
  detached thread `event_monitor_thread`.
- **Operations.** `WSAEventSelect` (four resources to acquire, five error
  returns), `WSAEnumNetworkEvents`, the monitor loop.
- **Interaction.** Monitors call `WSASetEvent`; `WSAEnumNetworkEvents` calls
  `WSAResetEvent`. `closesocket` tells the list nothing; the kernel drops the
  socket from the epoll instance.
- **Hard.** Monitors read `map->event` without `g_map_mutex`; descriptor numbers
  are reused; a notification can race a reset.
- **Correct when** a socket has one mapping, blocks and epoll instances have one
  owner on every path, the mapping says what was last asked, a persisting
  condition keeps setting the event, and a socket whose association succeeded
  is watched.

### Asynchronous lookups (`wsa_events.c` 41-62, 459-626; `wsock32.c` 71-322)

- **State.** A list `g_async_requests` and a counter of handles, under
  `g_async_mutex`; one detached thread per request; libc's static answer buffers.
- **Operations.** `WSAAsyncGetHostByName`, `WSAAsyncGetHostByAddr` (on the
  list, numbered), `WSAAsyncGetServByName`, `...ServByPort`, `...ProtoByName`,
  `...ProtoByNumber` (not on the list; the handle is an address),
  `WSACancelAsyncRequest`.
- **Hard.** The push is published before `pthread_create`, and undone when that
  fails; answers of two requests meet in one static buffer.
- **Correct when** handles are unique, the list holds exactly the live requests,
  no thread runs on a freed one, and a caller reads its own answer.

### Initialisation and error codes (`winsock2.c` 13-149)

- **State.** `g_wsa_init_count` under `g_wsa_init_mutex`; a thread-local last error.
- **Operations.** `WSAStartup`, `WSACleanup`, `WSAGetLastError`, `WSASetLastError`.
- **Correct when** no update of the count is lost, a cleanup is refused only when
  nothing is initialised, and the mutex is released on each of the five returns.

### Stream sockets (`wsa_extended.c` 130-481; `ms_extensions.c` 128-231, 269-316)

- **State.** A heap array of iovecs per call; otherwise the kernel's stream.
- **Operations.** `WSASend`, `WSASendTo`, `WSASendMsg` and the three receiving
  counterparts; `TransmitFile` (head, file, tail), `TransmitPackets`;
  `ConnectEx` (connect, then send).
- **Hard.** Short counts, `EAGAIN`, signals and resets in the middle; calls of
  several threads on one stream; a free on every path.
- **Correct when** what a call reports is what it did to the stream.

### Making, moving and closing sockets (`wsa_extended.c` 21-124, 487-542, 608-625; `ms_extensions.c` 18-122, 237-263, 322-437; `winsock2.c` 157-190)

- **State.** The kernel's table of descriptors; the thread-local last error.
- **Operations.** `WSASocketA/W`, `WSASocketPair`, `WSAAccept`, `WSAConnect`,
  `closesocket`, `ioctlsocket` and `WSAIoctl` are one system call each. `AcceptEx`
  is four (`accept`, `dup2` over the caller's socket, `close`, `recv`) and
  `DisconnectEx` two. The completion-port functions, `WSAGetOverlappedResult`,
  `WSAGetExtensionFunctionPointer`, `WSAEnumProtocols` and `WSADuplicateSocket` are
  stubs that leave an error code.
- **Hard.** `AcceptEx` can fail after each of its system calls, and by then has
  made, replaced or closed a descriptor; other threads open and close others
  between them, and the kernel gives out the lowest number that is free.
- **Correct when** every open descriptor has one owner, a connection has one
  descriptor, and the caller can tell from the last error what became of its
  socket.

### Error codes (`winsock2.c` 29-82, `wsa_extended.c` 628-681, `winsock2_api.h` 65-143)

- `errno_to_wsa_error`, a pure function written twice in the same words. What it
  has no case for keeps its number, shifted by `WSABASEERR`.
- **Correct when** the code names the error of the same name and no other.

### Addresses and names (`wsa_addr.c`)

- **State.** The list that `GetAddrInfoW` builds, up to three heap blocks per item,
  beside the list it got from libc.
- **Operations.** `GetAddrInfoW`, `FreeAddrInfoW`; the conversions
  `WSAAddressToString`, `WSAStringToAddress`, `InetNtop`, `InetPton`, `GetNameInfo`,
  each of them narrow and wide, over arrays whose lengths the caller gives or gets.
- **Hard.** Any `malloc` can fail, with different consequences; `mbstowcs` and
  `wcstombs` cut what does not fit and leave out the terminator; IPv6 addresses
  are full of the character that separates the port; lengths are
  returned for a second attempt.
- **Correct when** every block has one owner on every path, the list is libc's, and
  what one function printed another parses to the same address.

### The rest

| Part | Lines | State and difficulty |
|---|---|---|
| Blocking hooks | `wsock32.c` 13-64 | Three thread-local variables no other function reads |
| Byte order | `wsa_extended.c` 548-602 | One library call each, after a test for `NULL` |
| `WSAAsyncSelect` | `wsa_events.c` 445-457 | A stub that reports success |
| Headers, `Makefile`, the two test programs | | Declarations; the tests call most functions once, on one thread |

## 2. Modules

| Module | Models | Composes |
|---|---|---|
| `ManualResetEvent` | the contract of the event functions | |
| `WSAEvents` | the event functions, one action per access of shared state | refines `ManualResetEvent` |
| `EventSelect` | mappings, monitors, `closesocket` | uses events as `ManualResetEvent` gives them: set and reset at an instant |
| `AsyncLookups` | the request list, the lookup threads, cancellation | |
| `WinsockInit` | the initialisation count, the last error | |
| `StreamIO` | one stream and the calls that send and receive on it | |
| `ErrorCodes` | the Winsock codes and `errno_to_wsa_error` | |
| `SocketFds` | descriptors, and the calls that make, move and close sockets | extends `ErrorCodes` |
| `AddressStrings` | the conversions between addresses and strings | extends `ErrorCodes` |
| `Addresses` | the wide resolver and its heap, and what the conversions promise of its answers | extends `AddressStrings` |
| `MCCalls` | the instance of `SocketFds` and `Addresses`, which share nothing, as a sum | `SocketFds`, `Addresses` |
| `MC*` | instances for TLC: symmetry sets, argument sets | |
| `WSAEvents_proofs`, `EventSelect_proofs`, `AsyncLookups_proofs`, `WinsockInit_proofs`, `StreamIO_proofs`, `SocketFds_proofs`, `Addresses_proofs` | theorems about the module of that name | |
| `ManualResetEvent_proofs` | the theorem that `WSAEvents` implements `ManualResetEvent` | extends `WSAEvents_proofs` |

The variables of a module are of three sorts: what the library or the kernel keeps
(globals, heap blocks, descriptors), what a thread is doing (`pc` and the locals
of the function, under their names in the source), and, where a property needs
it, history (`wanted` in `EventSelect`, `raced` in `AsyncLookups`, `balance` in
`WinsockInit`, `finished`, `short`, `received` in `StreamIO`, `last` and
`arg.before` in `SocketFds`, `refused` in `Addresses`). A function is cut at
each access of state another thread can see; between a lock and an unlock it is
cut where another thread reads or writes without the lock. Addresses and
descriptors come from finite sets, so that `malloc` can return a freed address
again and the kernel a closed descriptor.

**WSAEvents.** `counter` is the eventfd counter behind a descriptor; `eventfd`,
`signaled` and `mutex` are the members of a block. `SetLock`, `SetWrite`,
`SetFlag`, `SetUnlock` are lines 126-142 one at a time, `ResetLock` to
`ResetUnlock` lines 156-169. `SelectPoll` is one descriptor of `select()`'s scan,
because the kernel looks at descriptors one after the other while others change
them; `SelectWake` is its second scan after it slept. `fWaitAll` and
`fAlertable` are ignored by the code and absent from the model.

**EventSelect.** `list`, `sock`, `event`, `networkEvents`, `running` are the
list and its blocks, `interest` and `watching` what the kernel's epoll instance
holds. The actions `EventSelectFind` to `EventSelectNonblock` are lines 292-389
with each failure, `epoll_ctl`'s on a descriptor that is closed by then included;
`MonitorCheck` to `MonitorSet` are one round of the thread's
loop, with the two reads of `map->event` (274, 276) apart. Of what a call returns only
success or failure is kept. Sockets become ready and unready by `Arise` and `Subside`.

**AsyncLookups.** `InsertLock`, `InsertLink`, `InsertHead` are lines 505-509,
`Spawn` and `SpawnFails...` the outcomes of `pthread_create`, `Undo` lines 513-519.
`CancelAsyncRequest` is the walk of lines 606-622. The nodes it visits are
`Reachable`: the least set with the head that is closed under the links, which is defined
whatever the links are; on a list that is linked to itself (`Cyclic`) the walk that finds nothing does
not end. A freed request that is still on the list keeps its
`next`, until its address is allocated again.

**WinsockInit.** The increment and the decrement are split into load and store.
Each exit of the two functions is an action.

**StreamIO.** `sent` is the sequence of bytes the stream accepted, each labelled with
the call it belongs to, the part of that call's data and its place in the part. Which bytes
a receiving call has in its buffers, and which bytes were reported, are sets of places in that
sequence (`got`, `received`). `SysSend`, `SysSendCut`, `SysSendFails` are what `writev`, `sendmsg`,
`send` and `sendfile` may do: everything, a part, or an error. One action of sending takes what
fits, so a blocking call that needs several lets other threads in between. `SysSendEnds` is
`sendfile` at the end of a file that is shorter than the caller said: it counts as a short
part, like one that the socket cut. `flags` is what a receiving call passes to `recvmsg`
(`wsa_extended.c` 325, 397): `MSG_PEEK` fills the buffers and leaves the bytes in the stream,
`MSG_WAITALL` goes on until they are full, in as many goes as it takes (`SysRecvCut` is what can end it
before that). `WSARecv` calls `readv`, which has none (`RecvFlags`). `MSG_DONTWAIT` on one call is
what `SysRecv`, `SysRecvFails` and a non-blocking socket have between them.

**SocketFds.** `desc` is the kernel's table, `mine` the descriptors that the
application has been given and has not closed, `result` AcceptEx's local of that name.
`AcceptExAccept` to `AcceptExReturn` are lines 41-90 of `ms_extensions.c`, cut at each
system call, without the addresses and the data that go into the caller's buffer; a peer stands for a connection, so that the same peer behind two descriptors
is one connection with two names. The other calls are one action, which
includes setting the last error; `last` keeps it with the errno that it was translated
from. `IoctlErrors` and the other sets are what errno may be when the system call of that name
fails; `close` of a socket fails with `EBADF` only. Neither the modes of a socket (blocking, close-on-exec) nor the arguments of
`socket()` are kept: no call of the library reads them.

**AddressStrings** has functions only. A string is a sequence of tokens of length one,
colons and numbers, and `Ntop` says what `inet_ntop` writes, so that the split at the last
colon, the lengths and the terminators are those of the code while digits are not.
`Widened` and `Narrowed` are `mbstowcs` and `wcstombs`: they cut without a terminator,
and of a narrow string that was cut the callee reads on through whatever lies
behind it (up to one stray token in the model).

**Addresses.** `GetAddrInfoW` to `GetAddrInfoWReturn` are lines 76-197 of `wsa_addr.c`
with a choice at each `malloc`; `heap` is the set of blocks in use. Its properties
apply the functions of `AddressStrings` to the addresses that the application
holds and to a set of strings.

### What the application is assumed to do

Some calls are only defined for a well-behaved caller, and the model's guards say so:
nobody passes an event that is closed, or closes one that a call in progress uses (`CloseEventfd`, and
`Call` and `CloseEvent` in `EventSelect`: the application has taken it off every mapping
first); `closesocket` and `DisconnectEx` are not called on a socket another call is
working on, nor are two `AcceptEx` given the same socket to replace;
descriptor numbers are below `FD_SETSIZE`, since `FD_SET` on others is undefined.

## 3. Runs

All passing runs check deadlock except `lookups`: there an application that has
used every request (they are never freed, `wsa_events.c` has no `free` on the path
that succeeds) stops.

| Run | Instance | States | Shows |
|---|---|---|---|
| `events` | 2 threads, 2 events, 3 descriptors, waits of up to 2 | 130 233 | `FlagMatchesCounter`, `DescriptorsOwned`, the inductive `Inv`, and `ImplementsManualResetEvent` |
| `events_live` | 2 threads, 1 event, 2 descriptors | 19 970 | `MutexReleased`, `WaiterWoken` |
| `select` | 2 threads, 1 socket, 1 event, 2 blocks, asking for read or nothing | 245 511 | `OneMappingPerSocket`, `BlocksOwned`, `MonitorsServeListed`, `AssociationRecorded`, `LockReleased`, `KeepsNotifying` |
| `lookups` | 2 threads, 4 requests, a listed and an unlisted kind, 3 handles | 83 089 | `HandlesDistinct`, `RunningIsAllocated`, `ListHoldsUnlessRaced` |
| `init` | 2 threads, versions 0.9, 1.0, 1.1, 2.2, at most 2 outstanding | 54 228 | `CountIsBalance`, `Inv`, `RefusedOnlyWhenClean`, `MutexReleased` |
| `stream` | 2 threads, 2 sending calls, 4 jobs, one with a file that may end early, a buffer of 2 bytes, receives with and without flags | 1 101 728 | `IovsOwned`, `ReportedIsSent`, `WholeUnlessShort`, `TakenIsReported` |
| `calls` | 2 threads, 4 descriptors, 2 peers; 4 answers of up to 2 addresses, 11 strings, 5 lengths | 68 411 | `DescriptorsOwned`, `OneDescriptorEach`, `CodeTellsIfReplaced`, `CodesNameTheError`; `HeapOwned`, `ResolvedInOrder`, `PrintedParses`, `RetryFits`, `WideReadsBack` |
| `select_reuse` | 1 thread, 1 socket | violated | `AssociationWatched` |
| `select_stale` | 1 thread, 1 socket | violated | `MonitorSetsOpenEvent` |
| `lookups_dangling` | 2 threads, 3 requests | violated | `ListHoldsPushed` |
| `lookups_buffer` | 2 threads, 3 requests | violated | `BufferHoldsAnswer` |
| `stream_short` | 2 threads, 1 sending call | violated | `NoHoles` |

**Why these bounds.** Every race in the code is between two parties, so two threads
(and, in `EventSelect`, a monitor besides) meet in every order. `events` has two
events because the order within an array matters, and a third descriptor
so that a new event can be created while both are open, and fail; arrays of up to
`MaxWait + 1` handles, some `NULL` or repeated, reach each argument check;
`EventfdMax` = 2 lets a lost agreement between flag and counter show, since the
counter could then pass 1. `select` has two blocks for one socket so that a
second mapping could be made; it has one condition, "readable", and no symmetry
set, because it checks liveness.
`lookups` has four requests: two held by calls in progress, one already on the
list before them, and one at a freed address. `init` bounds the outstanding
startups by a guard, not the number of calls. In `stream` no job fits into the
kernel's buffer as a whole behind another, so that every call can be full, short or
blocked; the `WSASend` of 3 bytes cannot be taken at once even alone. The room of a receive is 2
bytes, so that one that waits for all takes them in two goes. `calls` has four
descriptors: a listening one, one for each of two `AcceptEx` to replace, and one to
accept on, so that calls also run out of them; each of its error sets has an errno with a
case and, but for `connect`, one without; of these `EPROTO` is taken for another error, and `ENOMEM` and
`ENOTTY` are not. Its strings have addresses of the greatest length that
`INET6_ADDRSTRLEN` (6 tokens there) allows, of one more, and with and without ports;
its sizes are on each side of the lengths needed. The two components of `calls` move in
different behaviours, chosen by `which` at the start.

**Fairness.** `FairSpec` asks weak fairness of each thread's steps inside a call:
the scheduler runs a thread that can run. It asks nothing of the application
(which calls to begin), of the network, or of `malloc` and `pthread_create`. A mutex
wait is enabled only while the mutex is free, so that weak fairness lets a thread
starve on a busy mutex, which is all that `pthread_mutex_lock` promises. For
that reason the liveness properties are about release and wake-up, not about
every call returning. In `WaiterWoken` the signal handler that interrupts a
wait is not made to run.

### What breaks each property

Beside the definitions stand mutated ones (`Mut...`): the next definition with a
plausible bug in it. In the run named, putting it in the place of the original
violates the property.

| Run | Property | Mutated definition | Bug |
|---|---|---|---|
| events | `TypeOK` | `ValidArray` | no upper limit on the number of handles |
| events | `FlagMatchesCounter` | `SetLock` | set without the lock |
| events | `DescriptorsOwned` | `CreateMallocFails` | `malloc` fails, no `close` |
| events | `Inv` | `ResetUnlock` | return without the unlock |
| events | `ImplementsManualResetEvent` | `FirstReady` | any ready event, not the first |
| events_live | `MutexReleased` | `ResetDrain` | the drain loop goes on after `read` fails |
| events_live | `WaiterWoken` | `ResetFlag` | the flag is not cleared |
| select | `TypeOK` | `EventSelectMallocFails` | return without the unlock |
| select | `OneMappingPerSocket` | `EventSelectFind` | search without the lock |
| select | `BlocksOwned` | `EventSelectEpollFails` | `epoll_ctl` fails, no `close` |
| select | `MonitorsServeListed` | `EventSelectSpawnFails` | the freed block stays on the list |
| select | `AssociationRecorded` | `EventSelectUpdate` | the event is not updated |
| select | `LockReleased` | `EventSelectMallocFails` | return without the unlock |
| select | `KeepsNotifying` | `MonitorSet` | sets the event once and ends |
| lookups | `TypeOK` | `InsertHead` | no unlock after the push |
| lookups | `HandlesDistinct` | `InsertLock` | number taken without the lock |
| lookups | `RunningIsAllocated` | `Undo` | frees the head instead of its own request |
| lookups | `ListHoldsUnlessRaced` | `Undo` | frees the request without taking it off |
| init | `TypeOK` | `CleanupLoad` | no test for zero |
| init | `CountIsBalance` | `StartupLock` | startup without the lock |
| init | `Inv` | `CleanupLock` | cleanup without the lock |
| init | `RefusedOnlyWhenClean` | `CleanupRefuses` | off by one |
| init | `MutexReleased` | `StartupRefuses` | return without the unlock |
| stream | `TypeOK` | `TransmitNext` | one part too many |
| stream | `IovsOwned` | `GatherFails` | no `free` on the error path |
| stream | `ReportedIsSent` | `GatherReturn` | reports the length asked for |
| stream | `WholeUnlessShort` | `TransmitReturn` | one part too few |
| stream | `TakenIsReported` | `ScatterReturn` | reports only that there is data |
| calls | `TypeOK` | `AcceptExAcceptFails` | goes on to `dup2` |
| calls | `DescriptorsOwned` | `AcceptExDupFails` | `dup2` fails, no `close` |
| calls | `OneDescriptorEach` | `AcceptExClose` | the new descriptor stays open and is given out |
| calls | `CodeTellsIfReplaced` | `AcceptExRecvFails` | the code of a failed `accept` |
| calls | `CodesNameTheError` | `errno_to_wsa_error` | no table |
| calls | `AddressesTypeOK` | `Port` | without the conversion to 16 bits |
| calls | `HeapOwned` | `NewItemFails` | frees no names |
| calls | `ResolvedInOrder` | `Current` | always the first item |
| calls | `PrintedParses` | `Split` | at the first colon |
| calls | `RetryFits` | `Copied` | length without the terminator |
| calls | `WideReadsBack` | `InetPtonW` | array one place shorter |

### Where the code and its documentation part

- `select_reuse` (`wsa_events.c:303`). A socket is selected, closed, and its number
  given to a new socket. `WSAEventSelect` finds the old mapping, updates it and
  returns 0; the epoll instance of that mapping lost the old socket when it was
  closed and has never heard of the new one. Its event is never set.
- `select_stale` (`wsa_events.c:276`). The monitor has read the event of its mapping for the
  second time (the first is the test at 274); the application takes the event off with
  `WSAEventSelect(s, NULL, 0)`, which returns, and closes it; the monitor sets it.
- `lookups_dangling` (`wsa_events.c:513`). Two calls push; the thread of the first
  cannot be created, and the list is reset to what followed that request: the second
  request is off the list though its lookup runs. With the calls failing in other
  orders the freed request stays on the list.
- `lookups_buffer` (`wsa_events.c:479`). The answer is copied with `memcpy`: its
  pointers lead into libc's buffer, where the next answer is written.
- `stream_short` (`ms_extensions.c:161`). On a non-blocking socket the head goes out whole and
  `sendfile` takes only part of the file, which is no error; a receiver makes room, the tail follows
  behind that part, and `TransmitFile` returns `TRUE`. A short head (152) would do the same, and in
  `TransmitPackets` a short element.

`ListHoldsUnlessRaced` and `WholeUnlessShort` say what remains true around two of
them, and so that they are the only way to the fault.

Behaviour that the models have and no run is about: the second mask given to
`WSAEventSelect` never reaches the epoll instance (304, `EventSelectUpdate`);
`WSAEnumNetworkEvents` reports a pending error as `FD_CONNECT` and nothing else
(423-430, `EnumError`); a monitor never ends, since nothing clears `running`
(258); `WSACancelAsyncRequest` compares addresses, and the handles of host lookups are
numbers, so that it never finds the request they were given out for (606-622); requests are
never freed; `WSAStartup` and `WSACleanup` do not assign the last error
(README.md:273 says all functions do); a socket made with
`WSA_FLAG_NO_HANDLE_INHERIT` is the one that is inherited (`wsa_extended.c:42`, left out with the modes);
after `dup2` the caller's socket has the modes of the accepted one; `AcceptEx` reports every
error of `accept`, `EWOULDBLOCK` included, as `WSAECONNREFUSED` (`ms_extensions.c:44`) and
puts the addresses before the data (85-86); `WSAEnumProtocols` fails with `WSAENOBUFS` also for a buffer of
the length that it returned (`wsa_addr.c:475`); `GetAddrInfoW` returns 0 for a list whose addresses
or names could not be copied (161-178), and libc's `EAI_` codes as they are, without a last error
(128); `EPROTO` becomes `WSAEREMOTE`, `ENONET` `WSAEHOSTDOWN`, `EDEADLK` `WSAEWOULDBLOCK`, and so every errno of
`Mistaken` (`winsock2.c:75`; README.md:297 says that errno values are mapped); an IPv6 address without a port loses its last group to the port
(`wsa_addr.c:384`); `ConnectEx` on a non-blocking socket does not
send its data when the connection completes (`ConnectFails`); and a wait ignores
`fWaitAll` (183), which no model has.

## 4. Proofs

TLAPS checks the following for every value of the constants: any number of
threads, sockets, events, blocks, descriptors, peers, requests and versions, any data, any
limits, any answers of libc. Every invariant and every action property that a passing run
checks is a theorem, and so is the refinement. The assumptions are the `ASSUME`s of the modules,
which TLC evaluates on each instance:

- `NULL` is none of the threads, addresses, descriptors, peers, sockets; limits
  and capacities are positive, errno values positive numbers, lengths natural ones;
  versions are pairs of bytes; `"0"` is an error code;
- `AsyncLookups`: a process has finitely many threads, and no address of a request is as small as
  the numbers that are counted out as handles;
- `StreamIO`: a job has a part, and each of its parts a byte;
- `AddressStrings` and `Addresses`: `inet_ntop` writes each host of a family
  differently and in fewer than `INET6_ADDRSTRLEN` tokens; answers of `getaddrinfo` are not
  empty; strings consist of tokens.

But for the threads of `AsyncLookups`, which are counted, the proofs do not need the sets to be
finite.

**WSAEvents_proofs.** `Invariance` is `Spec => []Inv`. `FlagMatchesCounter` and
`DescriptorsOwned` are not inductive: that flag and counter agree when the mutex
is free says nothing about the steps that hold it. `Inv` adds

- `MutexHeld`: an event's mutex belongs to `t` exactly while `t` is between its lock and
  its unlock, hence at most one thread is there (`HolderIsAlone`);
- `FlagOrMidway`: flag and counter differ exactly while a thread is between the
  access of one and that of the other, and which way tells which call it is;
- `UsedAreLive`: the event of a call in progress is allocated and not being closed, so
  that a lock, a write or an allocation never meets a block that is being freed;
- `LocalsMatchPC`: a thread has locals only inside the call they belong to.

Each conjunct has its lemma (`TypeStep`, `LocalsStep`, `UsedStep`, `MutexStep`,
`OwnedStep`, `FlagStep`) with a step per action. The steps that create and
free descriptors are summarised once by lemmas on what they do to the set of
usable events (`CreateEventfdEffect` and the following), and the others by
`QuietStep`. From `Inv` follow `TypeCorrect`, `FlagAgrees` and `NoDescriptorLost`.

**ManualResetEvent_proofs.** `Refinement` is `Spec => ImplementsManualResetEvent`. It is
proved from `Inv` and `NothingRead` (outside a wait a thread has found nothing
readable), with a lemma for each action or kind of action (`...Refines`). Locks and changes of the
flag stutter (`LockAndFlagStutter`); an unlock is the abstract return. The instant at which a call
takes effect is the drain of `WSAResetEvent`, and of `WSASetEvent` the `write()` or
the moment it finds the flag set: `FlagOrMidway` says that the descriptor is readable then, and
that the `write()` meets a counter of 0 and cannot fail. Polling a descriptor is a look at the event
that has it (`SelectPollRefines`), so that what a wait returns is the first event of those it has seen set.

**EventSelect_proofs.** None of the properties is inductive: what the list may become depends on
what the thread that holds `g_map_mutex` found in it. `SearchHolds` says so for each place
between lock and unlock: the thread has found the mapping of its socket; or there is none, and its
block is not on the list; or its block is at the head and was the last to get there. Since the
holder is alone (`HolderIsAlone`) and every other step leaves the list as it is
(`QuietKeeps`), there is a lemma for each way through `WSAEventSelect`: `FindKeeps`,
`UpdateKeeps`, `PrepareKeeps`, `InsertKeeps`, `SpawnKeeps`, `SpawnFailsKeeps`. The last is where
a block leaves the list again, and needs that nothing was pushed on top of it. `OneMapping`,
`NoBlockLost`, `MonitorsServe`, `AssociationKept` and `TypeCorrect` follow.

**AsyncLookups_proofs.** The list is a chain of links that may be wrong, so that the proofs are about
the least closed sets that stand for walks: `FromUnfold` takes one link off a walk,
`FromUnchanged` says that a walk does not depend on links outside it, `LoopsUnchanged` that no loop
arises then. On top of these the invariant has `RequestOwned` (a thread in a call has
a request of its own, whose lookup has not begun), `LaunchedAllocated` (a request
whose lookup has begun is not freed), `NumbersCounted` (the counter is past every number but
the one that the holder of the lock is about to count), `NumbersLeft` (as many numbers are left
as threads will count) and `HeadLinked` (what is about to become the head leads to the head, so that
a push loses nothing). `NumbersDistinct`, `LookupsHaveRequests` and `ListRight` follow: the
list holds what was pushed and has no loop, unless two calls have met between push and undo.
`CancelFindsNothing` is a consequence that no run checks: until then `WSACancelAsyncRequest`
finds none of the handles that were ever given out.

**WinsockInit_proofs.** The inductive part is `LoadedIsCurrent`: the mutex is held
exactly in the critical sections, and what a thread loaded there is still the count
when it stores. `CountCorrect`, `TypeCorrect` (the count is never negative) and the
action property `RefusalCorrect` follow.

**SocketFds_proofs.** `Invariance` is about ownership: `Inv` states `DescriptorsOwned`
descriptor by descriptor (`Owned`) and adds

- `Located`: the descriptors that a call in progress works on are the application's, so that
  what an `AcceptEx` holds in `result` is never one of them;
- `Apart`: a socket that a call closes or replaces is in no other call's use, so that no close
  or `dup2` pulls a descriptor from under another call.

The calls fall into kinds, with a lemma for each: those that leave the table alone
(`ReturnKeeps`), make descriptors (`MakesKeeps`), change a socket's kind
(`MovesKeeps`) or close one (`ClosesKeeps`); the steps of `AcceptEx` have one
each. `TypeCorrect` and `NoDescriptorLost` follow. `ConnectionsSingle` and `ErrorTells` need to
know whose connection is where, on top of `Inv`: `PeersInv` adds that what `AcceptEx` holds is
a connection (`HeldIsConnected`) and that the caller's socket is its own up to `dup2` and
another's after it (`ReplacedByDup`). The step that matters is `dup2`: `HeldAlone` shows that no
other descriptor, the caller's included, has the connection that is being moved. `CodesTell`
rests on what a step may return (`Returns`): a code of its own, or the code of an error that a
system call left, any number at all. That the table is one to one (`TableIsOneToOne`) does not
suffice, since numbers without a case are passed through: Linux has other errors between 35 and 71,
where Winsock has its own, and `CodeNames` shows that exactly those without a case there (`Mistaken`) come out as
the code of another error.

**StreamIO_proofs.** What a call reports is compared with what it did by following every byte.
`Progress` says which bytes of a call the stream holds while it is in progress: of the present part
those that it has put in, of the parts before it all (unless it came up short), none else.
With `CallsNumbered` (calls have numbers of their own), `PartDone` and `Ordered` it is inductive;
`SendEffect` is the one lemma about the append of a system call. `ReportTrue` and `TransmitWhole`
follow at the return (`EndHolds`). `IovsFreed` needs to know which calls gather (`ApiKnown`);
`TakenOnce` (each byte that is taken out is reported, by the one call that took it,
although others may have seen it in a peek) needs what a receive that takes has in its buffers while it is in progress:
places up to `taken`, apart from those of the other calls that take, and not reported.

**Addresses_proofs.** For the resolver, `Underway` and `Linked` say that the list made so far is
what is left of libc's answer without the blocks that `malloc` refused (`Kept`), and `HeapOwned` is
kept because one more item adds exactly its own blocks (`BlocksAppend`). `HeapAccounted` and
`AnswerKept` follow. The other theorems are about the conversions: a printed address is split
where it was put together (`BufferSplit`), because a port has no colon behind it. That a string with a
colon has a last one (`Greatest`) is the only place that needs well-founded
induction, in the library's form without an operator parameter. `PrintedReadBack`,
`RetrySucceeds` and `WideRoundTrip` are then about every address, array
size and string, and not about the eleven strings of the instance.

**Only model-checked.** Liveness under fairness (`MutexReleased` of both modules, `WaiterWoken`,
`LockReleased`, `KeepsNotifying`), which TLAPS cannot treat; that the models have no deadlock; and the
five violations, each of which is one behaviour.

## 5. Not modelled

- The blocking hooks: three thread-local variables that no other function reads. No call sets
  `g_blocking_in_progress` or runs a hook, so that `WSACancelBlockingCall` always
  fails; what is left is a register of one pointer.
- `WSAAsyncSelect`, which returns success and does nothing, and the byte-order functions,
  each a call of libc behind a test for `NULL`.
- The modes of a socket (but for blocking, in `StreamIO`) and the arguments of `socket()`.
- Error codes of `WSAEventSelect`, of the lookups and of the stream calls; names and control data of
  `WSASendMsg` and `WSARecvMsg`, the flags of sending calls, and of receiving ones `MSG_OOB`,
  `MSG_TRUNC` and `MSG_PEEK` together with `MSG_WAITALL`; datagrams, where a count is not short.
- Parts of no bytes, and calls without buffers: the six calls that gather and scatter refuse them with
  `WSAEFAULT`, which changes nothing but the last error, except that `WSASendMsg` and `WSARecvMsg`
  hand a message without buffers to the kernel (384-386, 451-453).
- `GetAcceptExSockaddrs` (`ms_extensions.c` 97-122), which keeps nothing and computes two pointers into the
  caller's buffer by the same sums as `AcceptEx` (85-86), and what `AcceptEx` puts there.
- Spellings of an address other than the one `inet_ntop` writes: `InetPton` accepts no other. That
  `mbstowcs` fails on a name of `getaddrinfo` that is no string of the locale, whose result
  `GetAddrInfoW` does not look at (`wsa_addr.c:175`): `CopyName` always copies.
- The parts of an address beyond family, host and port (scope and flow of IPv6), the hints of
  `GetAddrInfoW`, and names of more than 255 bytes, which are cut like the other strings.
- `pthread_mutex_init` and `pthread_mutex_lock` failing; `SIGPIPE`.
- What an undefined access does: a set of a freed event is shown as no effect, and the
  property says that it happened.
- The old headers (`*_old.h`, `winsock.h`), which declare what the others declare.

## 6. Plan

The modules named in the inventory are written, and what the passing runs check is proved but for
liveness. What is left:

1. Several sockets in the instance of `EventSelect`, so that TLC too searches the list past
   its head (the proofs have any number of sockets).
2. `EventSelect` composed with `WSAEvents` in place of atomic events. `Refinement` is what
   justifies the atomic ones for safety.
3. The safety half of the liveness properties as theorems: that the holder of a mutex has a
   step to take.
