# Formal models of the login servers and their network layer

TLA+ specifications of the program in `src/`, the TLC configurations that check
them on small instances, and TLAPS proofs of the results that should hold for
every size.  Line numbers refer to the files as they are in `src/`.

    tlc -workers 2 -config MCMemory.cfg MCMemory.tla
    tlapm CircuitQueueProofs.tla

1. [The system](#1-the-system)
2. [The modules](#2-the-modules)
3. [Correspondence and abstractions](#3-correspondence-and-abstractions)
4. [What the runs check](#4-what-the-runs-check)
5. [Fairness](#5-fairness)
6. [What is proved](#6-what-is-proved)
7. [What the models say about the code](#7-what-the-models-say-about-the-code)
8. [Not modelled, and the plan](#8-not-modelled-and-the-plan)

## 1. The system

Three processes talk over TCP.  **LoginSrv** accepts clients and other servers,
**JsonSrv** connects out to LoginSrv and DBSrv and relays between them, **DBSrv**
answers with what a MySQL database holds.  All three are built on one network
library, `src/Network`, which is where the concurrency is.

### Network: who runs what

One `IOCPServer` has one `SyncHandler` for each port or client role.  A
`SyncHandler` is driven by these threads:

| thread | code | what it does |
| --- | --- | --- |
| main | `SyncHandler::Update`, `Connect` | the only one to change the active list and to call the application |
| accept | `Acceptor.cpp` `accept_thread` | takes a session from the accept pool, gives it the socket, queues it for main |
| connect | `Connector.cpp` `connect_thread` | waits on a semaphore, calls `connect()`, queues the session as success or failure |
| epoll | `SyncHandler.cpp:7` | turns edge-triggered events into flags on the session and entries of an event queue |
| io (8, DBSrv 1) | `SyncHandler.cpp:43` | takes an entry, runs `DoRecv` or `DoSend` on its session |
| send | `IOCPServer.cpp` | walks the active sessions and queues those that have something to send |

A session moves: pool -> thread -> a list for main -> `activeList` of main -> active
list -> kicked -> pool.  Each list has a lock of its own; nothing locks a session
while it moves.  An epoll event and an event-queue entry hold the bare `Session*`,
and nothing takes them back when the session is freed.

### Components

| component | state | operations | interacts by | hard behaviour | correct when |
| --- | --- | --- | --- | --- | --- |
| MemoryFactory (`Utility/MemoryFactory.hpp`) | bands of objects, a stack of free pointers each, the free band | Initialize, Alloc, Free, Release | called for every application object | objects migrate between bands; only one neighbour is looked at | no object has two owners, none is lost, Alloc succeeds |
| CircuitQueue (`Common/CircuitQueue.h`) | ring, extra area, head, tail, length | Enqueue, Dequeue, Peek, Clear, GetReadPtr, CopyHeadDataToExtraBuffer | the buffers and the event queue are made of it | wrap-around, full and empty alike, in-place reads and writes | a bounded first-in first-out queue |
| RecvBuffer (`Network/RecvBuffer.h`) | a CircuitQueue of bytes | GetRecvParam, Completion, GetFirstPacketPtr, RemoveFirstPacket | io thread writes, main reads, single calls locked | a packet split by the end of the ring, made contiguous in several calls | each packet delivered once, whole, in order, eventually |
| SendBuffer (`Network/SendBuffer.h`) | a CircuitQueue of bytes, `m_bComplete` | Write, GetSendParam, Completion, IsReadyToSend | main writes, io threads send | an unlocked test-and-set flag; partial sends | never stuck, no byte lost |
| Session, SessionPool | socket, flags, buffers, object | Init, Bind/Unbind, DoRecv, DoSend, PreSend, OnSend, Remove | every thread | used again while stale pointers to it circulate | bound to one object, on one list |
| SyncHandler | the session lists, event queue, epoll set, count | Update's five phases, Connect, AddIoEvent, Shutdown | as above | five threads, edge triggering, condition variable without predicate | counts and registrations right; resets noticed |
| Acceptor, Connector | listening socket; semaphore and list | accept_thread, connect_thread, Connect | lists of SyncHandler | wake-ups counted, list drained | every Connect answered |
| NetworkObject | `m_pSession` | OnAccept, OnConnect, OnRecv, OnDisconnect, Send, Disconnect | main calls it | callbacks call back | the contract of `NetworkObjects.tla` |
| IOCPServer | map of SyncHandlers | Update, Connect, send_thread, Shutdown | main and send thread | the scan races with main; threads are ended in an order | no thread outlives the sessions |
| Lists (`Double_List_T.h`, `Single_List_T.h`, `Linkedlist.h`) | links inside the elements, or nodes from a pool | push, pop, insert, remove, splice, positions | session lists, query lists | an element on two lists corrupts both; removal in the middle | each behaves as a sequence |
| LoginSrv | pool of UserSessions, table from user key to UserSession, JsonSrv's session | accept, forward, answer, release | the network layer | one UserSession given to several clients; a server rebinds | an answer reaches the client that asked, once |
| JsonSrv | sessions to LoginSrv and DBSrv | MaintainConnection, forwarding | the network layer | a failed or lost connection; a restart | both links are up, or something named was lost |
| DBSrv | pooled query object, query handlers | query, answer | the network layer, HyMysql | a failed query leaves earlier rows | an answer holds the row of its query |
| HyMysql queue (`HyDatabase`, `QueryExecuteProcessor`) | query list, two result lists, workers | Initialize, DBQuery, Update, run, Release | condition variable, two lists switched | wake-up before wait; one broadcast at the end | queries are two first-in first-out queues, each answered |
| HyMysql client (`IMysql`) | a connection, a result, a statement | Execute, ExecuteLargeData | MySQL's library | calls that fail half-way, several result sets | every row belongs to its statement |
| ObjKeyGenerator | ring of free keys | Create, ReserveKey, RestoreKey | LoginSrv | a lock not released on a return path | keys unique |
| FunctionMap, SolarHashTable | handlers by category and protocol | Add, Find | packet dispatch | hash chains | what was added is found |
| Packet builders and parsers (`Public`) | a cursor | Write, Read, Parse | handlers | cursor at the limit | reads what was written |
| BinarySrv, JSON, MD5, ini, log, thread wrappers | - | - | - | - | - |

`PROJECT.json` lists each of them with what is modelled, and every hazard at its
line with the properties that would catch it.

## 2. The modules

| module | models | role |
| --- | --- | --- |
| `ObjectPool` | what MemoryFactory promises | abstract |
| `MemoryFactory` | `MemoryFactory.hpp` | refines `ObjectPool` |
| `BoundedFifo` | what CircuitQueue promises | abstract |
| `CircuitQueue` | the operators of `CircuitQueue.h` on head, tail, length and cells | used by the next three |
| `CircuitQueueFifo` | a CircuitQueue under any calls | refines `BoundedFifo` |
| `RecvBuffer` | the receive buffer between an io thread and main, with packet headers and without | detailed, liveness |
| `SendBuffer` | the send buffer between main, an io thread, the send and the epoll thread, with headers and without | detailed, liveness |
| `IoQueue` | the queue of events, its condition variable, the io threads, Shutdown | detailed, liveness |
| `SessionLists` | sessions moving between lists | abstract |
| `NetworkObjects` | the callback contract of an application object | abstract |
| `Session` | the state all threads share; Session, SessionPool and epoll operations | base of the next two |
| `SyncUpdate` | main: `Connect` and the phases of `Update` | |
| `SyncThreads` | accept, connect, epoll, io and send threads; peers | |
| `SyncHandler` | composition of the three; properties | refines `SessionLists`, `NetworkObjects` |
| `ObjectLists` | what the intrusive lists promise: sequences | abstract |
| `Walks` | walking links; the operators on sequences that the containers use | used by the next six |
| `Links` | lists of objects linked to one another | used by the next three |
| `SingleList`, `SingleQueue` | the two list templates of `Single_List_T.h` | refine `ObjectLists` |
| `DoubleList` | `Double_List_T.h` | refines `ObjectLists` |
| `NodeList` | `Linkedlist.h`, with positions and its pool of nodes | detailed |
| `HashTable` | `SolarHashTable.h`: chains, list of all entries, two iterators | detailed |
| `ServerLinks` | the connections JsonSrv makes to the two other servers, and their JsonSession | base of the next three |
| `LoginServer` | LoginSrv's clients, UserSessions and table | |
| `JsonServer` | JsonSrv, its crash and restart | |
| `DBServer` | DBSrv's handler and its query object | |
| `LoginSystem` | composition of the three; properties | detailed, liveness |
| `QueryService` | what HyDatabase promises of its queries | abstract |
| `QueryQueue` | `HyDatabase.cpp`, `QueryExecuteProcessor.cpp`, the thread pool | refines `QueryService`, liveness |
| `MysqlClient` | `IMysql.cpp`, `QueryResult.h`; MySQL's library is external | detailed |
| `Containers` | the five containers side by side, for TLC and for the proofs | composition |
| `MC*` | model values and the instances' parameters | TLC |
| `*Proofs` | theorems | TLAPS |

No module declares a RECURSIVE operator, so all of them can be proved about; what
a loop over links does is `Walk`, a recursive function.  `Walks` has its own `Last`,
`Reverse`, `InsertAt`, `RemoveAt`, `ToSet` and `Contains`, with the meaning that SequencesExt
gives them: `Containers` has an instance of every container, and the
prover would carry all of that module along in each of them.

Some MC modules hold several instances of which each behaviour chooses one at the
start (`MCMemory`, `MCSendBuffer`, `Containers`, `MCHyMysql`, `MCLoginLive`).  The parts share
no state; such a run checks the same as one run for each part, and its
properties are conjunctions that name, for each part, what the part's module states.

## 3. Correspondence and abstractions

The `map` of `PROJECT.json` gives the lines of every definition.  Definitions that
`map` does not name and whose comment starts with *Mutant* are deliberately wrong
variants of the definition after them; no specification uses them.  They exist to
show that a property can fail.

**MemoryFactory.** A pointer is `<<band, index>>`.  Bands are numbered in order of
creation, so the links `pPrev` and `pNext` are + 1 and - 1.  Callers free only what
they hold.  `MaxBands` bounds memory; a real `new` that fails is not modelled.

**CircuitQueue.** Each public method takes the queue's recursive mutex for all it
does, so each is one step.  Cells hold values instead of bytes, and the content of
cells never written is the model value `Blank`.  `Deposit` is not a method: it is
the `recv()` that writes through `GetWritePtr()` without the mutex.

**RecvBuffer.** The steps are the single locked calls (`Peek`, `GetLength`,
`GetBackDataCount` with `CopyHeadDataToExtraBuffer`, `GetReadPtr`, `OnRecv` in place,
`Dequeue`; `GetWritePtr` with `GetWritableLen`, `recv`, `Enqueue(NULL, n)`), so any
interleaving between them can happen.  One io thread at a time runs `DoRecv`, which
`m_lockSend` ensures (`SyncHandler` has the io threads that compete for it).  A cell
holds its packet and position rather than a byte, which lets `WholePackets` see any
misplacement.  `GetBackDataCount` and the copy that depends on it are one step
because only main moves the head.  `LenEx` chooses the objects of LoginSrv's clients
(`NotPackageHeader`): there the header of what one `recv()` returned is made up, and
recv is given fewer cells.  That an io thread comes is an event's doing, and the event may
be lost (`EventLost`, `unreported`).  Where the code goes on with a length below zero, the
model stops at a state of its own (`overrun`).

**SendBuffer.** One session from `Send` to the socket, byte by byte: the two Enqueues
of a packet, `GetReadPtr` and `GetReadableLen` as separate calls, `send()` that takes
all, some, or blocks, the re-arming of EPOLLOUT, `Completion`; the epoll thread's `OnSend`
under `m_lockSend` and its `ModEpollEvent` outside.  A state of `io` other than *away* is
the holding of `m_lockSend`.  The peer stays connected; failing sends are in
`SyncThreads`.  Without headers a send starts behind the header it finds first.
`MaxEvents` bounds the session's entries in the event queue.

**IoQueue.** What an event does to its session is in `SyncThreads`; here only the
number of events counts.  `AddIoEvent` queues under the lock and signals outside it,
two steps.  A signal wakes one thread in Wait or is counted in `unheard`; Wait may
return without one.  `late` remembers the io threads that were not in Wait at
Shutdown's broadcast, `dropped` that an event found the queue full.  `MaxPosts` bounds the
calls of AddIoEvent.

**Session, SyncUpdate, SyncThreads.**

- A connection is a number.  It is the socket, and names the NetworkObject created
  for it (a fresh object for each accepted or requested connection).
- The session lists, and the threads that hold a session between a pop and a push,
  are the places of one function `list`.  Each pop with its push elsewhere is one
  step when the code holds the session in between only to push it; where the code
  does something in between (accept, connect, the callbacks) the session is in a
  place of its own and other threads interleave.
- Received data is whole packets; bytes are `RecvBuffer`'s subject.  The send buffer
  is empty or not.
- `io[t].got` is what `recv()` has put into the ring before `Completion` counts it.
  Bytes an io thread stores after the session was freed and cleared stand in the
  model for the packets of the earlier connection.
- `FreeSession` (close, reset, push to the pool) is one step; `recv()` reads
  `m_socket` in the step that it uses it.  `RefuseAccepted` stands for both reasons to
  refuse (no room, `epoll_ctl` fails).
- epoll is edge-triggered: an event is reported once, when it arises, and again only
  by `EPOLL_CTL_ADD` or `MOD` while its condition holds.  Closing a socket removes it.
- Peers that we connect to do not speak before we do (no server sends in OnAccept).
- The send thread's walk may meet any active session at any moment, which includes
  all it can do under the lock of the active list.
- `AppOps` is what the application does in its callbacks: nothing, and those of
  Send, Disconnect(TRUE), Disconnect(FALSE) the instance allows.

**SingleList, SingleQueue, DoubleList, NodeList, HashTable.** Pointers are functions from
objects to objects (or `End`, `Null`, and `Free` for the value that the code stores in
the links of an object that is on no list); a call is one step, as none of
these classes locks.  A loop over a chain is the sequence the chain is.  `result`
is what the last call returned, so that the refinement of `ObjectLists`
speaks of the answers too.  Calls that the code meets with an assertion (pushing an
object that is on a list) or a null dereference are not made.  `Calls` restricts
`NodeList` and `HashTable` to some of their calls, because three of them are
wrong (section 7); the other calls are checked with those left out, and
the weaker properties with them.

**ServerLinks, LoginServer, JsonServer, DBServer.** Each server is one thread, its
main loop: a callback is one step.  The network layer below is taken as its contract: a
connection delivers packets in order until it breaks, a send on a dead or absent
session is lost, a dead session is kicked later.  A client has one connection,
and a port, which several clients may share.  `pool` is MemoryFactory's stack of one
band; Free on a full stack drops.  `from` in a request is not in the packet: it
marks which message of which client it was, for the properties.  A text is one of the
cases that JsonSrv tells apart: not JSON, without a handler, without a field, right.
`m_bTryConnection` of a ServerSession starts with any value, since nobody
initialises it.  `Fault` names what may go wrong: JsonSrv crashes and starts again (at
most `MaxRun` runs), connections break, connects are refused, queries fail.
DBSrv's row 0 is read although a query may have given none: the row is the last
one that was there, or the server ends.

**QueryQueue.** The steps are the critical sections and what lies between them: the
list and the signal of DBQuery, GetCount without the lock, DeleteHead, Execute,
AddTail, the switch of the result lists.  A query is given once.  `missed` remembers that a
signal, `late` which workers the broadcast, found busy.

**MysqlClient.** The server's answer to a statement is a sequence of result sets, each a
number of rows or none (`NoSet`); it accepts a command only when all of the answer
has been read.  Any call may fail, the connection may be lost at any time.
`results` and `handles` count what the library allocated, `overwritten` the
results whose pointer is gone, `unprepared` the statements that were given up.  A row is the statement it came from; `blob` is the
positions of the bytes that the server got.  `SetField`'s conversions are left out.

Bounds of the models, all CONSTANTS: `MaxBands`, `MaxConns` (connections ever made),
`MaxSent` (packets a peer sends), `MaxEvents`, `MaxPosts`, `MaxSends` (messages of a
client), `MaxRun`, `MaxStmts`, the length of `Payload`, and `Entry` and `Node` (what the
pools hold).

## 4. What the runs check

| run | instance | distinct states |
| --- | --- | --- |
| `memory` | pool: first band 2, later bands 2 (the default, 2 div 2 + 1), 3 bands; receive ring 7, extra 5, header 2, 9 packets or 7 cells of text; fairness | 31 000 |
| `circuit_queue` | ring 4, extra 2, blocks of 1, 2, 3 | 17 000 |
| `send_buffer` | ring 7, extra 3, header 2, socket 3, 4 or 3 packets; 2 io threads, event queue of 4, 6 posts; fairness | 78 000 |
| `containers` | 3 objects, 2 lists; 4 nodes; 3 entries, 2 buckets, 3 keys | 41 000 |
| `sync_accept` | 2 accept sessions, 3 connections, 1 io thread, room for 1 | 970 000 |
| `sync_stream` | 1 session, 2 io threads, idle time-out on, 2 packets, Send and Disconnect | 4 600 000 |
| `sync_connect` | 1 connect session, 2 connections, Disconnect in callbacks, fairness | 110 000 |
| `sync_flag` | 1 session, 2 connections | - |
| `login_clients` | 2 clients, 2 ports, 2 UserSessions, 2 messages each | 1 200 000 |
| `login_live` | 2 runs of JsonSrv with crashes, breaks and refusals; 2 clients on a port with failing queries; fairness | 81 000 |
| `login_key` | as `login_clients` | - |
| `hy_mysql` | 2 workers, 3 queries, 2 starts, spurious wake-ups; a connection with 4 kinds of statements, 3 in a row; fairness | 170 000 |

**memory.** The pool of objects, or a session's receive buffer.

- *pool*: `FreeExclusive`: a free pointer is on one slot of one stack and nobody
  holds its object.  `NothingLost`: the two places where Free drops a pointer are
  unreachable.  `AllocSucceeds`: a step property, no Alloc returns NULL.
  `ImplementsPool`: callers see the abstract pool.  Three bands are the least in
  which the free band has two neighbours; bands of two let a stack hold pointers of
  another band.  (`BandShape`, which explains why one look at a neighbour is enough,
  is part of the proof's invariant.)
- *packets*: `HeardWhole` says that the i-th packet handed to `OnRecv` is the i-th
  sent, cell by cell, read where it lies after main made it contiguous, while the io
  thread stores more, and that a read into the ring touches no queued cell.  The
  first two packets end with the ring, and others are split after one cell (inside
  the header), two, three and four.
- *text*: the same without packet headers, where the pieces heard have to make up
  the text, each behind a header that is right for it.  Seven cells of text bring
  reads that fill the space, that leave one cell, and that come before the session
  has its object.
- `AllHeard` (liveness): what is whole in the ring is handed over in the end, and all
  that the peer sent is read unless the one event that told of the rest was lost (the
  queue of events was full, or no io thread heard the signal); or the ring was full
  when the io thread looked (the code then removes the session, Session.cpp:193), or a
  read of text ended in one of the ways of section 7.

**circuit_queue.** `IndexAgree` relates the three separately updated counters.
`ImplementsFifo` is refinement: what callers get is what they put, in order, through
any wrap, with `GetReadPtr` and the copy to the extra area at any time.  Four cells
and blocks up to three give every head, every length, and splits after one and two
elements.

**send_buffer.** A session's send buffer, or the queue of events of a handler.

- *packets*: `SentWhole` says that what the socket was given, followed by what is still
  queued (less what a send under way has already passed on), is what main wrote.  A
  socket of three makes most sends partial and many block; the ring overflows in a
  header and in a body.
- *bodies*: the same without headers; the bodies alone arrive unless a send did not
  begin with one whole packet in the block it could read (`mangled`).
- `SentOrDisarmed` (liveness): everything is sent, or the session is removed, or it is
  *deaf* (section 7).
- *events*: `BacklogHeard` bounds the events that lie behind sleeping io threads by
  the signals that came while all were busy, and says that an event is dropped only
  when these events have taken all of the queue but one place for each io thread and
  one more; `SleepersWereBusy`: while main waits for the io threads, only one that was
  busy at the broadcast can be asleep or fall asleep; `Progress` (liveness): the queue empties
  and Shutdown ends, but for signals and the broadcast that a busy thread missed.
  With two io threads, a queue of four and six posts the bound on drops is reached
  exactly, threads sleep beside a backlog, and one thread is late while the other leaves.

**containers.** `CallsRight`: the links of the two single lists and the double list are
sequences, and every call does to them and answers what `ObjectLists` says
(refinement); a deletion takes one element out of `CLinkedlist`; the hash table's iterators
skip nothing whatever is deleted meanwhile.  `LinksRight`: an object may be pushed
again exactly when it has left its list, which the code's assertions look at, and the
double list is the same from both ends.  `NodesRight`, `TableRight`: both directions,
the count, the chains and the list of all entries agree, and positions and
iterators stay on entries that are there.  Three objects make a first, a
middle and a last; two lists make splice and swap; two buckets for three keys make
a chain with two keys.

**sync_accept.** The main run of the network layer.  `ImplementsLists`: each step moves
one session or splices a list, so a session is in one place.  `ImplementsObjects`: an
object is told once that it is open, hears only its own peer, each packet once, in
order, then is told that it is closed, although its session is used again while events
and io threads from before still refer to it.  `CountAgrees`: `m_numActiveSessions`
counts what it should at every step of Update.  `SessionsRight`: object, session,
socket and epoll agree, and a pooled session has none of them.  Three connections on
two sessions make one session serve twice; room for one makes the refusing branch
fire; an event queue of two overflows.

**sync_stream.** `StreamIntact`: what was read from a socket is heard + buffered + in
flight, in order.  `SendNotStuck`: `m_bComplete` unset means that an io thread is about
to set it, unless the peer has reset.  Main, two io threads, the epoll thread
and the send thread compete; two io threads is what `m_lockSend` is for.  The run
covers the kick by idle time-out.

**sync_connect.** `ImplementsObjects` for the outgoing side, where OnConnect resets more
and Disconnect can be called in it.  `ConnectAnswered`, `ResetIsClosed` (liveness): each
Connect is answered; a reset connection is closed even if no io thread is ever woken.

**login_clients.** `AnswerToPort`: an answer reaches only a client on the port of the
client that asked, although all clients get the same UserSession (section 7).
`AnswersRight`: no request is answered twice, and the row in an answer is that of its
own request, although all requests share one query object.  `TablesRight`: the table
names a UserSession only for the key it has.  Two clients with two messages each
have every order of accepting, asking, asking again, leaving and answering.

**login_live.** `SessionBack`: a server never sends through a session that has gone
back to its pool, while JsonSrv crashes, starts again and is kicked in any order.
`LinkedOrLost`, `Served` (liveness): JsonSrv is linked to both servers, and an
undisturbed client is answered, unless one of the named things happened that no server
makes up for.  Two runs are what a rebinding before the kick needs.

**hy_mysql.** `ServiceSpec` (refinement): the query list, the workers' hands and the two
result lists are two first-in first-out queues, across a second start.
`AsleepOnlyIfMissed`: a query lies in the list with no worker that will look at it only if
a signal came while every worker was between its look and its Wait, or had ended; and while Release
waits for the workers, only one that was busy at the broadcast can be asleep.  `Progress` (liveness): a query is answered
and Release ends, unless a signal or the broadcast found a worker busy.
`RowsRight`: a row that was filled belongs to the statement that is executed, whatever
failed before it; a general query reports no rows or all; the blob is sent
whole.  `LeaksNamed`: between statements nothing is held but the results whose pointer was
overwritten and the handles of statements that could not be prepared, whichever call
failed (section 7).  Two workers can both find the list non-empty when it holds one
query; three statements let a result meet the leavings of a failure and of a lost
connection.

Every property of every passing run has a mutant in `PROJECT.json` that breaks it.
The runs that may stop (all is heard, the clients are gone, the server is shut down)
do not check deadlock; the others do.

## 5. Fairness

Weak fairness is what a preemptive scheduler gives to a thread that can run.  No module
assumes anything of a signal, a peer, a client or an operator beyond what follows.

`SyncHandler`: weak fairness of `Update` (each server's main loop calls it for ever),
`AcceptPush`, `ConnectThread`, `EpollWait`, `EpollHandle` (threads in endless loops) and
`IoStep` (an io thread that has an event works on it).  It does *not* assume that an
io thread is woken up (`io_thread` waits on a condition without looking at the queue, so
a signal can be missed), nor that the send thread finds a session, nor anything of the
peers or of accept().

`SendBuffer`: weak fairness of each thread and of the peer's reading, and strong
fairness of `OnSend`: its wait for `m_lockSend` ends, as DoSend holds the lock for one
`send()` at a time.  `TakeEvent` is fair here: the send thread signals again every ten
milliseconds while there is something to send, which makes up for a lost signal.

`RecvBuffer`: weak fairness of main, and of an io thread with an event that was not lost
(`DoRecvReported`); `EventLost` may take the event away first, and since nothing signals
a read again, no io thread need then come.  Strong fairness of
`RecvArrived`: data that has arrived is returned in the end; EAGAIN is the answer only
until it does.  It assumes the arrival of all data the peer sent.

`IoQueue`: weak fairness of each thread's steps and of Shutdown once it is called.
Nothing need be posted, and Wait need not return by itself.

`LoginSystem`: weak fairness of each server's loop, of JsonSrv's call of connect(), and of
DBSrv's query, which returns.

`QueryQueue`: weak fairness of each worker and of the server's thread inside the calls it
has made, and of `Update`, which the server's loop calls for ever.  Not of DBQuery,
Initialize, Release or spurious wake-ups.

An MC module with several instances states the fairness of its parts thread by thread:
a behaviour is of one part, so that one formula for a thread serves all of them.

## 6. What is proved

All theorems are for every value of the constants that the modules' named
assumptions allow.

**MemoryFactoryProofs.** From `SizeAssumption` and `NullAssumption`.  The inductive
invariant is `TypeOK /\ FreeExclusive /\ NothingLost /\ BandShape`.  FreeExclusive
alone is inductive only as long as a stack does not overflow; NothingLost needs that
Free's neighbour has room.  That it has is a counting argument: when the free band is
full and, by BandShape, the newer bands are too, all slots of these hold distinct free
objects, and the object being freed is held: were the free band the oldest, all
objects would be free.  Lemmas treat a growth, a pop, a push and the change of band
apart; the steps of Next combine them.  Results: `TypeCorrect`,
`ExclusiveOwnership`, `NoObjectLost`, `AllocNeverFails` (a step theorem) and
`FactoryImplementsPool` (refinement).

**CircuitQueueProofs.** From `QueueAssumption` and `ChunkAssumption`.  The inductive
invariant is `QueueType /\ IndexAgree`.  `CellOfValue` gets rid of the modulus;
`StoreCells` and `PeekIsPrefix` say where a block that splits goes and comes from;
`EnqueueStep`, `DequeueStep` and `ExtraAreaStep` give the effect on `Contents`.
Results: `TypeCorrect`, `IndicesAgree`, `QueueImplementsFifo`.  The lemmas about cells,
blocks and `Contents` serve the two modules that follow.

**RecvBufferProofs.** From `QueueAssumption` and `RecvConstants`: the packets a peer sends
fit in the extra area and in the ring, as the code's constants see to (`RecvConstants`
also says that `stream` and `start` are what the packets' sizes make them).  For any
sizes of ring, extra area and header, and any packets or text.  `RecvInv` has three layers:

1. `TypeInv`.  *The io thread* (`IoRight`): the space it saw is still free when recv()
   returns, because main only takes cells off the front, and what recv() put there lies
   where `Enqueue(NULL, n)` will find it.  *The main thread* (`MainRight`): the packet
   it is at is in the ring, and from `CopySplit` on it can be read in one piece although its
   end may lie behind the ring, where nothing but the same cells is ever written.
2. `PacketsRight` for a session with headers: the queue is the stream from what was
   taken off to what was stored, and begins with the first packet not yet removed, so
   that the size in its header is that packet's.
3. `TextRight` for one without: the queue is a sequence of pieces, each a header with a
   size and as many cells of text, which follow one another (`InPieces`).
   `OneMorePiece` and `FirstPiece` are what the io thread and main do to it.  A ring of pieces is
   what makes the next size right; `TextInRing`, which TLC checks, follows from it.

Result: `HeardIsWhole`.

**SendBufferProofs**, of `SendBuffer`.  From `QueueAssumption` and `SendConstants`, for any sizes of ring,
socket and header, any packets and bounds.  `SendInv`: what DoSend holds a pointer and a length to is
still in the ring, because main only adds behind it (`SendingRight`); behind the
cells that a send under way has passed on lies what was written after what the socket
was given (`OutRight`); and without headers, as long as no DoSend was `mangled`,
the socket was given the bodies of the packets before some packet f, and f begins the
queue (`BodiesRight`).  Result: `SentIsWhole`.

Both modules of buffers also rest on `ChunkAssumption`, which comes with the lemmas about the ring: it is
about a constant that they do not use, and the empty set satisfies it.

**SendBufferProofs**, of `IoQueue`.  From `IoQueueConstants`, for any number of io threads and any queue.
The invariant is `EventTypeOK /\ Phases /\ SleepersWereBusy /\ BacklogHeard`, where `Phases` says
which posters have ended at which point of Shutdown.  BacklogHeard is a sum of three quantities:
cardinality lemmas for one thread leaving or joining a set carry it through each step.
Its second part follows where an event is dropped: the queue is full then, of the
threads at most all are awake and at most the other poster is about to signal.  SleepersWereBusy
depends on m_bShutdown being set before the broadcast and read after each Wait.
Results: `EventsTypeCorrect`, `BacklogIsHeard`, `OnlyBusySleep`.

**SyncHandlerProofs.** From `SyncAssumption`, for any pools, io threads, peers, bounds and
application.  The module is one chain; each link is inductive only together with those
before it.

1. *Where a session is* (`IInv`).  `MovedPlaced` and `SplicedPlaced`: a move between, and a
   splice of, distinct places keeps every session in exactly one; with the iterator a
   positive number each step of each thread is such a move, a splice, or leaves the
   lists alone.  Results: `ListsStayPlaced`, `SyncImplementsLists` (refinement) and
   `AlwaysPlaced`, on which the assertion in `SessionPool::Free` (SessionPool.cpp:97) and
   the intrusive links depend.
2. *How many* (`CountInv`): for each phase of Update, which lists `m_numActiveSessions`
   counts.  `MoveLengths` and `SpliceLengths` say what a step does to the lengths; only
   steps of main touch the counted lists.  Result: `CountIsRight`.
3. *Types* (`DataInv`), and *who holds what* (`HeldInv`): main and the accept thread hold one
   session while they handle one, none otherwise.
4. *What a session is bound to* (`BoundInv`).  The 12 places fall into seven stages of a
   session's life (`stage`: free, fresh, accept, opening, connect, running, dead).  Every
   step takes at most one session from a stage to the next (`Becomes`), and the stage
   says what its socket, object and connection are.  The numbers of connections only grow
   (`Unused`), so that no two sessions have one socket (`Distinct`).
5. *Who knows of it* (`PollInv`): epoll's registrations, edges, the queue of events and the io
   threads name only sessions that main has in hand or that are to be removed.  An io
   thread may be left with a session that has gone back to its pool; what saves the rest is
   that such a session has `remove` set.
6. *Whole streams* (`Alone`, `ReadInv`, `CleanInv`, `StreamInv`).  At most one io thread
   at a time holds a session's lock (`Alone`), so that what it has read is stored before
   another reads; a session that is not to be removed and that epoll does not
   know is mentioned nowhere and its buffers are empty (`CleanInv`); so the bytes a
   session's object has heard, those in its ring, and those its reader holds are numbered
   consecutively up to what was read.  Results: `StreamIsIntact`, and
   `SyncImplementsObjects` (refinement): the packet at the head of the ring is the next one
   the object has not heard.
7. *Sends* (`SendInv`): m_bComplete is unset only while a thread is in send(), or after one
   came out of it with an error, which a reset gives.  Result: `SendIsNotStuck`.
8. All links together give `SessionsAreRight`, whose type invariant bounds the queue of events
   and the rings as well.

`CleanInv` depends on the removal flag never being cleared (section 7): it is by this flag
alone that a session's second use is not heard, and with a flag that is reset
the induction fails where TLC finds the counterexample.

**ContainersProofs.** From `ObjectAssumption`, `NodeAssumption` and `EntryAssumption` (finite
sets of objects, nodes and entries that do not contain 0, -1 or NULL; a bucket at least), for
any number of objects, lists, nodes, entries, keys and buckets.  All of it rests on
one idea: there *is* a sequence (one for each list, one for each bucket) that the pointers
represent, so that a call, which writes two or three of them, can be compared place by
place with what an insertion, a removal, a join or a swap does to that sequence.  The
prover has no induction over a walk; `WalkIs`, that walking the links of a sequence
gives the sequence, is had from the least place at which the two would differ
(`LeastNat`, which well-foundedness of < gives).

1. *The linked lists* (`ListsInv`).  `ForwardRep` and `BackwardRep` say it of the links one
   way and the other: an object is in one list at one place, and its link is 0 exactly when
   it is in none, except after `clear()`, which leaves the links of what it drops
   (`cleared`).  `FirstIn`, `LastIn`, `FirstOut`, `LaterOut`, `LinkedBy` and `Exchanged` are the
   writes that the single list and the queue share, `BetweenIn` and `BetweenOut` those of the
   double list.  Results: `ListsAreSequences` (refinement of `ObjectLists`), `LinksAreRight`.
2. *CLinkedlist* (`NodesInv`).  `Rep` also says that the pool is the nodes that are not
   in the sequence; `BackRep` is kept by all calls but `InsertpAfter` and `DeleteAt`, which is
   why the invariant asks for it only without those.  Results: `NodesAreRight`,
   `DeletionTakesOne` (a step theorem).
3. *The hash table* (`TableInv`).  The list is the entries in the order in which they were added; the
   chain of each bucket is the entries with its keys, in the same order (`Ordered`).  That
   a chain keeps the order is what `GetData` needs to find the entry that was added first
   (`FirstOfPart`).  A table emptied by `RemoveHead` and `RemoveAll` has an invariant of its
   own (`EmptiedIs`), which says nothing of the chains.  Results: `TableIsRight`,
   `IteratorSkipsNothing` (a step theorem).

Together: `CallsAreRight`.

**HyMysqlProofs**, of `QueryQueue`.  From `QueryConstants`.  The invariant is
`TypeOK /\ HandsRight /\ Phases /\ AsleepInv /\ Given /\ Once /\ PopEmpty`: a worker holds a query
exactly while it executes or stores it, a query is in one place (without this, two
workers with the same query would be one element of the abstract `running`), and
outside Update's loop the list it empties is empty, which is why the switch reorders
nothing.  `AsleepInv` adds to AsleepOnlyIfMissed that m_bEndProcess is set from Release's first step
to the end of the join, and that a start finds no query in the list.  Results:
`TypeCorrect`, `SleepersMissed`, `QueueIsService` (refinement).

**HyMysqlProofs**, of `MysqlClient`.  From `ClientConstants`, for any statements, answers,
sizes and bounds.
The invariant adds to the properties what Execute and ExecuteLargeData rely on between
two calls of the library: `AnswerInv`, that what is left to read belongs to the statement
in hand from when it is sent (which is what TryConnect's reconnecting is good for); `RowInv`,
that a general query has as many rows as it has filled, while a large one may have one more;
`HeldInv`, that exactly one result more than the overwritten ones is held while one is in
hand, and of handles exactly the one in hand more than those that could not be
prepared; `BlobInv`, that what was sent of a blob is its beginning.  Results: `RowsAreRight`,
`LeaksAreNamed`.

**LoginSystemProofs.** From `LoginAssumption` and `LinkAssumption`, for any clients, ports,
UserSessions, texts, runs and faults, in three parts.

1. `TypeOK /\ TableRight /\ SessionBack /\ HasUser`; HasUser (a connected client has a
   UserSession) is what makes the handlers' indexing meaningful.  Results:
   `TableIsRight`, `SessionIsBound`.
2. `AnswersToPort` needs that a key arrives as it was sent: that the packets on each
   connection are of the right kind, of which only the first can be the one that
   says who calls (`ToServerRight`, `ToJsonRight`), which in turn needs that a run connects
   once, to a session that nobody has used (`Fresh`).  The second half is `PortOfClient`: the
   key of a UserSession is the port of the client it would send to, kept because OnAccept
   changes both together, also when it takes the object from another client.
3. `OnceInv` sees the connections in both directions and what the clients were sent as one
   function from channels to queues (`queue`).  In all of it a message of a client
   occurs once, as a request or as its answer (`Once`), and only if LoginSrv has taken it
   from the client (`Asked`): without `Asked`, a client's next message could be one that
   is underway already.  Every step shortens queues (`OnceShorter`: taken off, dropped,
   kicked, started again), moves the head of one to the end of another (`OnceMoved`), or
   adds a request for the message it has just taken (`OnceMore`).  The row in an answer is
   part of what the queues hold (`Replies`): unless queries may fail, it is that of its
   request.  Results: `AnsweredAtMostOnce`, for all faults, and `AnswersAreRight`, for all
   but a failing query.

Only model-checked is liveness: `AllHeard`, `SentOrDisarmed`, `Progress`, `ConnectAnswered`,
`ResetIsClosed`, `LinkedOrLost` and `Served`, which is outside what the prover does.
`SessionBack` in the run `login_live` is `SessionIsBound` there for one instance; `packets`,
`text`, `bodies` and the like name the parts of a run, each of which is proved of its module.

## 7. What the models say about the code

**The removal flag is never cleared** (run `sync_flag`).  `Session::OnAccept` calls
`ResetKillFlag()` (Session.cpp:267), whose body is
`__sync_fetch_and_add(&m_bRemove, 0)` (Session.h:57): adding 0 leaves the flag set,
and nothing else resets it.  A session that has been removed once is accepted again
with the flag set: the object gets OnAccept and OnDisconnect in one Update, and no
OnRecv.  TLC's behaviour is this one: a connection is served, reset by its peer and kicked, and the
same session is accepted for a second connection, whose peer is there and has sent
nothing; after OnAccept the flag of the first is still set.  (The property speaks of such a connection
only, so that nothing else can have set the flag.)  Once every pooled session has
been kicked once, the server accepts connections only to close them.

The flag hides another matter.  `ResetKillFlagReally` is the reset as its name says, and
with it `ImplementsObjects` *fails*: an io thread that read for the connection before
stores its packet into the buffer of the next, whose object hears it.  As the code is, the
flag keeps such a session from being heard.  Clearing it is not enough: events and
io threads would need to tell one use of a session from the next.

**All clients share one UserSession** (run `login_key`).  UserSession.h:31 says of
`m_wUserKey` "UserKey = Accept Port".  `AllocUserSession` (LoginFactory.cpp:49-56)
calls `Release()` on the object it has just allocated, which puts it back on the pool, so
the next client gets the same object and sets the key to its own port while the first
client is bound to it.  The first client's later requests carry the second's key.
The table stays right all the same, and an answer goes to whom the key in it
belongs (`AnswerToPort`, proved): it is the asking that goes wrong.

**Network layer.**

- *A session can go deaf.*  The epoll thread calls `OnSend`, which sets `m_bCanSend`
  under the lock, and then takes EPOLLOUT off outside it (SyncHandler.cpp:30-31).  An
  io thread whose `send()` blocks in between clears `m_bCanSend` and asks for EPOLLOUT
  (Session.cpp:175-177), and the epoll thread takes that off.  From then on nobody
  sends for the session.  `SentOrDisarmed` shows that no other way to stall exists.
- *Events lie in the queue.*  `io_thread` waits before it looks (SyncHandler.cpp:59), so
  that each signal sent while all are busy leaves one event behind for as long as
  the handler runs; when the queue has filled up in this way events are dropped
  (line 574).  `BacklogHeard` says that there is no other way.
- *Shutdown broadcasts once* (line 521).  An io thread that is busy then waits for ever
  afterwards and the join does not return.  `m_pEvents` is never deleted.
- *Without packet headers* (LoginSrv's clients): a header with no body, two packets in one
  block, a packet that wraps and a send that was partial or blocked each send the wrong
  bytes (Session.cpp:163), and `bodies` shows that these are all.  A read with exactly
  two writable cells asks for nothing and is taken for the peer's close, with fewer the
  length is negative (line 206), text that is left in the socket after a read that filled the
  space but for less than a header is not read, and text that arrives before the object
  is bound (SyncHandler.cpp:351) is taken for packets with headers.
- A close that arrives together with data is not reported again after a short read
  (Session.cpp:226).  With an empty pool an accepted socket is neither used nor
  closed (Acceptor.cpp:25).
- A failing `StartListen` leaves `m_listenSocket` set: IsListening() then is TRUE,
  and a later StartListen refuses.

**Servers.**

- JsonSrv calls each server once in a run: a refused or lost connection is not made
  again (ServerSession.cpp:102).  `m_bTryConnection` is never initialised, so that
  it may not even be made once.
- When JsonSrv's new connection is bound before the old one is kicked, the kick
  unbinds JsonSession from the new one, and the server can hear but not answer
  (TempServerSession.cpp:63; `Deaf` in `ServerLinks`).
- A second message before an answer releases the UserSession of a client that stays
  connected (UserSession.cpp:105); the answer is then lost.
- DBSrv looks at row 0 without asking whether the query gave one
  (Handler_FromJsonServer.cpp:19, 64): it answers with an earlier request's row, or
  reads no memory at all.

**HyMysql.**

- The workers wait before they look (QueryExecuteProcessor.cpp:35-46): a query whose
  signal came while every worker was between its look and its Wait stays until the next
  signal.  Release broadcasts once (HyDatabase.cpp:44), as Shutdown does.
- In `Execute` the pointer to a result set is overwritten by the next one's, and a
  procedure call, whose answer ends with a part without columns, reports 0 rows though
  the rows are there (IMysql.cpp:355-406).  A statement that cannot be prepared is not
  closed (line 133).  After a failed fetch the last row is allocated but not filled.

**Utilities.** Three calls are wrong, none of which the servers make; the containers'
properties are stated of the others.  `CLinkedlist::InsertpAfter` in the middle sets
the `pPrev` of the wrong node (Linkedlist.h:210), `DeleteAt` deletes and returns the node
behind the one it was asked for (line 351), and `SolarHashTable::RemoveHead` leaves the chain and the
iterator on an entry that is back in its pool (SolarHashTable.h:327).
`ObjKeyGenerator`, which nothing creates, looks at its queue and pops it without
the lock between, does not release the lock in `ReserveKey`, and its loop there never
advances.

## 8. Not modelled, and why

- `SendEx` and `Redirect`: nothing calls them.  The idle time itself (the time-out is a
  choice in `SyncThreads`), counters of bytes, logging.
- `KickAllSession` and the last `Update` of Shutdown on the sessions: `IoQueue` leaves
  sessions out, and `SyncHandler` never shuts down; the two together are too large for
  TLC.  `StartListen`, and the Shutdown of Acceptor and Connector, are a sequence of calls
  in one thread.
- `FunctionMap`: an array filled at the start and then read.  `ObjKeyGenerator`: unused.
- KeyvSession, HttpSession, BinarySession and `OvertimeClear` of LoginSrv: not called.
  BinarySrv is not built by the Makefile's default target.
- Packet builders and parsers, JSON, MD5, ini, log and the thread wrappers: computation
  on text, vendored, or one call of the operating system.  What the handlers learn from a
  text is in `JsonServer`.
- The content of a query and its row, `SetField`, and MySQL itself.

What could be added: a composition of `QueryQueue` with a server (today's DBSrv calls
`QueryDirect` in its own thread and gives the workers nothing), and of Shutdown with
the sessions.
