# A verification of the ECE454 file replication program

`ravil-b/ece454_project1` is a peer-to-peer program that replicates files: each
node keeps a list of peers (`peers.txt`), a command line with `join`, `insert`,
`query`, `leave` and `quit`, and threads that exchange fixed-size frames over
TCP. This directory holds TLA+ models of it, TLC runs that check them on small
instances, and proofs that TLAPS checks for every instance. Paths below are those
of the repository with `src/` in front: its own source directory is `src/src`.

## 1. Inventory

| part | state | operations | works with |
|---|---|---|---|
| `ThreadSafeQueue.h` | `q_`, `stopReading_`, `maxSize_`, a mutex, two condition variables | `push`, `pop`, `stopReading` | everything: one receive queue per process, one send queue per session |
| `Connection.cpp`, `Session` | socket, partial incoming frame and index, outgoing frame, write thread | `start`, `handleRead`, `startWrite`, `handleWrite`, destructor | pushes frames to the receive queue, pops its send queue; lives while callbacks hold it |
| `Connection.cpp`, `Server` and `Connection` | acceptor, session counter, maps from session to queue and to object | `handleAccept`, `connect`, `addSession`, `getReplyQueue`, `isConnected`, `removeSession`, `endSession`, `stopServer` | maps shared under `sessionMapMutex_` by asio, accept and command threads |
| `peer.cpp`, `Peer` for the node | `state_`, `fileInfoList_`, `numChunksRequested_`, `receiveq_` | `join`, `insert`, `leave`, `query`, `handleRequest`, `downloadLoop` | command, accept and download threads, no lock between them |
| `peer.cpp`, `Peer` for a remote node | `state_`, `fileInfoList_`, `haveChunkInfo_`, `sendq_`, `sessionId_` | `connect`, `sendFrame`, `stopConnection` | written by all three threads of the node |
| `peer.cpp`, `Peers` | array of peers | `broadcastFrame`, `initialize`, `handleCmd`, look-ups | `Cli` |
| `Files.cpp` | `FileInfo` objects, lists of pointers to them | look-up by number and name, `contains` | objects are shared between lists |
| `Frames.cpp` | none | encoding and decoding of 14 frame types | byte buffers of 65542 |
| `FileChunkIO.cpp` | the files in `localStorage`, `writers` | `readChunk`, `writeChunk` | accept thread |
| `Status.cpp`, `query` | four arrays | setters, `toString` | file lists |
| `Cli.cpp` | commands | `run` | `Peers` |
| `main.cpp`, `socket_example` | - | wiring, hand tests, course example | - |

What is hard in it: three threads per node and one or more per session with
almost no locks; frames of one protocol that arrive on different sessions and so
in any relative order; a join that overlaps other joins; peers that leave or die
with requests under way; objects shared by pointer. What makes each part correct:

- queue: bounded, first in first out, no element and no wakeup lost, readers told
  of the end only when it is the end;
- membership: who is taken to be ONLINE is; members come to agree on who is a
  member; a join ends;
- replication: what is marked as present is on the disk and is the right file; what
  others are believed to have they have; what is queued for download arrives;
- robustness: no handler meets a missing file, peer or queue;
- sessions: frames are cut out of the byte stream exactly, each sent frame is freed
  once, a queue is not used after it is deleted;
- wire formats and chunk I/O: decoding inverts encoding within stated limits, the
  chunks of a file tile it.

`PROJECT.json` lists the components with their status, and under `hazards` the
lines where each of these can go wrong.

## 2. Plan

Done: `BoundedQueue` and `ThreadSafeQueue` with proofs; `Peer` and `Status` with proofs of their
types, of what is known of files, of who is a member, of what is marked and of what `query()`
prints; `ReplicaSet`, with a proof that `Peer` with one inserting node implements it;
`FrameChannel` and `Connection`, with proofs of its safety and that it implements the channel;
`Globals`, `Frames` and `FileChunkIO` with proofs about the last two; `Transfer`, which composes
them, with proofs of all that its run checks. Every safety property that a passing run checks is
proved, some of them under hypotheses that section 5 gives; liveness is left to TLC.

## 3. Modules

| module | models | uses |
|---|---|---|
| `BoundedQueue` | what a user of the queue relies on | |
| `ThreadSafeQueue` | `ThreadSafeQueue.h` | implements `BoundedQueue` |
| `ThreadSafeQueueProofs` | | proofs about it |
| `FrameChannel` | what the protocol relies on of a session | |
| `Connection` | `Connection.cpp`, and `connect`, `sendFrame`, `stopConnection` of `peer.cpp` | implements `FrameChannel` |
| `ConnectionProofs` | | proofs about it, and of `FrameChannel` from it |
| `ReplicaSet` | what the peers are for | |
| `Peer` | `peer.cpp`, `Files.cpp`: the protocol | takes sessions to be frame channels; implements `ReplicaSet` |
| `PeerProofs`, `MembershipProofs`, `ReplicaProofs` | | proofs about it: types and files; members; marks, disks, `ReplicaSet` and `Status` |
| `Status` | `query()`, `Status.cpp` | functions of the state of `Peer` |
| `Globals`, `Frames` | `Globals.h`, `Frames.cpp`: operators | |
| `FileChunkIO` | `FileChunkIO.cpp`: operators | |
| `BytesProofs` | | proofs about `Frames` and `FileChunkIO` |
| `Transfer` | one file's way between two nodes, handlers of `peer.cpp` included | `Frames`, `FileChunkIO` |
| `TransferProofs` | | proofs about it |
| `Orders` | the order in which lists are put together, for `Peer`, `Frames`, `Transfer` | |
| `OrdersProofs` | | lemmas about it |
| `MCPeer`, `MCConnection`, `MCTransfer` | constants of the runs | |

The definitions marked *Mistake* beside a definition are variants of it with a
plausible bug, against which the properties are tried.

### BoundedQueue, ThreadSafeQueue

`BoundedQueue` is a FIFO of at most `MaxSize` elements that can be stopped. After the stop
only producers already let in may still put their element, and a reader is told of
the end only when the queue is stopped and empty.

`ThreadSafeQueue` is the class at the grain of its mutex. `push()` and `pop()` hold the
mutex from their first line to their return or to `wait()`, so each stretch is an
action: `PushDropped`, `PushEnter`, `PushResume` (back from `wait()`), `PopTake`, `PopEnd`,
`PopBlock`. `stopReading()` takes no mutex, so its two statements are two actions,
`StopReading` and `NotifyAll`; for the same reason the stretch between the test in
`pop()` and its `wait()` is a state of its own, `"blocking"`, in which the mutex is held.
A condition variable's waiters are the threads whose `pc` is `"notFull"` or `"notEmpty"`;
`notify_one()` picks any; waiters may wake spuriously. Elements are pairs of producer
and serial number. `Abstract` instantiates `BoundedQueue`: its `admitted` are the producers
in or back from `notFull_.wait()`, its `ended` the consumers for which `pop()` returned
false.

### ReplicaSet, Peer, Status

`ReplicaSet` is what is left of `Peer` without sessions, numbers of files, lists and
announcements: `holds[n]` is what n serves, as triples of file, chunk and the file whose bytes it
is. A file enters once, whole, at the node of its user (`Publish`); else a node gets a chunk that
another one serves (`Copy`). `Peer` maps its state to it by `Holdings`: what the own list of n
marks, under the name it has there, with what is on the disk.

`Peer` is the protocol. Per running node n:

| variable | code |
|---|---|
| `state[n][m]` | `state_` of the `Peer` object for m, for n itself its own |
| `heap[n]`, `files[n][m]` | the `FileInfo` objects and the list of each peer, by reference: the aliasing matters |
| `info[n][m]` | `haveChunkInfo_` of the object for m |
| `numReq[n]`, `pending[n]` | `numChunksRequested_`, and the file between `sendFrame()` and `second++` |
| `disk[n][f][c]` | which file's bytes chunk c of `localStorage/f` holds |
| `cli[n]` | where `join()` is: contacting entry i, in its last loop, or returned |
| `life[n]` | not joined, serving, leaving, server stopped, process ended |
| `link[n][m]`, `req[n][m]`, `rep[n][m]` | the session n opened to m, frames on it each way |

Each case of `handleRequest()` is one action `On...(n, m)`, with all it calls:
`broadcastFrame`, `sendFrame` and the lazy `connect()` it makes (`SendFrames`), the reply queue
(`PutReply`), the counter (`CountDown`). `handleRequest` runs on one thread per node, so a
handler is a step, but for the counter that the download loop updates without a
lock: there the increment is a second step (`CountRequest`) and either update may be lost.
`join()` is several steps, since the accept thread runs while it contacts the peers:
`Join`, `InitRemotePeer` per entry of `peers.txt`, `FinishInit`, then the last loop, `MarkFile`
and `MarkNextPeer`. The receive queue of a node is the merge of its channels: a
channel is in order, the merge is in any order, as the sessions are read by asio
independently. A null dereference is the end of the process (`Die`).

`Status` has the figures of `query()`, which changes nothing, as functions of that
state: `Local`, `SystemChunks`, `WeightedReplication`, `LeastReplicated`.

### FrameChannel, Connection

`FrameChannel` says what `Peer` takes for granted: each direction of a session hands over
whole frames, in order, each once; all of them while nothing disturbs the
session, and a prefix of them once something does. A process that has blocked itself counts as a
disturbance, which `Peer`, whose queues have no bound, leaves out.

`Connection` is how that comes about, between one client and one server process:

| variable | code |
|---|---|
| `sendq`, `mutex` | `sendq_` and `connectionMutex_` of the `Peer` object for the server |
| `pc[t]`, `ptr[t]` | a thread in `sendFrame()`, or the server's accept thread between `getReplyQueue()` and `push()`; the queue it has in hand |
| `q[e]`, `stopped[e]`, `freed` | the send queue of each end of each session; deleted queues |
| `life[e]` | the `Session` object, and with it the entries of the two maps |
| `writer[e]` | its chain of write threads and write handlers: popping, in the window before the wait, asleep, writing, closing, done |
| `reader[e]`, `index[e]`, `frame[e]` | whether another read is out; `incomingFrameIndex_`, `incomingFrame_` |
| `sock[e]`, `wire[e]` | the socket of the end, and bytes it wrote that are not yet read |
| `inbox[s]`, `asio[s]` | `receiveq_` of a process; the session whose frame its asio thread is blocked on, in which case no handler of that process runs |
| `serving`, `gone` | the acceptor, `leave()`; processes that have ended |
| `calls`, `sent`, `got` | history: calls of `sendFrame()`, frames put and handed over |

One action per handler and per stretch of a thread: `sendFrame()` is `ConnectAlive` or
`ConnectBegin` and `ConnectDone` or `ConnectRefused` (the mutex is held while the network is
asked), then `LoadQueue` (which reads `sendq_` outside the lock), then the push. The
read handler is `ReadPart`, `ReadLast`, `ReadFails` or, when `remote_endpoint()` throws,
`ReadThrows`; a read returns any number of bytes up to the end of the frame. The
write chain is `PopFrame` or `PopStopped`, then `HandleWrite`. A session ends
(`EndSession`: `~Session()`, `removeSession()`) when its last handler is done.

### Frames, FileChunkIO, Transfer

`Frames` has the create and get functions as operators on frames, functions from
indices to bytes: where each field is put, in which order, and what `strcpy()` writes.
The widths are parameters. `FileChunkIO` has `readChunk()` and `writeChunk()` on
a directory, a function from names to contents.

`Transfer` runs them: the node `source` inserts files, the node `copy` joins, before or
after, is told of the files in FILE_LIST or NEW_FILE_AVAILABLE frames, asks for chunks,
writes and announces them. Each frame in transit is kept with the message it was
made from (`InTransit`), which only `WireIsFaithful` looks at: handlers read the bytes.

| variable | code |
|---|---|
| `store[n]` | `localStorage` |
| `list[n]`, `remote[n]` | `fileInfoList_` for the node itself, and for the other node |
| `state`, `view[n]` | `state_` of the copy for itself; `state_` at n for the other node |
| `queued` | the keys of `numChunksRequested_` at the copy |
| `req[n]`, `rep` | frames on the way: requests and announcements to n, replies to the copy |

## 4. Runs

A passing run has a mutant of the code for each of its properties, in `PROJECT.json`.

| run | instance | outcome |
|---|---|---|
| `queue` | 1 producer, 2 consumers, 2 stoppers, `MaxSize` 2, 4 elements, fair | `TypeOK`, `NoStrandedData`, `BlockedOnlyWhenFull`, `InOrderDelivery`, `ImplementsBoundedQueue`, `BlockedProducerResumes`, `QueuedDataIsRead` hold |
| `pair` | 2 nodes, a file of 2 chunks each, inserted at any time, fair | `MembersAgree`, `NoCrash`, `JoinEnds` hold |
| `departs` | 2 nodes, 1 file of 2 chunks, both may leave, one may die, fair | `TypeOK`, `BeliefsHold`, `DownloadStarts` hold |
| `joins` | 2 members that share 2 files of 1 chunk, and a third that joins, fair | `JoinEnds` holds |
| `trio` | 3 nodes join, no files | `AsksOnePeer`, `OnlineViewIsTrue`, `OneFindsTheOther` hold |
| `spread` | 3 members, 1 file of 2 chunks, each asks the next on a ring | `FilesAreKnown`, `ChunksFollowFiles`, `MarkedChunksAreStored`, `ReportIsHonest`, `ReportIsComplete`, `ImplementsReplicas` hold |
| `sessions` | 2 sending threads, 2 frames of 2 bytes, 2 sessions, either process may die | `TypeOK`, `OneSessionAtATime`, `DeletedQueueHasNoReader`, `SessionsAreChannels` hold |
| `channel` | 1 sending thread, 5 frames of 2 bytes, 1 session, all queues of 1, the server may die, fair | `ImplementsFrameChannel`, `BrokenSessionEnds`, `BlockedThreadsGoOn`, `GridlockLasts` hold |
| `transfer` | 2 files of 17 and 16 bytes in chunks of 8; leftovers; one file may vanish | `TypeOK`, `WireIsFaithful`, `ListsAgree`, `CopyIsIntact`, `AnnouncedIsHeld`, `LengthIsRight` hold |
| `aliased` | 2 members and a third that joins, all ask the first | `MarkedChunksAreStored` violated |
| `sendq` | 2 sending threads, 2 sessions, the server may die | `SendqIsProtected` violated |
| `ports` | as `transfer`, the port of the copy fills its field | `WireIsFaithful` violated |

Deadlock is not checked: a network in which nobody has anything left to do is a legal
end, as is a queue that nobody pushes to.

**Bounds.** Queue: `MaxSize` 2 stands for the 10 of the code; it makes the queue empty, partly
full and full, and `PushLimit` exceeds it so that places are reused. Peers: two nodes
suffice for what one session and its reverse can do to each other; three for what
goes through a third, the reordering of announcements and the two ONLINE peers of
`AsksOnePeer`. Two chunks tell the first from the last. Users insert each file once
(`Insert`), leave only if in `Leavers` and are killed only in `Quitters`. Runs `spread` and
`aliased` start from a network that is already up (`InitUp`), the state that joins
one after the other lead to; `joins` from one in which two members also share two files
(`InitShared`). Two files are the least with which the flag of one can be cleared while the other
is asked for, or a file be inserted after FILE_LIST. Connection: two threads race for the connect; frames of two bytes
can be cut in the middle and are the least that can; queues of one are full at once;
`Buffer` 0 makes each write wait for its reader; the second session is the one that is
opened after the first broke; with queues of one the fifth frame is the first by which the
server can block itself, in the code the 23rd (`2 * maxSize_ + 3`, two queues and three frames in
hand). Transfer: a byte has four bits, so that lengths of 16 and 17
need the second byte of an integer; one file ends with a short chunk and the other with a full
one; names and addresses fill their fields or not; `MaxAsked` 2 lets a chunk be asked
for again while it is under way; a leftover file is longer than the download, or shorter.

**Fairness.** Queue: a thread inside a call is scheduled again, one that competes
for the mutex gets it if the mutex is free again and again (strong fairness: with
weak fairness alone a thread may lose every race), the loop around `pop()` calls it
again, `stopReading()` gets from its first statement to its second. Nobody is obliged
to push or to stop, and no waiter may rely on a spurious wakeup. Peers: the three
threads of a process run, and a frame in a channel is handled in the end. `downloadLoop()`
goes round all files, so each file has its turn (`RequestChunk` per number). No user
is obliged to give a command, and sessions need not end. Connection: weak fairness
for each thread: a sender inside `sendFrame()`, each write thread, each asio thread, each
accept thread, the destruction of a session nothing refers to, the arrival of bytes.
No server has to be started, and nobody has to send, leave or die. Run `channel` starts with the
server up and has nobody leave (`UpSpec`): its session ends by a death, and by the errors that follow;
what `leave()` does to sessions, and two threads that send, is in `sessions`, without fairness.

**What some of them say.** `JoinEnds` and `DownloadStarts` are promised only while no node
leaves or dies (`AllStay`): whoever waits for a reply of one that is gone waits for ever. Also then a
join need not end: going ONLINE takes chunk information of every file from every entry of `peers.txt`
(`peer.cpp:967-990`), which is asked for once. `JoinEnds` says that this is the only way to fail: a node that has
asked for the list gets ONLINE or is `Starved`, that is, chunk information is missing and none is under
way. Both runs have joins that are starved and joins that are not. The ways into it: an entry that is
not running, or was not ONLINE yet when it was asked; a file inserted after the peer was asked; an answer
that came before the last loop of `join()` cleared its flag (`peer.cpp:1169`).
`DownloadStarts` is about two nodes, where the one that is asked has the file. On a ring of three it is
false: the peer that is asked may not have the chunk yet, declines, and is not asked again (`peer.cpp:1312`).
`FilesAreKnown` speaks of three of the four look-ups of a local file that are not tested. The
fourth is that of NEW_CHUNK_AVAILABLE (`peer.cpp:583`), which fails in this very run: a chunk is
announced by the node that downloaded it, the file by the one that inserted it, and where the chunk comes
first the local file is used without having been found (`FirstChunkIsOfAKnownFile`).
`ChunksFollowFiles` says that it can only fail by overtaking, a chunk being announced to nobody who
has not got the announcement of the file at least under way.
`ReportIsComplete` leaves out the chunks of the node that inserted the file: the entry
that others have of it is made with all flags false, and the flags that come with
NEW_FILE_AVAILABLE and CHUNK_INFO are put in with `map::insert`, which does not overwrite
(`peer.cpp:620`, `666`). `SessionsAreChannels` is the
safety of `ImplementsFrameChannel`, for the larger instance and the proof.
A server can block itself (`Gridlocked`): its asio thread waits on the full receive queue, its accept
thread on a full reply queue, and the write handler that would empty that one is behind the blocked
asio thread. Run `channel` gets there, also with nobody dying; `GridlockLasts` says that
only the end of the process frees it. So a session promises less than `Peer` takes for granted: to
`FrameChannel` the state counts as a disturbance, as do a stop and a death. `BlockedThreadsGoOn` says
that there is no other way to be blocked for ever, but for a sender on a queue without a reader
(`Unserved`), as `stopReading()` does not wake producers (`ThreadSafeQueue.h:67`). `BrokenSessionEnds`
has two exceptions: a write thread that slept through the notification of `stopReading()`, and a
server that has blocked itself. `CopyIsIntact`
does not speak of files that the user deletes from `localStorage`: the failed read
is only logged, and what is in the buffer is sent as the chunk (`peer.cpp:511`).

Each violated run is a finding of `PROJECT.json`, with the line that promises otherwise:

- `aliased`: the FileInfo of a FILE_LIST is shared by the lists of all peers
  (`peer.cpp:816`).
- `sendq`: `sendFrame()` reads `sendq_` outside the lock that is to protect it
  (`peer.cpp:1182`, `1216`); a refused `connect()` of another thread has made it NULL.
- `ports`: the NUL after a port of five digits is written over the number of the file of
  NEW_CHUNK_AVAILABLE (`Frames.cpp:469`).

More of this kind shows up with other constants; the reader can reproduce each by
editing a `.cfg`:

- `StopUnblocksReaders` fails in `queue` with one producer, consumer and stopper:
  `stopReading()` does not take the mutex, and its notification falls between a
  reader's test and its wait (`ThreadSafeQueue.h:68`). `ReadErrorDestructsSession` fails in
  `channel` for the same reason, and with it the comment at `Connection.cpp:175-178`.
- `BlockedProducerResumes` and `BlockedOnlyWhenFull` fail in `queue` with two producers: `pop()` wakes
  one, and only from a full queue (`ThreadSafeQueue.h:55`). The receive queue has one producer, the
  asio thread; the send queue for a peer has several, the command, download and accept threads.
- `MembersAgree` fails in `trio`: a dropped handshake is not repeated, and of two that join
  through a third neither learns of the other (`peer.cpp:385`).
- `NoCrash` and `FirstChunkIsOfAKnownFile` fail in `spread`, where the chunk overtakes the file
  (`peer.cpp:583`); `NoCrash` also in `departs`: a peer that leaves with a request under way
  has no reply queue, and the answer goes to a null pointer (`peer.cpp:504`, `731`).
- `DownloadStarts` and `DownloadCompletes` fail in `spread` under `FairThreeUp`: a declined request is
  never uncounted (`peer.cpp:1312`). With two nodes the first chunk arrives, but an update of the
  counter that is lost (`peer.cpp:465`) may leave the rest unasked.
- `MarkedChunksAreStored` fails in `spread` with two files and `Owner <- OneEach`: two members
  that insert at once choose the same number (`peer.cpp:888`).
- `JoinEnds` fails in `pair` and in `joins` without its exception `Starved`, as described above.
- `join()` does not return on a node that has files when it reaches its last loop, which
  tests the index of the peer for that of the file (`peer.cpp:1166`, action `MarkFile`); and
  files inserted before a join are never announced (`peer.cpp:774`).
- `LeastReplicated` is always 0: the loop over the chunks tests the flag of the chunk with
  the number of the peer (`peer.cpp:1088`), and the figure is the number of a chunk where
  `peer.h:219-221` speaks of how often it is there.

## 5. Proofs

`ThreadSafeQueueProofs` proves, from `ThreadAssumption` (the three kinds of threads are
disjoint, consumers are finitely many) and `SizeAssumption` (`maxSize_` is positive) and
nothing else:

- `TypeCorrect`: `Spec => []TypeOK`. `TypeOK` is inductive. It carries, besides the types,
  the bound on `q_`, that the mutex is held between steps by exactly the consumer in
  `"blocking"`, and that a producer inside `push()` has an element.
- `NothingStranded`: `Spec => []NoStrandedData`. Not inductive: a consumer that goes to sleep
  must find the queue empty, and what it saw is one step old. The invariant
  `NoStrandedDataInv` adds `BlockingSeesEmpty`, which holds because the mutex is held
  meanwhile. A push adds one element and wakes one sleeper; a pop takes one
  element and one awake consumer; all else leaves both sides or adds to the awake
  (`CalmStep`) or empties the queue (`EmptyStep`).
- `LoneProducerNotStranded`: with `Producers = {p0}`, `Spec => []BlockedOnlyWhenFull`, which is
  false for two (section 4).
- `QueueRefines`: `Spec => Abstract!Spec`, one lemma per abstract action.
- `OrderKept`: `Spec => InOrderDelivery`. The invariant `InOrder(p)` says that the elements
  of `p` in `q_` are in order and without a gap, from the last one popped on. That a push
  joins on without a gap needs its last conjunct: as long as no push of `p` was dropped
  (`Faithful`), the queue holds everything `p` pushed. A dropped push
  leaves no gap behind it, because `stopReading_` stays set and nothing of `p` enters any
  more; a push that was already waiting at the stop still enters, and joins on.

`BytesProofs` proves of chunks and files, from `GlobalsAssumption` (sizes are positive), for chunks and
files of any length but zero, that the chunks of a file tile it (`SpansWithin`,
`SpansDisjoint`, `SpansCover`), that what was written is read (`ReadReturnsWritten`), that
writing a chunk leaves the others alone (`OthersAreKept`), and that a file made by
`writeChunk()` keeps its length (`LengthIsKept`). All rest on `CountBounds`, the place of the
last chunk, which is the one fact about division, and on `WriteSizeBounds`. Integers are
unbounded there: `chunkNum * chunkSize` is an `int` in the code, and below 2^31 for
files of up to 2 GB.

Of frames it proves, from `FramesAssumption` (a frame has room for its fields, and a byte for
a frame type), for fields of any width, that a frame is read as it was made: a request or
decline (`RequestIsRead`), a chunk (`ChunkIsRead`), an address (`AddressIsRead`), an announced file
(`NewFileIsRead`), a list of files that fits into a frame (`FileListIsRead`), the bitmaps of a
CHUNK_INFO that fits (`ChunkInfoIsRead`). Integers are those
below 2^31, strings have no NUL and may fill their fields. `NewChunkIsRead` is the exception, and
the general form of the finding of the run `ports`: the number of the file is read as 0 if the port
fills its field, whatever it was. The proofs go from bytes that are put into a frame (`PutFacts`) to
fields (`IntAt`, `NameAt`, `AddressRead`) to frames; that quotients by the number of bytes give the
integer back is `IntRead`, that entries of a list do not overlap is `DivMod`. `Base \in Nat` is
assumed of `2^Bits` because the provers know nothing of powers, and for the same reason
`BitsAssumption`, that every set of bits is that of some byte: it is a fact of arithmetic, which
takes induction to prove, and TLC evaluates it.

`TransferProofs` proves of the two nodes, from these and `TransferAssumption` (names, addresses,
numbers and lengths fit their fields, and all files one FILE_LIST and one CHUNK_INFO frame):

- `TypeCorrect`, `ListsAlwaysAgree`, `CopyStaysIntact` and `LengthStaysRight`: `Spec => []TypeOK`,
  `[]ListsAgree`, `[]CopyIsIntact`, `[]LengthIsRight`. So for files and chunks of any length,
  and all orders of joining, inserting, asking and answering, a chunk that the copy marks is
  on its disk as it was inserted.
- `FramesAreRead` and `AnnouncementsAreHeld`: `[]WireIsFaithful` and `[]AnnouncedIsHeld` if
  the port of the copy is shorter than its field (`PortFits`), as ports of four digits are; without
  that both are false, which is the finding of the run `ports`. No other result needs it: a wrong
  number spoils only what the source takes the copy to have.

All follow from one invariant, `Inv`, which has one lemma per action. None of the properties is
inductive, since what a handler does is decided by bytes that were put together many steps
ago. `Traffic` says what may be under way in each direction given the lists of now:
`ToSource`, `ToCopy`, `Replies`. As the lists only grow, a frame that was right when it was sent
is right when it is read; that a chunk in a frame is that of the file of its number
(`ReadsOf`) is known when it is read from the disk. `SourceInv` says that files are numbered by
their places, on which `OnFileList` and look-ups rely, `CopyInv` that the two lists of the copy have the same files, which are files of the source, in
the same order, `DiskInv` what of a marked chunk is on the disk and how far a file may reach,
`AnnouncedInv` that what the source takes the copy to have is marked there. `Early` says that until its first
answer the copy exchanges nothing but handshakes; the states it goes through follow from it.

`ConnectionProofs` proves, from `ConnectionAssumption` (lengths and sizes are positive, the
bounds are numbers, the names of threads differ):

- `TypeCorrect`: `Spec => []TypeOK`. That a push never exceeds `maxSize_` or a read
  `FRAME_LENGTH` is part of the types.
- `SessionsAreSerial`: `Spec => []OneSessionAtATime`, and `DeletedSafely`:
  `Spec => []DeletedQueueHasNoReader`, from one invariant, `CoreInv`. Its part `MutexInv` says that
  a thread past the test in `connect()` is the one that holds `connectionMutex_`; `SessionInv`
  says in which order the objects of a session come and go, and that sessions are numbered
  without a gap. Without the first, two threads could both be about to open a session;
  without the second, nothing excludes that `NextSession` is one that was used before.
- `SessionsImplementChannels`: `Spec => SessionsAreChannels`, that is `Channel!Spec`, for any
  number of senders, sessions and frames, any `FRAME_LENGTH`, queue size and socket buffer. The
  abstract state is `sent` and `got`, so the step simulation is easy, and the work is in the
  invariant `ChannelInv`: that the buffer of the reader, then the wire, then the queue hold the
  bytes and frames of one direction in order and without a gap (`InPlace`, `InOrder`,
  `QueueInv`), where a byte is named by its frame and its place in it, so that it is one
  multiplication away from a position in the stream. Whatever ends a session may cut the wire or
  the queue short, at which `Whole` stops the last from promising completeness.
- `GridlockIsForEver`: `Spec => GridlockLasts`, for any `maxSize_` and any number of senders and sessions.
  No handler of a process runs while its asio thread is blocked, so no write is completed, no queue
  emptied and no session destroyed; that the accept thread stays with the session it was about
  to answer needs `HandInv`, that what it has in hand is a queue of the server. Since a gridlock counts as a
  disturbance, `SessionsImplementChannels` uses the theorem: disturbances are not taken back.

`PeerProofs` proves, from `PeerAssumption` (nodes are finitely many, `peers.txt` lists every
node, the node itself first) and `FileAssumption`:

- `TypeCorrect`: `Spec => []TypeOK`. `TypeInv` adds that `files`, `numReq` and `pending` are functions
  on the running nodes (`Shape`), which `TypeOK` leaves open.
- `LookupsSucceed`: `Spec => []FilesAreKnown`, of three of the four look-ups, for the fourth see
  `ChunksComeAfterFiles`. Not inductive: that a CHUNK on its way is of a file
  that was queued follows only if the request for it was. `Carried` says so of both, and
  its proof rests on one lemma about frames in transit, `StepTraffic`: each frame after a
  step was there before it, perhaps not yet an orphan, or is a `NewRequest` or a
  `NewReply`, with what is known of the state of its sender. `Known` says the same of lists
  and counters, and `CountersKept` that no step forgets one.

`MembershipProofs` proves `OnlineMeansJoined`, `OneListRequest` and `NobodyMissesEachOther`, that is
`OnlineViewIsTrue`, `AsksOnePeer` and `OneFindsTheOther`, for any number of nodes. None is
inductive and none stands without the others. The invariant `MembersInv` adds:

- `TrueNotices`, `TrueAnswers`: what a handshake response, a join and a leave notification in
  transit say is true now, however long they have been under way. A join notification is
  known to go from a node that is ONLINE to one that is, so that its receiver is not waiting
  for its first handshake; this uses `OnlineViewIsTrue` of the sender.
- `Fresh`: before `join()` a node takes nobody to be anything. A peer is OFFLINE for n after a
  refusal, a leave notification or the own leave; of two that are up, the one that refused
  had not joined, so the other is UNKNOWN to it.
- `NoSelf`: nobody has a session with itself, or the two would not be two. The
  download loop asks entry 1 of `peers.txt`, which is the node itself where it is alone;
  that it never comes to that is `NotAlone`.

What a step does to `state[n][p]` is the lemma `StepView`, which lists the reasons; the three
invariants then follow from it and the invariant without another look at the actions.

Of two nodes whose users neither leave nor quit (`TwoStay`), who insert any number of files at any
time, also during a join, it proves what is false of larger networks, as section 4 says: there a
chunk can be announced to one who has not heard of its file, and who joins can be missed for good.

- `PairSurvives`: `NoCrash`. A handler dereferences null where the file of a frame is unknown, or
  where the session that a request came by is gone. `StayInv` says that neither comes about:
  no session is closing and no frame an orphan (`Sessions`), and a node that is told of a chunk, or
  is sent one, has the file in its list (`Understood`): the chunk that a node announces it has just
  got from the one other, who serves only files it has.
- `PairAgrees`: `MembersAgree`. `AgreeInv` adds that a node that is ONLINE and does not take the
  other to be OFFLINE is ONLINE there, or its join notification is under way (`Told`), that who
  waits for files or chunks takes the other to be ONLINE (`Waits`), and what each frame under way says
  of how its sender takes the receiver to be (`Asked`).

`ReplicaProofs` proves, of `Peer` and `Status` with any number of nodes, files and chunks:

- `BeliefsAreTrue`: `BeliefsHold` always, if nobody joins a network that has files
  (`NobodyIsLate`: no FILE_LIST under way but the empty one). Without that it is false, which is
  the finding of the run `aliased`. The invariant `BeliefsInv` adds that no two lists of a node
  share an object (`Apart`), that the files in the list for m, with their marks, are in m's own
  (`Beliefs`), and that each announcement under way is true (`Announced`). As lists
  only get longer and marks are not taken back (`Grown`), what was true when a frame was sent is
  so when it is handled, in whatever order (`HasKept`).
- `MarksAreStored`: `MarkedChunksAreStored` always, if in addition one user inserts all files:
  two who insert at once choose the same number (`peer.cpp:888`), and the property is false. The
  invariant `MarksInv` adds that a number means the same file everywhere, in lists (`Titles`) and
  frames (`TitledFrames`), and that the body of a CHUNK frame is of that file, and that somebody
  has the chunk (`Bodies`).
- `NetworkIsReplicaSet`: `ImplementsReplicas`, under the same two hypotheses. `MarksInv` makes
  what is on the disk a function of the marks (`Copies`), so that a step changes `Holdings` only
  where it changes a mark: `OnChunk` is a `Copy` from a node that serves the chunk, `Insert` is a
  `Publish`, and all else a stutter.
- `QueryIsHonest`: `ReportIsHonest`, under the same two hypotheses. What n counts for m, m has
  (`Beliefs`) and has on its disk (`MarksInv`), under the same name (`Titles`), and m is a process
  that has joined (`OnlineViewIsTrue`). The copies that are counted, as pairs of a node and a chunk,
  are thus among those that are stored, and those of n itself are none of the remote ones.
- `QueryIsComplete`: `ReportIsComplete`, if nobody leaves or dies (`AllStay`), nobody joins a network
  that has files, and who has files takes all running nodes to be ONLINE (`Gathered`); each of them
  may insert files. The three hypotheses describe a network that is up before its first file, which
  is where the run `spread` starts; TLC reaches such a state, with a chunk downloaded, from `Init`
  with two nodes and with three. Without them it is false: a peer that is missed is not told. The
  invariant `Heard` says of each chunk that a node has downloaded that any other one counts it or
  has the announcement in its queue; it is kept because `OnChunk` tells everybody in the step in
  which it marks the chunk (`ChunkIsTold`), a frame stays in its queue until it is handled
  (`RequestsKept`), and is counted then (`HandledCounts`), where the node that does not know the
  file would die.
- `ChunksComeAfterFiles`: `ChunksFollowFiles`, under the same three hypotheses. The invariant `AllKnow`
  says that a file that one node has, every other one has or is being told of. `Insert` puts the
  announcement into every queue (`FileIsTold`), it stays there until it is handled (`KnowsStays`), and
  who announces a chunk has the file (`Announced`).
- `LeastReplicatedIsFirst`: the figure `LeastReplicated` is 0 in every state, which is the code's
  mistake of section 4.

How the modules allow for this: recursion over data is out, so the order in which the files of a
FILE_LIST are appended and the maps of a CHUNK_INFO written is `InOrder` of `Orders`, the enumeration of a finite set of numbers, of which
existence is proved from the well-foundedness of strict inclusion, and not `SetToSortSeq`, about
which nothing could be. `OnNewFile` appends to two lists, that may be one, with two
`EXCEPT`s and not one with two parts: of those, this version of the prover takes the
second `@` to be the value before the first.

Only model-checked:

- all liveness (`BlockedProducerResumes`, `QueuedDataIsRead`, `BrokenSessionEnds`,
  `BlockedThreadsGoOn`, `JoinEnds`, `DownloadStarts`) and the fair part of `ImplementsFrameChannel`: the prover has no rule for
  fairness and ENABLED.

## 6. What the models leave out

- `join()` after `leave()`, or twice: it deletes the receive queue and the connection that
  running threads use. Only a first join is modelled.
- Containers changed by one thread while another iterates (file lists, counters): each
  access is atomic, but for the counter of requests.
- In `Peer`, `connect()` and the `state_` it results in are one step, `leave()` is one step,
  queues are unbounded, and a session is opened again only after the old one is gone; the
  module `Connection` has the steps of `connect()`, the full queues, and the session that
  is still known while its queue is stopped.
- `Insert`, in `Peer` and in `Transfer`, puts the file into the list and announces it in one step. In
  the code the accept thread may answer a FILE_LIST_REQUEST between the two (`peer.cpp:895`, `937`), and
  the asker is told of the file twice, and has it in its list twice.
- `OnFileList` of `Transfer` makes an entry for each of the two lists, where the code puts one
  `FileInfo` into both (`peer.cpp:812-816`); `Peer` has the sharing.
- `Connection` has one client and one server; the accept thread of the client only takes
  frames, and that of the server only answers: neither pushes on the send queue of a `Peer` object, as the
  handler of CHUNK does (`peer.cpp:471`, `1182`). So `Gridlocked` is one way for a node to block
  itself, not every way. `leave()` at the client closes its session but does not stop its receive
  queue (`peer.cpp:1129`); only that of the server is stopped. A server that has closed does not open again. Failures of `resolve()` and of
  the acceptor, `endSession()` and `disconnect()`, which nothing calls, and `~Connection()` are left
  out, as is `sessionIdAndSessionMap_` being written without the lock (`Connection.cpp:334`).
  A push to a deleted queue either ends the process or loses the frame.
- `FileInfo`'s copy constructor does not copy `fileSize` (`Files.cpp:22`); the compiler leaves
  out the copy where it is used (`peer.cpp:604`), and `Transfer` takes it so.
- `unsigned long` has 32 bits (with 64, `maxChunksPerFile` is 4294934528 and CHUNK_INFO cannot
  be built), numbers stay below the limits of a char, and all files fit into one
  FILE_LIST and one CHUNK_INFO frame (15 files; the code does not test it).
- `peers.txt` is well formed and the same set of nodes everywhere, each listing itself
  first; `peerCount_`, which the code never initialises, starts at 0.
- Files are inserted by a plain name, from the working directory (with a directory in
  front the look-up by name fails and the handler dereferences null), and are not
  empty. A file that is inserted twice has two entries, and is announced under the
  number of the first (`peer.cpp:928`); here each is inserted once.
- Failed writes: `writeChunk()` does not look at the state of the stream.
- The parsing of command lines, and commands that come before the thread that reads
  `peers.txt` is done (`main.cpp:225`).
- Handlers for frames that nothing sends (FILE_LIST_DECLINE, CHUNK_COUNT) do not exist in
  the code either.

## 7. Running

    tlc -workers 2 -config MCPeer_pair.cfg MCPeer
    tlc -workers 2 -config MCConnection_channel.cfg MCConnection
    tlc -workers 2 -config MCTransfer_transfer.cfg MCTransfer
    tlc -workers 2 -config ThreadSafeQueue_queue.cfg ThreadSafeQueue
    tlapm ThreadSafeQueueProofs.tla
    tlapm BytesProofs.tla
    tlapm ConnectionProofs.tla
    tlapm PeerProofs.tla
    tlapm MembershipProofs.tla
    tlapm ReplicaProofs.tla
    tlapm OrdersProofs.tla
    tlapm TransferProofs.tla
