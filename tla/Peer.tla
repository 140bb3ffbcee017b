-------------------------------- MODULE Peer --------------------------------
(***************************************************************************)
(* The peers of src/src/peer.cpp: joining and leaving the network, the     *)
(* announcement of files and chunks, and the download loop.                *)
(*                                                                         *)
(* Each node runs three threads.  The command line calls join(), insert()  *)
(* and leave(); the accept thread runs handleRequest() on one frame at a   *)
(* time, and one case of its switch is one action; downloadLoop() asks for *)
(* chunks.  A session opened by n to m carries requests from n to m and    *)
(* replies from m to n, each in order; how sessions interleave on the      *)
(* receive queue is left open.  Only a first join is modelled: join()      *)
(* after leave() frees objects that threads still use.                     *)
(***************************************************************************)
EXTENDS Orders, Integers, Sequences, FiniteSets, FiniteSetsExt

CONSTANTS Node,       \* the entries of peers.txt
          Running,    \* the entries for which a process is started
          PeerAt,     \* PeerAt[n][i]: entry i of the peers.txt of n, itself at 0
          File,       \* names of files
          Owner,      \* the node whose user inserts the file
          ChunkCount, \* chunks of a file
          Leavers,    \* bound: nodes whose user may call leave
          Quitters,   \* bound: nodes whose user may end the process
          Garbage     \* bytes that belong to no file

MaxPeers == Cardinality(Node)

ASSUME PeerAssumption ==
    /\ IsFiniteSet(Node)
    /\ Running \subseteq Node
    /\ Leavers \subseteq Running
    /\ Quitters \subseteq Running
    /\ PeerAt \in [Running -> [0..(MaxPeers - 1) -> Node]]
    /\ \A n \in Running : /\ PeerAt[n][0] = n
                          /\ \A m \in Node : \E i \in DOMAIN PeerAt[n] : PeerAt[n][i] = m

ASSUME FileAssumption ==
    /\ Owner \in [File -> Running]
    /\ ChunkCount \in Nat \ {0}
    /\ Garbage \notin File

VARIABLES life,    \* how far the process of a node is
          cli,     \* where the command line thread is
          state,   \* state[n][m]: state_ of the Peer object for m at n
          heap,    \* the FileInfo objects of n, in the order of allocation
          files,   \* files[n][m]: fileInfoList_ for m at n, indices into heap[n]
          info,    \* info[n][m]: file numbers with haveChunkInfo_ true for m at n
          numReq,  \* numChunksRequested_ of n
          pending, \* file whose request is sent but not yet counted, or NoFile
          disk,    \* localStorage of n: what each chunk of each file holds
          link,    \* link[n][m]: the session n opened to m
          req,     \* req[n][m]: frames on it from n to m
          rep      \* rep[n][m]: frames on it from m to n

fileVars == <<heap, files, info, numReq, disk>>
linkVars == <<state, link, req>>
vars == <<life, cli, state, heap, files, info, numReq, pending, disk, link, req, rep>>

Chunk == 0..(ChunkCount - 1)
NoFile == -1

\* "off": not joined; "stopping": leave() was called, queued frames are still
\* handled; "stopped": the server is closed; "gone": the process has ended.
Life == {"off", "serving", "stopping", "stopped", "gone"}
State == {"UNKNOWN", "INITIALIZING", "WAITING_FOR_HANDSHAKE", "WAITING_FOR_FILE_LIST",
          "WAITING_FOR_CHUNK_INFO", "ONLINE", "OFFLINE"}

Init ==
    /\ life = [n \in Running |-> "off"]
    /\ cli = [n \in Running |-> [at |-> "ready", i |-> 0]]
    /\ state = [n \in Running |-> [m \in Node |-> "UNKNOWN"]]
    /\ heap = [n \in Running |-> <<>>]
    /\ files = [n \in Running |-> [m \in Node |-> <<>>]]
    /\ info = [n \in Running |-> [m \in Node |-> {}]]
    /\ numReq = [n \in Running |-> <<>>]
    /\ pending = [n \in Running |-> NoFile]
    /\ disk = [n \in Running |-> [f \in File |-> [c \in Chunk |-> Garbage]]]
    /\ link = [n \in Running |-> [m \in Node |-> "none"]]
    /\ req = [n \in Running |-> [m \in Node |-> <<>>]]
    /\ rep = [n \in Running |-> [m \in Node |-> <<>>]]

-----------------------------------------------------------------------------
(***************************************************************************)
(* Sessions.  A frame is an orphan once its session has ended: it is still *)
(* handled, but getReplyQueue() finds no queue for the answer.             *)
(***************************************************************************)
Frame(type) == [type |-> type, orphan |-> FALSE]
ChunkFrame(type, num, c) == [type |-> type, orphan |-> FALSE, num |-> num, chunk |-> c]

\* Mistake: the server is started last, when all others have been contacted.
ListeningLate(m) ==
    m \in Running /\ life[m] \in {"serving", "stopping"} /\ cli[m].at # "init"

Listening(m) == m \in Running /\ life[m] \in {"serving", "stopping"}

\* connect(): a session that is still known is used, else a new one is opened.
Connects(n, m) == link[n][m] # "none" \/ Listening(m)

\* sendFrame() from n of out[m] to each m, with views the states n keeps and
\* frames the requests in transit: a session being closed swallows the frame,
\* and a peer that refuses the connection is marked OFFLINE.
LinksAfter(n, out) ==
    [m \in Node |-> IF out[m] # <<>> /\ link[n][m] = "none" /\ Listening(m)
                    THEN "open" ELSE link[n][m]]

RequestsAfter(n, out, frames) ==
    [m \in Node |-> IF Connects(n, m) /\ link[n][m] # "closing"
                    THEN frames[n][m] \o out[m] ELSE frames[n][m]]

SendFrames(n, out, views, frames) ==
    /\ state' = [state EXCEPT ![n] = [m \in Node |->
                   IF out[m] # <<>> /\ ~Connects(n, m) THEN "OFFLINE" ELSE views[m]]]
    /\ link' = [link EXCEPT ![n] = LinksAfter(n, out)]
    /\ req' = [frames EXCEPT ![n] = RequestsAfter(n, out, frames)]

NoFrames == [m \in Node |-> <<>>]

\* Mistake: the state of the receiver is not looked at.
BroadcastToAll(n, frame, views) == [m \in Node |-> IF m # n THEN <<frame>> ELSE <<>>]

\* Mistake: the loop starts behind the first of the other peers.
BroadcastFromTwo(n, frame, views) ==
    [m \in Node |-> IF m \notin {n, PeerAt[n][1]} /\ views[m] = "ONLINE" THEN <<frame>> ELSE <<>>]

\* broadcastFrame(): to every peer that n takes to be ONLINE, but itself.
Broadcast(n, frame, views) ==
    [m \in Node |-> IF m # n /\ views[m] = "ONLINE" THEN <<frame>> ELSE <<>>]

\* The end of the process of n: its sessions, on either side, are broken.
Die(n) ==
    /\ life' = [life EXCEPT ![n] = "gone"]
    /\ link' = [s \in Running |-> [m \in Node |->
                  IF n \in {s, m} /\ link[s][m] = "open" THEN "closing" ELSE link[s][m]]]

\* The frame n takes from the receive queue: a request of m, or a reply of m.
Request(n, m, type) ==
    /\ life[n] \in {"serving", "stopping"}
    /\ req[m][n] # <<>>
    /\ Head(req[m][n]).type = type

Reply(n, m, type) ==
    /\ life[n] \in {"serving", "stopping"}
    /\ rep[n][m] # <<>>
    /\ Head(rep[n][m]).type = type

Handled(n, m) == [req EXCEPT ![m][n] = Tail(@)]
TakeReply(n, m) == rep' = [rep EXCEPT ![n][m] = Tail(@)]
PutReply(n, m, frame) == rep' = [rep EXCEPT ![m][n] = Append(@, frame)]

\* A session ends when both sides have noticed.  What a dead process had not
\* sent is lost; frames received before are still on the receive queue.
EndSession(n, m) ==
    /\ link[n][m] = "closing"
    /\ link' = [link EXCEPT ![n][m] = "none"]
    /\ \E k \in 0..Len(req[n][m]), j \in 0..Len(rep[n][m]) :
         /\ k < Len(req[n][m]) => life[n] = "gone"
         /\ j > 0 => life[n] # "gone"
         /\ req' = [req EXCEPT ![n][m] = [i \in 1..k |-> [@[i] EXCEPT !.orphan = TRUE]]]
         /\ rep' = [rep EXCEPT ![n][m] = SubSeq(@, 1, j)]
    /\ UNCHANGED <<life, cli, state, fileVars, pending>>

-----------------------------------------------------------------------------
(***************************************************************************)
(* File lists.                                                             *)
(***************************************************************************)
FileInfo(num, name, has) == [num |-> num, name |-> name, has |-> has]

Listed(n, m) == {files[n][m][i] : i \in DOMAIN files[n][m]}
NumsOf(n, m) == {heap[n][o].num : o \in Listed(n, m)}

\* getFileFromFileNumber(): the first entry of the list with that number.
FileOf(n, m, num) ==
    LET i == CHOOSE i \in DOMAIN files[n][m] :
               /\ heap[n][files[n][m][i]].num = num
               /\ \A j \in 1..(i - 1) : heap[n][files[n][m][j]].num # num
    IN  files[n][m][i]

\* Mistake: entry 0, the node itself, is asked as well.
HaveAllChunkInfoFromZero(n, infos) == \A m \in Node : NumsOf(n, n) \subseteq infos[m]

\* haveChunkInfoForAllFilesInOnlinePeers(), which asks every remote entry.
HaveAllChunkInfo(n, infos) == \A m \in Node \ {n} : NumsOf(n, n) \subseteq infos[m]

\* Mistake: a new counter starts as if a request were out.
QueueDownloadsBusy(n, nums) ==
    [num \in DOMAIN numReq[n] \cup nums |->
        IF num \in DOMAIN numReq[n] THEN numReq[n][num] ELSE 1]

\* queueFileDownload(), for each of nums; a counter that exists is left alone.
QueueDownloads(n, nums) ==
    [num \in DOMAIN numReq[n] \cup nums |->
        IF num \in DOMAIN numReq[n] THEN numReq[n][num] ELSE 0]

-----------------------------------------------------------------------------
(***************************************************************************)
(* The command line.                                                       *)
(***************************************************************************)
Ready(n) == cli[n].at = "ready" /\ life[n] # "gone"

\* "join": the server is started, and with it the accept thread and the
\* download loop, before any other peer is contacted.
Join(n) ==
    /\ Ready(n)
    /\ life[n] = "off"
    /\ life' = [life EXCEPT ![n] = "serving"]
    /\ state' = [state EXCEPT ![n][n] = "INITIALIZING"]
    /\ cli' = [cli EXCEPT ![n] = [at |-> "init", i |-> 1]]
    /\ UNCHANGED <<fileVars, pending, link, req, rep>>

\* initRemotePeer() for the next entry.
InitRemotePeer(n) ==
    /\ cli[n].at = "init"
    /\ life[n] # "gone"
    /\ cli[n].i < MaxPeers
    /\ LET m == PeerAt[n][cli[n].i]
       IN  SendFrames(n, [NoFrames EXCEPT ![m] = <<Frame("HANDSHAKE_REQUEST")>>],
                      [state[n] EXCEPT ![m] = "WAITING_FOR_HANDSHAKE"], req)
    /\ cli' = [cli EXCEPT ![n].i = @ + 1]
    /\ UNCHANGED <<life, fileVars, pending, rep>>

\* join() after its first loop: alone in the network, a node is ONLINE at once.
FinishInit(n) ==
    /\ cli[n].at = "init"
    /\ life[n] # "gone"
    /\ cli[n].i = MaxPeers
    /\ IF \A m \in Node \ {n} : state[n][m] = "OFFLINE"
       THEN state' = [state EXCEPT ![n][n] = "ONLINE"]
       ELSE UNCHANGED state
    /\ cli' = [cli EXCEPT ![n] = [at |-> "mark", i |-> 0]]
    /\ UNCHANGED <<life, fileVars, pending, link, req, rep>>

\* The last loop of join().  Its inner condition tests the index i of the
\* peer, so the loop is left only while that peer has at most i files.
MarkFile(n) ==
    /\ cli[n].at = "mark"
    /\ life[n] # "gone"
    /\ cli[n].i < MaxPeers
    /\ LET m == PeerAt[n][cli[n].i]
       IN  /\ cli[n].i < Len(files[n][m])
           /\ info' = [info EXCEPT ![n][m] = @ \ {heap[n][files[n][n][cli[n].i + 1]].num}]
    /\ UNCHANGED <<life, cli, state, heap, files, numReq, pending, disk, link, req, rep>>

MarkNextPeer(n) ==
    /\ cli[n].at = "mark"
    /\ life[n] # "gone"
    /\ cli[n].i < MaxPeers
    /\ cli[n].i >= Len(files[n][PeerAt[n][cli[n].i]])
    /\ cli' = [cli EXCEPT ![n].i = @ + 1]
    /\ UNCHANGED <<life, state, fileVars, pending, link, req, rep>>

ReturnFromJoin(n) ==
    /\ cli[n].at = "mark"
    /\ life[n] # "gone"
    /\ cli[n].i = MaxPeers
    /\ cli' = [cli EXCEPT ![n] = [at |-> "ready", i |-> 0]]
    /\ UNCHANGED <<life, state, fileVars, pending, link, req, rep>>

\* getMaxFileNum() + 1.
NextNum(n) == Max(NumsOf(n, n) \cup {-1}) + 1

\* insert(): the file is copied, numbered one above the highest number n has
\* seen, and announced.  Bound: a user inserts each of his files once.
Insert(n, f) ==
    /\ Ready(n)
    /\ Owner[f] = n
    /\ \A o \in DOMAIN heap[n] : heap[n][o].name # f
    /\ LET num == NextNum(n)
           announce == [type |-> "NEW_FILE_AVAILABLE", orphan |-> FALSE,
                        num |-> num, name |-> f, src |-> n]
       IN  /\ heap' = [heap EXCEPT ![n] = Append(@, FileInfo(num, f, Chunk))]
           /\ SendFrames(n, Broadcast(n, announce, state[n]), state[n], req)
    /\ files' = [files EXCEPT ![n][n] = Append(@, Len(heap[n]) + 1)]
    /\ disk' = [disk EXCEPT ![n][f] = [c \in Chunk |-> f]]
    /\ UNCHANGED <<life, cli, info, numReq, pending, rep>>

\* Mistake: the state set by stopConnection() is left.
ViewsDisconnected(n) ==
    [m \in Node |-> IF m # n /\ state[n][m] = "ONLINE" THEN "DISCONNECTED" ELSE state[n][m]]

\* What leave() makes of the states that n keeps.
ViewsOfLeaver(n) ==
    [m \in Node |-> IF m # n /\ state[n][m] = "ONLINE" THEN "OFFLINE" ELSE state[n][m]]

\* leave(): those it takes to be ONLINE are told, and the sessions to them
\* and its own receive queue are closed behind what is already queued.
Leave(n) ==
    /\ Ready(n)
    /\ n \in Leavers
    /\ life[n] = "serving"
    /\ LET online == {m \in Node \ {n} : state[n][m] = "ONLINE"}
           out == Broadcast(n, [type |-> "PEER_LEAVE_NOTIFICATION", orphan |-> FALSE,
                                src |-> n], state[n])
       IN  /\ state' = [state EXCEPT ![n] = ViewsOfLeaver(n)]
           /\ link' = [link EXCEPT ![n] = [m \in Node |->
                          IF m \in online /\ Connects(n, m) THEN "closing" ELSE link[n][m]]]
           /\ req' = [req EXCEPT ![n] = RequestsAfter(n, out, req)]
    /\ life' = [life EXCEPT ![n] = "stopping"]
    /\ UNCHANGED <<cli, fileVars, pending, rep>>

\* "quit", or a kill: the process ends without a word.
Quit(n) ==
    /\ n \in Quitters
    /\ life[n] # "gone"
    /\ Die(n)
    /\ UNCHANGED <<cli, state, fileVars, pending, req, rep>>

\* acceptConnections() ends on the stopped, empty receive queue, and with it
\* the server.  A frame that comes after leave() is never queued.
StopServer(n) ==
    /\ life[n] = "stopping"
    /\ life' = [life EXCEPT ![n] = "stopped"]
    /\ UNCHANGED <<cli, state, fileVars, pending, link, req, rep>>

-----------------------------------------------------------------------------
(***************************************************************************)
(* handleRequest(): n handles a frame that m sent.                         *)
(***************************************************************************)

\* Mistake: a handshake is answered while n is still joining.
OnHandshakeRequestEarly(n, m) ==
    /\ Request(n, m, "HANDSHAKE_REQUEST")
    /\ req' = Handled(n, m)
    /\ IF ~Head(req[m][n]).orphan
       THEN PutReply(n, m, Frame("HANDSHAKE_RESPONSE"))
       ELSE UNCHANGED rep
    /\ UNCHANGED <<life, cli, state, fileVars, pending, link>>

\* A handshake is answered only by a peer that is ONLINE, else it is dropped.
OnHandshakeRequest(n, m) ==
    /\ Request(n, m, "HANDSHAKE_REQUEST")
    /\ req' = Handled(n, m)
    /\ IF state[n][n] = "ONLINE" /\ ~Head(req[m][n]).orphan
       THEN PutReply(n, m, Frame("HANDSHAKE_RESPONSE"))
       ELSE UNCHANGED rep
    /\ UNCHANGED <<life, cli, state, fileVars, pending, link>>

\* The first answer makes n ask for the file list: the one frame object goes
\* to each peer that is ONLINE.
OnHandshakeResponse(n, m) ==
    /\ Reply(n, m, "HANDSHAKE_RESPONSE")
    /\ LET views == [state[n] EXCEPT ![m] = "ONLINE"]
       IN  IF state[n][n] = "INITIALIZING"
           THEN SendFrames(n, Broadcast(n, Frame("FILE_LIST_REQUEST"), views),
                           [views EXCEPT ![n] = "WAITING_FOR_FILE_LIST"], req)
           ELSE state' = [state EXCEPT ![n] = views] /\ UNCHANGED <<link, req>>
    /\ TakeReply(n, m)
    /\ UNCHANGED <<life, cli, fileVars, pending>>

\* The list is sent whatever the state of n: FILE_LIST_DECLINE is never sent.
OnFileListRequest(n, m) ==
    /\ Request(n, m, "FILE_LIST_REQUEST")
    /\ req' = Handled(n, m)
    /\ LET entry(i) == LET o == heap[n][files[n][n][i]] IN [num |-> o.num, name |-> o.name]
           list == [i \in DOMAIN files[n][n] |-> entry(i)]
       IN  IF Head(req[m][n]).orphan
           THEN UNCHANGED rep
           ELSE PutReply(n, m, [type |-> "FILE_LIST", orphan |-> FALSE, list |-> list])
    /\ UNCHANGED <<life, cli, state, fileVars, pending, link>>

\* Mistake: nobody is notified.
GoOnlineSilently(n, views) ==
    /\ state' = [state EXCEPT ![n] = [views EXCEPT ![n] = "ONLINE"]]
    /\ UNCHANGED <<link, req>>

\* changeStateToOnlineAndNotify(), with the rest of the state of n in views.
GoOnline(n, views) ==
    SendFrames(n, Broadcast(n, [type |-> "PEER_JOIN_NOTIFICATION", orphan |-> FALSE,
                                src |-> n], views),
               [views EXCEPT ![n] = "ONLINE"], req)

\* handleFileListFrame().  An empty list: n is ONLINE.  Else each new FileInfo
\* is appended, the same object, to every list that lacks its number; the
\* first file makes n ask the peers that are ONLINE for their chunks.
OnFileList(n, m) ==
    /\ Reply(n, m, "FILE_LIST")
    /\ LET list == Head(rep[n][m]).list
           isNew(p, i) == /\ list[i].num \notin NumsOf(n, p)
                          /\ \A j \in 1..(i - 1) : list[j].num # list[i].num
           added(p) == InOrder({i \in DOMAIN list : isNew(p, i)})
           object(i) == Len(heap[n]) + i
           ask == [p \in Node |->
                     IF p # n /\ state[n][p] = "ONLINE" /\ list[1].num \notin info[n][p]
                     THEN <<Frame("CHUNK_INFO_REQUEST")>> ELSE <<>>]
       IN  /\ heap' = [heap EXCEPT ![n] =
                         @ \o [i \in DOMAIN list |-> FileInfo(list[i].num, list[i].name, {})]]
           /\ files' = [files EXCEPT ![n] = [p \in Node |->
                          @[p] \o [k \in DOMAIN added(p) |-> object(added(p)[k])]]]
           /\ CASE list = <<>> -> GoOnline(n, state[n])
                [] list # <<>> /\ state[n][n] = "WAITING_FOR_FILE_LIST" ->
                     SendFrames(n, ask, [state[n] EXCEPT ![n] = "WAITING_FOR_CHUNK_INFO"], req)
                [] OTHER -> UNCHANGED linkVars
    /\ TakeReply(n, m)
    /\ UNCHANGED <<life, cli, info, numReq, pending, disk>>

\* The reply names each file of n once; a number that occurs twice in the
\* list leaves an empty slot, which reads as file 0.  A peer that asks and
\* hangs up leaves no reply queue, and n dies of the null pointer.
OnChunkInfoRequest(n, m) ==
    /\ Request(n, m, "CHUNK_INFO_REQUEST")
    /\ req' = Handled(n, m)
    /\ LET nums == NumsOf(n, n)
           slots == IF Len(files[n][n]) > Cardinality(nums) THEN nums \cup {0} ELSE nums
       IN  IF Head(req[m][n]).orphan
           THEN Die(n) /\ UNCHANGED rep
           ELSE /\ PutReply(n, m, [type |-> "CHUNK_INFO", orphan |-> FALSE, nums |-> slots])
                /\ UNCHANGED <<life, link>>
    /\ UNCHANGED <<cli, state, fileVars, pending>>

\* Files are taken in the order of their numbers, up to the first that the
\* list of m lacks.  map::insert() does not overwrite the flags an object was
\* constructed with, so which chunks m has is not recorded.
OnChunkInfo(n, m) ==
    /\ Reply(n, m, "CHUNK_INFO")
    /\ LET nums == Head(rep[n][m]).nums
           known == {k \in nums : \A j \in nums : j <= k => j \in NumsOf(n, m)}
       IN  /\ info' = [info EXCEPT ![n][m] = @ \cup known]
           /\ numReq' = [numReq EXCEPT ![n] = QueueDownloads(n, known)]
    /\ IF state[n][n] = "WAITING_FOR_CHUNK_INFO" /\ HaveAllChunkInfo(n, info'[n])
       THEN GoOnline(n, state[n])
       ELSE UNCHANGED linkVars
    /\ TakeReply(n, m)
    /\ UNCHANGED <<life, cli, heap, files, pending, disk>>

\* Mistake: the file is entered for its source only.
OnNewFileForSource(n, m) ==
    /\ Request(n, m, "NEW_FILE_AVAILABLE")
    /\ LET frame == Head(req[m][n])
       IN  /\ heap' = [heap EXCEPT ![n] = Append(@, FileInfo(frame.num, frame.name, {}))]
           /\ files' = [files EXCEPT ![n][frame.src] = Append(@, Len(heap[n]) + 1)]
    /\ req' = Handled(n, m)
    /\ UNCHANGED <<life, cli, state, info, numReq, pending, disk, link, rep>>

\* A new file goes into the list of n and, as an object of its own, into that
\* of its source; the chunks of either are not marked.
OnNewFile(n, m) ==
    /\ Request(n, m, "NEW_FILE_AVAILABLE")
    /\ LET frame == Head(req[m][n])
           object == FileInfo(frame.num, frame.name, {})
           next == Len(heap[n]) + 1
           entered == [files[n] EXCEPT ![n] = Append(@, next)]
       IN  /\ heap' = [heap EXCEPT ![n] = @ \o <<object, object>>]
           /\ files' = [files EXCEPT ![n] =
                          [entered EXCEPT ![frame.src] = Append(@, next + 1)]]
           /\ numReq' = [numReq EXCEPT ![n] = QueueDownloads(n, {frame.num})]
    /\ req' = Handled(n, m)
    /\ UNCHANGED <<life, cli, state, info, pending, disk, link, rep>>

\* Mistake: all chunks of the new entry are set, not just the one.
EntryWithAll(num, name, c) == FileInfo(num, name, Chunk)

\* Mistake: the flag of the chunk is cleared last.
EntryCleared(num, name, c) == FileInfo(num, name, {})

\* The entry made for a peer on the first chunk of a file it announces.
EntryWith(num, name, c) == FileInfo(num, name, {c})

\* The chunk is marked in the list of its source, where the file is first
\* entered if need be, with the name of the local one: n dies of the null
\* pointer if it has not heard of the file.
OnNewChunk(n, m) ==
    /\ Request(n, m, "NEW_CHUNK_AVAILABLE")
    /\ req' = Handled(n, m)
    /\ LET frame == Head(req[m][n])
           num == frame.num
           name == heap[n][FileOf(n, n, num)].name
       IN  \/ /\ num \in NumsOf(n, frame.src)
              /\ heap' = [heap EXCEPT ![n][FileOf(n, frame.src, num)].has = @ \cup {frame.chunk}]
              /\ UNCHANGED <<files, life, link>>
           \/ /\ num \in NumsOf(n, n) \ NumsOf(n, frame.src)
              /\ heap' = [heap EXCEPT ![n] = Append(@, EntryWith(num, name, frame.chunk))]
              /\ files' = [files EXCEPT ![n][frame.src] = Append(@, Len(heap[n]) + 1)]
              /\ UNCHANGED <<life, link>>
           \/ /\ num \notin NumsOf(n, n) \cup NumsOf(n, frame.src)
              /\ Die(n)
              /\ UNCHANGED <<heap, files>>
    /\ UNCHANGED <<cli, state, info, numReq, pending, disk, rep>>

\* Mistake: a chunk is served whether it is marked or not.
AnswerAlways(n, frame) ==
    LET object == heap[n][FileOf(n, n, frame.num)]
    IN  [type |-> "CHUNK", orphan |-> FALSE, num |-> frame.num, chunk |-> frame.chunk,
         data |-> disk[n][object.name][frame.chunk]]

\* A chunk is served if it is marked, with whatever the disk holds, else it is
\* declined.
Answer(n, frame) ==
    LET object == heap[n][FileOf(n, n, frame.num)]
    IN  IF frame.chunk \in object.has
        THEN [type |-> "CHUNK", orphan |-> FALSE, num |-> frame.num, chunk |-> frame.chunk,
              data |-> disk[n][object.name][frame.chunk]]
        ELSE ChunkFrame("CHUNK_REQUEST_DECLINE", frame.num, frame.chunk)

\* A request for an unknown file is dropped; where the peer that asks has hung
\* up there is no reply queue, and n dies of the null pointer.
OnChunkRequest(n, m) ==
    /\ Request(n, m, "CHUNK_REQUEST")
    /\ req' = Handled(n, m)
    /\ LET frame == Head(req[m][n])
       IN  CASE frame.num \notin NumsOf(n, n) -> UNCHANGED <<life, link, rep>>
             [] frame.num \in NumsOf(n, n) /\ frame.orphan -> Die(n) /\ UNCHANGED rep
             [] OTHER -> PutReply(n, m, Answer(n, frame)) /\ UNCHANGED <<life, link>>
    /\ UNCHANGED <<cli, state, fileVars, pending>>

\* numChunksRequested_[num]--.  Where the download loop is about to increment
\* the same counter, without a lock, either update may be lost.
CountDown(n, num) ==
    \/ /\ numReq' = [numReq EXCEPT ![n][num] = @ - 1]
       /\ UNCHANGED pending
    \/ /\ pending[n] = num
       /\ pending' = [pending EXCEPT ![n] = NoFile]
       /\ \/ numReq' = [numReq EXCEPT ![n][num] = @ + 1]
          \/ numReq' = [numReq EXCEPT ![n][num] = @ - 1]

\* Mistake: the file and the chunk number change places.
NewChunkSwapped(n, num, c) ==
    [type |-> "NEW_CHUNK_AVAILABLE", orphan |-> FALSE, num |-> c, chunk |-> num, src |-> n]

NewChunkFrame(n, num, c) ==
    [type |-> "NEW_CHUNK_AVAILABLE", orphan |-> FALSE, num |-> num, chunk |-> c, src |-> n]

\* A chunk is written, marked, counted and announced.
OnChunk(n, m) ==
    /\ Reply(n, m, "CHUNK")
    /\ LET frame == Head(rep[n][m])
           o == FileOf(n, n, frame.num)
           announce == NewChunkFrame(n, frame.num, frame.chunk)
       IN  /\ disk' = [disk EXCEPT ![n][heap[n][o].name][frame.chunk] = frame.data]
           /\ heap' = [heap EXCEPT ![n][o].has = @ \cup {frame.chunk}]
           /\ CountDown(n, frame.num)
           /\ SendFrames(n, Broadcast(n, announce, state[n]), state[n], req)
    /\ TakeReply(n, m)
    /\ UNCHANGED <<life, cli, files, info>>

\* handleRequest() has no case for a decline.
OnChunkRequestDecline(n, m) ==
    /\ Reply(n, m, "CHUNK_REQUEST_DECLINE")
    /\ TakeReply(n, m)
    /\ UNCHANGED <<life, cli, state, fileVars, pending, link, req>>

OnJoinNotification(n, m) ==
    /\ Request(n, m, "PEER_JOIN_NOTIFICATION")
    /\ state' = [state EXCEPT ![n][Head(req[m][n]).src] = "ONLINE"]
    /\ req' = Handled(n, m)
    /\ UNCHANGED <<life, cli, fileVars, pending, link, rep>>

OnLeaveNotification(n, m) ==
    /\ Request(n, m, "PEER_LEAVE_NOTIFICATION")
    /\ state' = [state EXCEPT ![n][Head(req[m][n]).src] = "OFFLINE"]
    /\ req' = Handled(n, m)
    /\ UNCHANGED <<life, cli, fileVars, pending, link, rep>>

HandleRequest(n, m) ==
    \/ OnHandshakeRequest(n, m) \/ OnFileListRequest(n, m) \/ OnChunkInfoRequest(n, m)
    \/ OnNewFile(n, m) \/ OnNewChunk(n, m) \/ OnChunkRequest(n, m)
    \/ OnJoinNotification(n, m) \/ OnLeaveNotification(n, m)

HandleReply(n, m) ==
    \/ OnHandshakeResponse(n, m) \/ OnFileList(n, m) \/ OnChunkInfo(n, m)
    \/ OnChunk(n, m) \/ OnChunkRequestDecline(n, m)

-----------------------------------------------------------------------------
(***************************************************************************)
(* downloadLoop(), which starts with join() and is never stopped.  It asks *)
(* entry 1 of peers.txt, whoever that is, for the first missing chunk of a *)
(* file with no request counted, and then counts the request, sent or not. *)
(***************************************************************************)
RequestChunk(n, num) ==
    /\ life[n] \in {"serving", "stopping", "stopped"}
    /\ pending[n] = NoFile
    /\ num \in DOMAIN numReq[n]
    /\ numReq[n][num] < 1
    /\ LET missing == Chunk \ heap[n][FileOf(n, n, num)].has
       IN  /\ missing # {}
           /\ SendFrames(n, [NoFrames EXCEPT ![PeerAt[n][1]] =
                               <<ChunkFrame("CHUNK_REQUEST", num, Min(missing))>>],
                         state[n], req)
    /\ pending' = [pending EXCEPT ![n] = num]
    /\ UNCHANGED <<life, cli, fileVars, rep>>

CountRequest(n) ==
    /\ life[n] # "gone"
    /\ pending[n] # NoFile
    /\ numReq' = [numReq EXCEPT ![n][pending[n]] = @ + 1]
    /\ pending' = [pending EXCEPT ![n] = NoFile]
    /\ UNCHANGED <<life, cli, state, heap, files, info, disk, link, req, rep>>

-----------------------------------------------------------------------------
Starting(n) == InitRemotePeer(n) \/ FinishInit(n) \/ MarkNextPeer(n) \/ ReturnFromJoin(n)
Download(n) == CountRequest(n) \/ \E num \in DOMAIN numReq[n] : RequestChunk(n, num)

Next ==
    \E n \in Running :
        \/ Join(n) \/ Starting(n) \/ MarkFile(n) \/ Leave(n) \/ Quit(n) \/ StopServer(n)
        \/ Download(n)
        \/ \E f \in File : Insert(n, f)
        \/ \E m \in Running : HandleRequest(n, m) \/ HandleReply(n, m) \/ EndSession(n, m)

Spec == Init /\ [][Next]_vars

(***************************************************************************)
(* The threads of a process run, and a frame that arrived is handled in    *)
(* its turn.  No user has to give a command.                               *)
(***************************************************************************)
Fairness ==
    \A n \in Running :
        /\ WF_vars(Starting(n))
        /\ WF_vars(CountRequest(n))
        /\ \A num \in 0..(Cardinality(File) - 1) : WF_vars(RequestChunk(n, num))
        /\ \A m \in Running : WF_vars(HandleRequest(n, m)) /\ WF_vars(HandleReply(n, m))

FairSpec == Spec /\ Fairness

-----------------------------------------------------------------------------
(***************************************************************************)
(* Safety.                                                                 *)
(***************************************************************************)
Frames ==
    [type : {"HANDSHAKE_REQUEST", "HANDSHAKE_RESPONSE", "FILE_LIST_REQUEST",
             "CHUNK_INFO_REQUEST"}, orphan : BOOLEAN]
    \cup [type : {"FILE_LIST"}, orphan : BOOLEAN, list : Seq([num : Nat, name : File])]
    \cup [type : {"CHUNK_INFO"}, orphan : BOOLEAN, nums : SUBSET Nat]
    \cup [type : {"NEW_FILE_AVAILABLE"}, orphan : BOOLEAN, num : Nat, name : File,
          src : Running]
    \cup [type : {"NEW_CHUNK_AVAILABLE"}, orphan : BOOLEAN, num : Nat, chunk : Chunk,
          src : Running]
    \cup [type : {"CHUNK_REQUEST", "CHUNK_REQUEST_DECLINE"}, orphan : BOOLEAN, num : Nat,
          chunk : Chunk]
    \cup [type : {"CHUNK"}, orphan : BOOLEAN, num : Nat, chunk : Chunk,
          data : File \cup {Garbage}]
    \cup [type : {"PEER_JOIN_NOTIFICATION", "PEER_LEAVE_NOTIFICATION"}, orphan : BOOLEAN,
          src : Running]

\* Types of the variables; every index in a file list is that of an object,
\* and every peer n keeps a state of is an entry of peers.txt.
TypeOK ==
    /\ life \in [Running -> Life]
    /\ cli \in [Running -> [at : {"ready", "init", "mark"}, i : 0..MaxPeers]]
    /\ state \in [Running -> [Node -> State]]
    /\ heap \in [Running -> Seq([num : Nat, name : File, has : SUBSET Chunk])]
    /\ \A n \in Running : files[n] \in [Node -> Seq(DOMAIN heap[n])]
    /\ info \in [Running -> [Node -> SUBSET Nat]]
    /\ \A n \in Running : /\ DOMAIN numReq[n] \subseteq Nat
                          /\ \A num \in DOMAIN numReq[n] : numReq[n][num] \in Int
                          /\ pending[n] \in DOMAIN numReq[n] \cup {NoFile}
    /\ disk \in [Running -> [File -> [Chunk -> File \cup {Garbage}]]]
    /\ link \in [Running -> [Node -> {"none", "open", "closing"}]]
    /\ req \in [Running -> [Node -> Seq(Frames)]]
    /\ rep \in [Running -> [Node -> Seq(Frames)]]

\* While n waits for a handshake it takes nobody to be ONLINE.  The handler of
\* HANDSHAKE_RESPONSE sends one frame object to every peer that is ONLINE, and
\* each session deletes what it sent: that it asks a single peer, and frees
\* the frame once, rests on who is told of a join, in all the other processes.
AsksOnePeer ==
    \A n \in Running : state[n][n] = "INITIALIZING" => \A m \in Node : state[n][m] # "ONLINE"

\* A peer that is ONLINE for somebody is ONLINE for itself: files are announced
\* and lists are asked only from peers that have completed their join.
OnlineViewIsTrue ==
    \A n \in Running, m \in Node :
        state[n][m] = "ONLINE" => m \in Running /\ state[m][m] = "ONLINE"

\* Three look-ups of a local file by number do not test for NULL and find one:
\* that of the handler of CHUNK_INFO, for a file another peer has, that of
\* downloadLoop(), for one queued for download, and that of the handler of
\* CHUNK, for one whose chunk is on its way.  There is a fourth, in the handler
\* of NEW_CHUNK_AVAILABLE, which may find nothing: see FirstChunkIsOfAKnownFile.
FilesAreKnown ==
    \A n \in Running :
        /\ \A m \in Node : NumsOf(n, m) \subseteq NumsOf(n, n)
        /\ DOMAIN numReq[n] \subseteq NumsOf(n, n)
        /\ \A m \in Node : \A i \in DOMAIN rep[n][m] :
             rep[n][m][i].type = "CHUNK" => rep[n][m][i].num \in DOMAIN numReq[n]

\* The announcement of file num is on its way to n.
FileUnderWay(n, num) ==
    \E p \in Running : \E i \in DOMAIN req[p][n] :
        req[p][n][i].type = "NEW_FILE_AVAILABLE" /\ req[p][n][i].num = num

\* When a chunk is announced to n, n has the file or its announcement is on its
\* way, on another session perhaps: overtaking is all that can go wrong.
ChunksFollowFiles ==
    \A n, m \in Running : life[n] = "serving" => \A i \in DOMAIN req[m][n] :
        LET num == req[m][n][i].num
        IN  req[m][n][i].type = "NEW_CHUNK_AVAILABLE" => num \in NumsOf(n, n) \/ FileUnderWay(n, num)

\* The handler of NEW_CHUNK_AVAILABLE finds the local file it looks up for the
\* peer.  It does not where the chunk has overtaken the file.
FirstChunkIsOfAKnownFile ==
    \A n, m \in Running :
        Request(n, m, "NEW_CHUNK_AVAILABLE") => Head(req[m][n]).num \in NumsOf(n, n)

\* Of two nodes that are up, not each misses the other: join() starts the
\* server before it contacts anybody, so if both join at once one of them is
\* there for the other.  No later refusal undoes this.
OneFindsTheOther ==
    \A n, m \in Running :
        (n # m /\ life[n] = "serving" /\ life[m] = "serving")
            => ~(state[n][m] = "OFFLINE" /\ state[m][n] = "OFFLINE")

\* Once two nodes are ONLINE and no frame is under way between them, each
\* takes the other to be ONLINE.
MembersAgree ==
    \A n, m \in Running :
        /\ state[n][n] = "ONLINE" /\ state[m][m] = "ONLINE"
        /\ \A x, y \in {n, m} : req[x][y] = <<>> /\ rep[x][y] = <<>>
        => state[n][m] = "ONLINE"

\* A chunk marked in the list of a node is on its disk, with the bytes of the
\* file that carries the mark: what is served to others is what was inserted.
MarkedChunksAreStored ==
    \A n \in Running : \A o \in Listed(n, n) :
        \A c \in heap[n][o].has : disk[n][heap[n][o].name][c] = heap[n][o].name

\* What a node believes another one to have, that one has.
BeliefsHold ==
    \A n, m \in Running : \A o \in Listed(n, m) : \E p \in Listed(m, m) :
        /\ heap[m][p].num = heap[n][o].num
        /\ heap[n][o].has \subseteq heap[m][p].has

\* A process ends only where its user ends it: no handler meets a null pointer.
NoCrash == \A n \in Running : life[n] = "gone" => n \in Quitters

\* What n serves: the chunks marked in its own list, as its disk has them.
Holdings ==
    [n \in Running |-> UNION {{<<heap[n][o].name, c, disk[n][heap[n][o].name][c]>> :
                                  c \in heap[n][o].has} : o \in Listed(n, n)}]

Replicas == INSTANCE ReplicaSet WITH Node <- Running, holds <- Holdings

\* Whatever the order of frames, what a node comes to serve another one serves
\* already, or its user has just inserted, and it is the same bytes.
ImplementsReplicas == Replicas!Spec

(***************************************************************************)
(* Liveness, under FairSpec.                                               *)
(***************************************************************************)

\* Nobody has left or died so far.
AllStay == \A n \in Running : life[n] \in {"off", "serving"}

\* The join of n waits for chunk information of a file from peer m, and none is
\* under way: m has no entry in peers.txt at n, was not ONLINE yet for n when n
\* asked for it, was asked before the file was inserted, or has answered before
\* the last loop of join() cleared the flag of that file.  Chunk information is
\* asked for once, on FILE_LIST, so n waits for ever.
Starved(n) ==
    /\ state[n][n] = "WAITING_FOR_CHUNK_INFO"
    /\ \E m \in Node \ {n} : \E num \in NumsOf(n, n) \ info[n][m] :
         /\ \A i \in DOMAIN req[n][m] : req[n][m][i].type # "CHUNK_INFO_REQUEST"
         /\ \A i \in DOMAIN rep[n][m] :
              rep[n][m][i].type = "CHUNK_INFO" => num \notin rep[n][m][i].nums

\* As long as everybody stays, a node that has asked for the file list gets
\* through its join, unless it is starved of the information it waits for.
JoinEnds ==
    [](AllStay) => \A n \in Running :
        state[n][n] = "WAITING_FOR_FILE_LIST" ~> (state[n][n] = "ONLINE" \/ Starved(n))

\* What n has of file num.
Downloaded(n, num) == UNION {heap[n][o].has : o \in {o \in Listed(n, n) : heap[n][o].num = num}}

\* With two nodes, and as long as both stay, each file queued for download gets
\* its first chunk.  With more it need not: the peer that is asked may not have
\* the chunk yet, declines, and is not asked again.
DownloadStarts ==
    [](AllStay) => \A n \in Running : \A num \in 0..(Cardinality(File) - 1) :
        num \in DOMAIN numReq[n] ~> Downloaded(n, num) # {}

\* Each file queued for download is replicated in full.
DownloadCompletes ==
    \A n \in Running : \A num \in 0..(Cardinality(File) - 1) :
        num \in DOMAIN numReq[n] ~> Downloaded(n, num) = Chunk
=============================================================================
