------------------------------ MODULE Transfer ------------------------------
(***************************************************************************)
(* A file on its way from one node to another, as bytes: what handlers of  *)
(* src/src/peer.cpp, Frames and FileChunkIO do together.  The source       *)
(* inserts files; the copy joins, before or after, is told of them, and    *)
(* asks for their chunks.  The module Peer has the protocol for any number *)
(* of nodes, with decoded frames and files of one size, and leaving; here  *)
(* frames are what Frames makes of them, and files have lengths.           *)
(*                                                                         *)
(* A frame in transit is kept with the message it was made from, which     *)
(* only the properties look at.                                            *)
(***************************************************************************)
EXTENDS Frames, FileChunkIO, FiniteSetsExt

CONSTANTS Content,   \* Content[f]: the bytes of the file named f, from index 0
          Address,   \* Address[n]: ip and port of the node n
          Leftover,  \* what localStorage of the copy may hold from earlier
          Vanishing, \* bound: files that the user of the source may delete
          MaxAsked,  \* bound: chunk requests and chunks under way
          Junk       \* what an uninitialised buffer holds

Node == {"source", "copy"}
Name == DOMAIN Content

\* file_size().
Size(content) == Cardinality(DOMAIN content)

\* What a file may hold.
IsContent(content) == /\ IsFiniteSet(DOMAIN content)
                      /\ content \in [0..(Size(content) - 1) -> Byte]

\* Names, addresses, numbers and sizes fit into their fields, the list of all
\* files into a frame.
ASSUME TransferAssumption ==
    /\ IsFiniteSet(Name) /\ Cardinality(Name) \in Byte
    /\ \A f \in Name : /\ f \in Seq(Byte \ {0}) /\ Len(f) <= NameWidth
                        /\ IsContent(Content[f])
                        /\ Size(Content[f]) \in 1..(MaxChunks * ChunkSize) /\ Size(Content[f]) < IntLimit
    /\ \A old \in Leftover : DOMAIN old \subseteq Name /\ \A f \in DOMAIN old : IsContent(old[f])
    /\ \A n \in Node : /\ Address[n] = [ip |-> Address[n].ip, port |-> Address[n].port]
                       /\ Address[n].ip \in Seq(Byte \ {0}) /\ Len(Address[n].ip) <= IpWidth
                       /\ Address[n].port \in Seq(Byte \ {0}) /\ Len(Address[n].port) <= PortWidth
    /\ Address["source"] # Address["copy"]
    /\ Vanishing \subseteq Name /\ MaxAsked \in Nat /\ Junk \in Byte
    /\ EntryAt(Cardinality(Name) + 1) <= FrameLength
    /\ 2 + Cardinality(Name) * FileInfoWidth <= FrameLength

VARIABLES store,   \* localStorage of each node
          list,    \* fileInfoList_ of each node for itself
          remote,  \* remote[n]: fileInfoList_ at n for the other node
          state,   \* state_ of the copy for itself; the source is ONLINE
          view,    \* view[n]: state_ at n for the other node
          queued,  \* keys of numChunksRequested_ at the copy
          req,     \* req[n]: requests and announcements on their way to n
          rep      \* replies on their way to the copy

fileVars == <<store, list, remote, queued>>
vars == <<store, list, remote, state, view, queued, req, rep>>

Other(n) == IF n = "source" THEN "copy" ELSE "source"

Init ==
    /\ store \in {[n \in Node |-> IF n = "source" THEN <<>> ELSE old] : old \in Leftover}
    /\ list = [n \in Node |-> <<>>]
    /\ remote = [n \in Node |-> <<>>]
    /\ state = "UNKNOWN"
    /\ view = [n \in Node |-> "OFFLINE"]
    /\ queued = {}
    /\ req = [n \in Node |-> <<>>]
    /\ rep = <<>>

-----------------------------------------------------------------------------
(***************************************************************************)
(* Messages and their frames.                                              *)
(***************************************************************************)
Encode(m) ==
    CASE m.type \in {"HANDSHAKE_REQUEST", "FILE_LIST_REQUEST", "CHUNK_INFO_REQUEST"} ->
             NewFrame(m.type)
      [] m.type \in {"HANDSHAKE_RESPONSE", "PEER_JOIN_NOTIFICATION"} ->
             CreateAddressFrame(m.type, m.ip, m.port)
      [] m.type \in {"CHUNK_REQUEST", "CHUNK_REQUEST_DECLINE"} ->
             CreateChunkRequestFrame(m.type, m.fileNum, m.chunkNum)
      [] m.type = "CHUNK" -> CreateChunkDataFrame(m.fileNum, m.chunkNum, m.chunk)
      [] m.type = "NEW_CHUNK_AVAILABLE" ->
             CreateNewChunkAvailableFrame(m.fileNum, m.chunkNum, m.ip, m.port)
      [] m.type = "NEW_FILE_AVAILABLE" -> CreateNewFileAvailableFrame(m.file, m.ip, m.port)
      [] m.type = "FILE_LIST" -> CreateFileListFrame(m.files)
      [] m.type = "CHUNK_INFO" -> CreateChunkInfoFrame(Cardinality(DOMAIN m.chunkMap), m.ip, m.port, m.chunkMap)

Decode(frame) ==
    LET type == GetFrameType(frame)
    IN  CASE type \in {"HANDSHAKE_REQUEST", "FILE_LIST_REQUEST", "CHUNK_INFO_REQUEST"} -> [type |-> type]
          [] type \in {"HANDSHAKE_RESPONSE", "PEER_JOIN_NOTIFICATION"} ->
                 [type |-> type, ip |-> GetIp(frame), port |-> GetPort(frame)]
          [] type \in {"CHUNK_REQUEST", "CHUNK_REQUEST_DECLINE"} ->
                 [type |-> type, fileNum |-> GetFileNum(frame), chunkNum |-> GetChunkNum(frame)]
          [] type = "CHUNK" ->
                 [type |-> type, fileNum |-> GetFileNum(frame), chunkNum |-> GetChunkNum(frame),
                  chunk |-> GetChunk(frame)]
          [] type = "NEW_CHUNK_AVAILABLE" ->
                 [type |-> type, ip |-> GetIp(frame), port |-> GetPort(frame),
                  fileNum |-> GetNewFileNum(frame), chunkNum |-> GetNewChunkNum(frame)]
          [] type = "NEW_FILE_AVAILABLE" ->
                 [type |-> type, ip |-> GetIp(frame), port |-> GetPort(frame), file |-> GetFileInfo(frame)]
          [] type = "FILE_LIST" -> [type |-> type, files |-> GetFileInfos(frame)]
          [] type = "CHUNK_INFO" ->
                 [type |-> type, ip |-> GetIp(frame), port |-> GetPort(frame), chunkMap |-> GetChunkMap(frame)]

InTransit(m) == [message |-> m, bytes |-> Encode(m)]

Bare(type) == [type |-> type]
FromNode(type, n) == [type |-> type, ip |-> Address[n].ip, port |-> Address[n].port]
AboutChunk(type, num, c) == [type |-> type, fileNum |-> num, chunkNum |-> c]
ChunkMessage(num, c, chunk) == [type |-> "CHUNK", fileNum |-> num, chunkNum |-> c, chunk |-> chunk]
NewFile(file) == [type |-> "NEW_FILE_AVAILABLE", ip |-> Address["source"].ip,
                  port |-> Address["source"].port, file |-> file]
NewChunk(num, c) == [type |-> "NEW_CHUNK_AVAILABLE", ip |-> Address["copy"].ip,
                     port |-> Address["copy"].port, fileNum |-> num, chunkNum |-> c]
FileList(files) == [type |-> "FILE_LIST", files |-> files]
ChunkInfo(chunkMap) == [type |-> "CHUNK_INFO", ip |-> Address["source"].ip,
                        port |-> Address["source"].port, chunkMap |-> chunkMap]

\* getRemotePeerFromIpAndPort() at n, for the address in a frame.
Knows(n, m) == Address[Other(n)] = [ip |-> m.ip, port |-> m.port]

\* The message that n reads from the next frame to it.
Request(n, type) == req[n] # <<>> /\ GetFrameType(Head(req[n]).bytes) = type
RequestTo(n) == Decode(Head(req[n]).bytes)
Reply(type) == rep # <<>> /\ GetFrameType(Head(rep).bytes) = type
ReplyRead == Decode(Head(rep).bytes)

Handled(n) == [req EXCEPT ![n] = Tail(@)]
Answered(m) == rep' = Append(rep, InTransit(m))

\* broadcastFrame() by n, with requests the frames under way.
Broadcast(n, m, views, requests) ==
    req' = IF views[n] = "ONLINE" THEN [requests EXCEPT ![Other(n)] = Append(@, InTransit(m))]
           ELSE requests

-----------------------------------------------------------------------------
(***************************************************************************)
(* File lists.                                                             *)
(***************************************************************************)
Entry(file, has) == [file |-> file, has |-> has]
NumsIn(entries) == {entries[i].file.fileNum : i \in DOMAIN entries}

\* getFileFromFileNumber(), as a position.
FileOf(entries, num) ==
    CHOOSE i \in DOMAIN entries : /\ entries[i].file.fileNum = num
                                  /\ \A j \in 1..(i - 1) : entries[j].file.fileNum # num

Marked(entries, num, c) == [entries EXCEPT ![FileOf(entries, num)].has = @ \cup {c}]

Chunks(file) == 0..(file.chunkCount - 1)

\* A file in a FILE_LIST frame, and the entry made of it: the number of chunks
\* is worked out from the size.
InList(file) == [fileNum |-> file.fileNum, fileSize |-> file.fileSize, fileName |-> file.fileName]
FromList(file) ==
    Entry([fileNum |-> file.fileNum, chunkCount |-> ChunkCount(file.fileSize),
           fileSize |-> file.fileSize, fileName |-> file.fileName], {})

\* The files whose numbers are not yet in the list are added at its end.
WithFiles(entries, files) ==
    LET new == InOrder({i \in DOMAIN files : files[i].fileNum \notin NumsIn(entries)})
    IN  entries \o [k \in DOMAIN new |-> FromList(files[new[k]])]

-----------------------------------------------------------------------------
(***************************************************************************)
(* Commands.                                                               *)
(***************************************************************************)
\* insert() at the source.  Bound: each file once.
Insert(f) ==
    /\ \A i \in DOMAIN list["source"] : list["source"][i].file.fileName # f
    /\ LET size == Size(Content[f])
           file == [fileNum |-> Len(list["source"]), chunkCount |-> ChunkCount(size),
                    fileSize |-> size, fileName |-> f]
       IN  /\ list' = [list EXCEPT !["source"] = Append(@, Entry(file, Chunks(file)))]
           /\ Broadcast("source", NewFile(file), view, req)
    /\ store' = [store EXCEPT !["source"] = [g \in DOMAIN @ \cup {f} |->
                                               IF g = f THEN Content[f] ELSE @[g]]]
    /\ UNCHANGED <<remote, state, view, queued, rep>>

\* The user of the source deletes the file from localStorage.
Vanish(f) ==
    /\ f \in Vanishing \cap DOMAIN store["source"]
    /\ store' = [store EXCEPT !["source"] = [g \in DOMAIN @ \ {f} |-> @[g]]]
    /\ UNCHANGED <<list, remote, state, view, queued, req, rep>>

\* join() at the copy.
Join ==
    /\ state = "UNKNOWN"
    /\ state' = "INITIALIZING"
    /\ view' = [view EXCEPT !["copy"] = "WAITING_FOR_HANDSHAKE"]
    /\ req' = [req EXCEPT !["source"] = Append(@, InTransit(Bare("HANDSHAKE_REQUEST")))]
    /\ UNCHANGED <<fileVars, rep>>

-----------------------------------------------------------------------------
(***************************************************************************)
(* handleRequest() at the source.                                          *)
(***************************************************************************)
OnHandshakeRequest ==
    /\ Request("source", "HANDSHAKE_REQUEST")
    /\ req' = Handled("source")
    /\ Answered(FromNode("HANDSHAKE_RESPONSE", "source"))
    /\ UNCHANGED <<fileVars, state, view>>

OnFileListRequest ==
    /\ Request("source", "FILE_LIST_REQUEST")
    /\ req' = Handled("source")
    /\ Answered(FileList([i \in DOMAIN list["source"] |-> InList(list["source"][i].file)]))
    /\ UNCHANGED <<fileVars, state, view>>

OnChunkInfoRequest ==
    /\ Request("source", "CHUNK_INFO_REQUEST")
    /\ req' = Handled("source")
    /\ Answered(ChunkInfo([num \in NumsIn(list["source"]) |->
                              list["source"][FileOf(list["source"], num)].has]))
    /\ UNCHANGED <<fileVars, state, view>>

\* The answer to a request for a chunk.  That the read failed is only logged.
OnChunkRequest ==
    /\ Request("source", "CHUNK_REQUEST")
    /\ req' = Handled("source")
    /\ LET m == RequestTo("source")
           entry == list["source"][FileOf(list["source"], m.fileNum)]
           buffer == [k \in 1..ChunkSize |-> Junk]
       IN  CASE m.fileNum \notin NumsIn(list["source"]) -> UNCHANGED rep
             [] m.fileNum \in NumsIn(list["source"]) /\ m.chunkNum \in entry.has ->
                  Answered(ChunkMessage(m.fileNum, m.chunkNum,
                             ReadChunk(store["source"], entry.file.fileName, m.chunkNum, buffer)))
             [] OTHER -> Answered(AboutChunk("CHUNK_REQUEST_DECLINE", m.fileNum, m.chunkNum))
    /\ UNCHANGED <<fileVars, state, view>>

\* The copy has a chunk: its entry is made, if need be, from the local one.
OnNewChunk ==
    /\ Request("source", "NEW_CHUNK_AVAILABLE")
    /\ req' = Handled("source")
    /\ LET m == RequestTo("source")
           known == remote["source"]
           local == list["source"][FileOf(list["source"], m.fileNum)]
       IN  remote' = [remote EXCEPT !["source"] =
             CASE ~Knows("source", m) -> known
               [] Knows("source", m) /\ m.fileNum \in NumsIn(known) -> Marked(known, m.fileNum, m.chunkNum)
               [] OTHER -> Append(known, Entry(local.file, {m.chunkNum}))]
    /\ UNCHANGED <<store, list, state, view, queued, rep>>

\* Who has joined is found by the address in the frame.
OnJoinNotification ==
    /\ Request("source", "PEER_JOIN_NOTIFICATION")
    /\ req' = Handled("source")
    /\ view' = [view EXCEPT !["source"] =
                  IF Knows("source", RequestTo("source")) THEN "ONLINE" ELSE @]
    /\ UNCHANGED <<fileVars, state, rep>>

-----------------------------------------------------------------------------
(***************************************************************************)
(* handleRequest() at the copy.                                            *)
(***************************************************************************)
GoOnline(views) ==
    /\ state' = "ONLINE"
    /\ Broadcast("copy", FromNode("PEER_JOIN_NOTIFICATION", "copy"), views, req)

OnHandshakeResponse ==
    /\ Reply("HANDSHAKE_RESPONSE")
    /\ rep' = Tail(rep)
    /\ view' = [view EXCEPT !["copy"] = IF Knows("copy", ReplyRead) THEN "ONLINE" ELSE @]
    /\ IF state = "INITIALIZING"
       THEN state' = "WAITING_FOR_FILE_LIST" /\ Broadcast("copy", Bare("FILE_LIST_REQUEST"), view', req)
       ELSE UNCHANGED <<state, req>>
    /\ UNCHANGED fileVars

\* handleFileListFrame().
OnFileList ==
    /\ Reply("FILE_LIST")
    /\ rep' = Tail(rep)
    /\ LET files == ReplyRead.files
       IN  /\ list' = [list EXCEPT !["copy"] = WithFiles(@, files)]
           /\ remote' = [remote EXCEPT !["copy"] = WithFiles(@, files)]
           /\ CASE files = <<>> -> GoOnline(view)
                [] files # <<>> /\ state = "WAITING_FOR_FILE_LIST" ->
                     /\ state' = "WAITING_FOR_CHUNK_INFO"
                     /\ Broadcast("copy", Bare("CHUNK_INFO_REQUEST"), view, req)
                [] OTHER -> UNCHANGED <<state, req>>
    /\ UNCHANGED <<store, queued, view>>

\* Mistake: a file is not looked up before it is queued.
AllFiles(nums) == nums

\* Those before the first that the list of the sender lacks.
KnownFiles(nums) ==
    {k \in nums \cap NumsIn(remote["copy"]) : \A j \in nums : j < k => j \in NumsIn(remote["copy"])}

\* The files are queued, but their flags are not taken over.
OnChunkInfo ==
    /\ Reply("CHUNK_INFO")
    /\ rep' = Tail(rep)
    /\ LET known == KnownFiles(DOMAIN ReplyRead.chunkMap)
       IN  /\ queued' = queued \cup known
           /\ IF state = "WAITING_FOR_CHUNK_INFO" /\ NumsIn(list["copy"]) \subseteq known
              THEN GoOnline(view) ELSE UNCHANGED <<state, req>>
    /\ UNCHANGED <<store, list, remote, view>>

OnNewFile ==
    /\ Request("copy", "NEW_FILE_AVAILABLE")
    /\ req' = Handled("copy")
    /\ LET m == RequestTo("copy")
       IN  /\ list' = [list EXCEPT !["copy"] = Append(@, Entry(m.file, {}))]
           /\ remote' = [remote EXCEPT !["copy"] = Append(@, Entry(m.file, {}))]
           /\ queued' = queued \cup {m.file.fileNum}
    /\ UNCHANGED <<store, state, view, rep>>

\* A chunk is written, marked and announced.
OnChunk ==
    /\ Reply("CHUNK")
    /\ rep' = Tail(rep)
    /\ LET m == ReplyRead
           file == list["copy"][FileOf(list["copy"], m.fileNum)].file
       IN  /\ store' = [store EXCEPT !["copy"] =
                          WriteChunk(@, file.fileName, m.chunkNum, m.chunk, file.fileSize)]
           /\ list' = [list EXCEPT !["copy"] = Marked(@, m.fileNum, m.chunkNum)]
           /\ Broadcast("copy", NewChunk(m.fileNum, m.chunkNum), view, req)
    /\ UNCHANGED <<remote, state, view, queued>>

Asked == Len(SelectSeq(req["source"], LAMBDA fr : fr.message.type = "CHUNK_REQUEST")) + Len(rep)

\* downloadLoop(): the first missing chunk of a file is asked for, and may be
\* asked for again, as its counter may be one too low.
RequestChunk(num) ==
    /\ num \in queued
    /\ Asked < MaxAsked
    /\ LET entry == list["copy"][FileOf(list["copy"], num)]
           missing == Chunks(entry.file) \ entry.has
       IN  /\ missing # {}
           /\ req' = [req EXCEPT !["source"] =
                        Append(@, InTransit(AboutChunk("CHUNK_REQUEST", num, Min(missing))))]
    /\ UNCHANGED <<fileVars, state, view, rep>>

-----------------------------------------------------------------------------
Next ==
    \/ \E f \in Name : Insert(f) \/ Vanish(f)
    \/ Join
    \/ OnHandshakeRequest \/ OnFileListRequest \/ OnChunkInfoRequest \/ OnChunkRequest
    \/ OnNewChunk \/ OnJoinNotification
    \/ OnHandshakeResponse \/ OnFileList \/ OnChunkInfo \/ OnNewFile \/ OnChunk
    \/ \E num \in queued : RequestChunk(num)

Spec == Init /\ [][Next]_vars

-----------------------------------------------------------------------------
(***************************************************************************)
(* Safety.                                                                 *)
(***************************************************************************)
\* Types of the variables; the copy goes through its states with the view it
\* has of the source.
TypeOK ==
    /\ \A n \in Node : \A f \in DOMAIN store[n] :
         f \in Name /\ IsContent(store[n][f])
    /\ \A n \in Node : \A i \in DOMAIN list[n] : list[n][i].has \subseteq 0..(MaxChunks - 1)
    /\ state \in {"UNKNOWN", "INITIALIZING", "WAITING_FOR_FILE_LIST", "WAITING_FOR_CHUNK_INFO", "ONLINE"}
    /\ view \in [Node -> {"OFFLINE", "WAITING_FOR_HANDSHAKE", "ONLINE"}]
    /\ state \in {"WAITING_FOR_FILE_LIST", "WAITING_FOR_CHUNK_INFO", "ONLINE"} => view["copy"] = "ONLINE"
    /\ queued \subseteq NumsIn(list["copy"])
    /\ \A n \in Node : \A i \in DOMAIN req[n] : DOMAIN req[n][i].bytes = 0..(FrameLength - 1)

\* A frame says what its sender meant: each field is read where it was
\* written, whole, and nothing has been written over it.
WireIsFaithful ==
    /\ \A n \in Node : \A i \in DOMAIN req[n] : Decode(req[n][i].bytes) = req[n][i].message
    /\ \A i \in DOMAIN rep : Decode(rep[i].bytes) = rep[i].message

\* Both nodes take a file to have the same name, length and number of chunks,
\* whichever of two frames the copy was told of it by, one of which lacks the
\* number of chunks.
ListsAgree ==
    \A i \in DOMAIN list["copy"] : \E j \in DOMAIN list["source"] :
        list["copy"][i].file = list["source"][j].file

Holds(store_n, file, c) ==
    /\ file.fileName \in DOMAIN store_n
    /\ \A i \in Span(c, file.fileSize) :
         i \in DOMAIN store_n[file.fileName] /\ store_n[file.fileName][i] = Content[file.fileName][i]

\* A chunk that the copy has marked is on its disk as it was inserted, also if
\* another is written after it, if it is shorter than the rest, if it is asked
\* for twice, and if an older file of that name was there.
CopyIsIntact ==
    \A i \in DOMAIN list["copy"] : \A c \in list["copy"][i].has :
        LET file == list["copy"][i].file
        IN  file.fileName \notin Vanishing => c \in Chunks(file) /\ Holds(store["copy"], file, c)

\* What the source takes the copy to have, the copy has: the number in the
\* announcement is that of the file that was written.
AnnouncedIsHeld ==
    \A i \in DOMAIN remote["source"] : \A c \in remote["source"][i].has :
        \E j \in DOMAIN list["copy"] :
            /\ list["copy"][j].file.fileNum = remote["source"][i].file.fileNum
            /\ c \in list["copy"][j].has

\* A complete file has no byte after its end, but those of an older one.
LengthIsRight ==
    \A i \in DOMAIN list["copy"] :
        LET entry == list["copy"][i]
            name == entry.file.fileName
            left == UNION {DOMAIN old[name] : old \in {old \in Leftover : name \in DOMAIN old}}
        IN  entry.has = Chunks(entry.file) =>
                /\ DOMAIN Content[name] \subseteq DOMAIN store["copy"][name]
                /\ DOMAIN store["copy"][name] \subseteq DOMAIN Content[name] \cup left
=============================================================================
