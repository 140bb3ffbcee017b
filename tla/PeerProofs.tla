----------------------------- MODULE PeerProofs -----------------------------
(***************************************************************************)
(* Proofs about Peer, for any number of nodes, files and chunks: the types *)
(* of its variables, and that no look-up of a file can fail.               *)
(***************************************************************************)
EXTENDS Peer, OrdersProofs

LEMMA MaxType ==
    ASSUME NEW T \in SUBSET Int, IsFiniteSet(T), T # {}
    PROVE  Max(T) \in T /\ \A y \in T : Max(T) >= y
BY GreatestNumber DEF Max

-----------------------------------------------------------------------------
(***************************************************************************)
(* File lists.                                                             *)
(***************************************************************************)
FileInfos == [num : Nat, name : File, has : SUBSET Chunk]

\* Every variable is a function on the running nodes, which TypeOK does not say of all.
Shape ==
    /\ files = [n \in Running |-> files[n]]
    /\ numReq = [n \in Running |-> numReq[n]]
    /\ pending = [n \in Running |-> pending[n]]

TypeInv == TypeOK /\ Shape

\* What TypeInv says of the list that n keeps for m.
LEMMA ListTypes ==
    ASSUME TypeInv, NEW n \in Running, NEW m \in Node
    PROVE  /\ heap[n] \in Seq(FileInfos)
           /\ files[n][m] \in Seq(DOMAIN heap[n])
           /\ \A i \in DOMAIN files[n][m] : files[n][m][i] \in DOMAIN heap[n]
           /\ \A o \in DOMAIN heap[n] : heap[n][o] \in FileInfos
           /\ Listed(n, m) \subseteq DOMAIN heap[n]
           /\ NumsOf(n, m) \in SUBSET Nat
<1>1. /\ heap[n] \in Seq(FileInfos) /\ files[n][m] \in Seq(DOMAIN heap[n])
  BY DEF TypeInv, TypeOK, FileInfos
<1>2. \A i \in DOMAIN files[n][m] : files[n][m][i] \in DOMAIN heap[n]
  BY <1>1, ElementOfSeq, LenProperties
<1>3. \A o \in DOMAIN heap[n] : heap[n][o] \in FileInfos
  BY <1>1, ElementOfSeq, LenProperties
<1>4. Listed(n, m) \subseteq DOMAIN heap[n]
  BY <1>2 DEF Listed
<1>5. NumsOf(n, m) \in SUBSET Nat
  BY <1>3, <1>4 DEF NumsOf, FileInfos
<1> QED
  BY <1>1, <1>2, <1>3, <1>4, <1>5

\* getFileFromFileNumber() finds a file that is there.
LEMMA FileFound ==
    ASSUME TypeInv, NEW n \in Running, NEW m \in Node, NEW num \in NumsOf(n, m)
    PROVE  FileOf(n, m, num) \in Listed(n, m) /\ heap[n][FileOf(n, m, num)].num = num
<1> DEFINE At == {i \in DOMAIN files[n][m] : heap[n][files[n][m][i]].num = num}
           First(i) == /\ heap[n][files[n][m][i]].num = num
                       /\ \A j \in 1..(i - 1) : heap[n][files[n][m][j]].num # num
<1>1. DOMAIN files[n][m] = 1..Len(files[n][m]) /\ Len(files[n][m]) \in Nat
  BY ListTypes, LenProperties
<1>2. At \in SUBSET Nat /\ At # {}
  BY <1>1 DEF NumsOf, Listed
<1>3. PICK i \in At : \A j \in At : i <= j
  BY <1>2, LeastNumber
<1>4. i \in DOMAIN files[n][m] /\ First(i)
  <2>1. ASSUME NEW j \in 1..(i - 1), heap[n][files[n][m][j]].num = num PROVE FALSE
    <3>1. j \in At /\ j < i
      BY <1>1, <1>3, <2>1
    <3> QED
      BY <1>2, <1>3, <3>1
  <2> QED
    BY <1>3, <2>1
<1> DEFINE k == CHOOSE k \in DOMAIN files[n][m] : First(k)
<1>5. k \in DOMAIN files[n][m] /\ First(k)
  BY <1>4
<1>6. FileOf(n, m, num) = files[n][m][k]
  BY DEF FileOf
<1> QED
  BY <1>5, <1>6 DEF Listed

LEMMA NumsOfFinite ==
    ASSUME TypeInv, NEW n \in Running, NEW m \in Node
    PROVE  IsFiniteSet(NumsOf(n, m))
<1> DEFINE D == 1..Len(files[n][m])
           f == [i \in D |-> heap[n][files[n][m][i]].num]
<1>1. DOMAIN files[n][m] = D /\ Len(files[n][m]) \in Nat
  BY ListTypes, LenProperties
<1>2. f \in Surjection(D, NumsOf(n, m))
  BY <1>1 DEF Surjection, NumsOf, Listed
<1>3. IsFiniteSet(D)
  <2>1. 1 \in Int /\ Len(files[n][m]) \in Int
    BY <1>1
  <2> QED
    BY <2>1, FS_Interval
<1> QED
  BY <1>2, <1>3, FS_Surjection

\* The number of a new file is one that no file of n has.
LEMMA NextNumIsNew ==
    ASSUME TypeInv, NEW n \in Running
    PROVE  NextNum(n) \in Nat /\ NextNum(n) \notin NumsOf(n, n)
<1> DEFINE T == NumsOf(n, n) \cup {-1}
<1>1. NumsOf(n, n) \in SUBSET Nat
  BY ListTypes, PeerAssumption
<1>2. IsFiniteSet(T)
  BY NumsOfFinite, FS_AddElement, PeerAssumption
<1>3. T \in SUBSET Int /\ T # {}
  BY <1>1
<1>4. Max(T) \in T /\ \A y \in T : Max(T) >= y
  <2> HIDE DEF T
  <2> QED
    BY <1>2, <1>3, MaxType
<1>5. Max(T) + 1 \in Nat /\ Max(T) + 1 \notin NumsOf(n, n)
  BY <1>1, <1>4
<1> QED
  BY <1>5 DEF NextNum


-----------------------------------------------------------------------------
(***************************************************************************)
(* Frames and sessions.                                                    *)
(***************************************************************************)
Entries == [num : Nat, name : File]
Queues == [Running -> [Node -> Seq(Frames)]]

LEMMA FrameFields ==
    ASSUME NEW f \in Frames
    PROVE  /\ f.type = "FILE_LIST" => f.list \in Seq(Entries)
           /\ f.type = "CHUNK_INFO" => f.nums \in SUBSET Nat
           /\ f.type = "NEW_FILE_AVAILABLE" => f.num \in Nat /\ f.name \in File /\ f.src \in Running
           /\ f.type = "NEW_CHUNK_AVAILABLE" => f.num \in Nat /\ f.chunk \in Chunk /\ f.src \in Running
           /\ f.type = "CHUNK_REQUEST" => f.num \in Nat /\ f.chunk \in Chunk
           /\ f.type = "CHUNK" =>
                f.num \in Nat /\ f.chunk \in Chunk /\ f.data \in File \cup {Garbage}
           /\ f.type \in {"PEER_JOIN_NOTIFICATION", "PEER_LEAVE_NOTIFICATION"} => f.src \in Running
  BY DEF Frames, Entries

LEMMA OrphanFields ==
    ASSUME NEW f \in Frames
    PROVE  LET o == [f EXCEPT !.orphan = TRUE]
           IN  /\ o \in Frames /\ o.type = f.type
               /\ f.type \in {"PEER_JOIN_NOTIFICATION", "PEER_LEAVE_NOTIFICATION"} => o.src = f.src
               /\ f.type \in {"CHUNK_REQUEST", "CHUNK"} => o.num = f.num
               /\ f.type = "NEW_FILE_AVAILABLE" =>
                    o.num = f.num /\ o.name = f.name /\ o.src = f.src
               /\ f.type = "NEW_CHUNK_AVAILABLE" =>
                    o.num = f.num /\ o.chunk = f.chunk /\ o.src = f.src
               /\ f.type = "CHUNK" => o.chunk = f.chunk /\ o.data = f.data
  BY DEF Frames

\* What is at the front of a queue, and what is behind it.
LEMMA QueueTypes ==
    ASSUME TypeInv, NEW n \in Running, NEW m \in Node
    PROVE  /\ req[n][m] \in Seq(Frames) /\ rep[n][m] \in Seq(Frames)
           /\ req[n][m] # <<>> => Head(req[n][m]) \in Frames /\ Tail(req[n][m]) \in Seq(Frames)
           /\ rep[n][m] # <<>> => Head(rep[n][m]) \in Frames /\ Tail(rep[n][m]) \in Seq(Frames)
<1>1. req[n][m] \in Seq(Frames) /\ rep[n][m] \in Seq(Frames)
  BY DEF TypeInv, TypeOK
<1> QED
  BY <1>1, HeadTailProperties

\* What becomes of the views of n, and where the frames go.
Sent(n, out, views, frames) ==
    /\ \A s \in Running : s # n => /\ state'[s] = state[s] /\ req'[s] = frames[s]
                                  /\ link'[s] = link[s]
    /\ \A m \in Node : /\ out[m] = <<>> \/ Connects(n, m) => state'[n][m] = views[m]
                       /\ state'[n][m] # views[m] => state'[n][m] = "OFFLINE" /\ ~Listening(m)
                       /\ \/ req'[n][m] = frames[n][m]
                          \/ Connects(n, m) /\ req'[n][m] = frames[n][m] \o out[m]
                       /\ Connects(n, m) /\ link[n][m] # "closing" =>
                            req'[n][m] = frames[n][m] \o out[m]
                       /\ link'[n][m] = link[n][m] \/ (link'[n][m] = "open" /\ Listening(m))

\* sendFrame(): the types, and the above.
LEMMA SendFramesFacts ==
    ASSUME TypeInv, NEW n \in Running, NEW out \in [Node -> Seq(Frames)],
           NEW views \in [Node -> State], NEW frames \in Queues,
           SendFrames(n, out, views, frames)
    PROVE  /\ state' \in [Running -> [Node -> State]]
           /\ link' \in [Running -> [Node -> {"none", "open", "closing"}]]
           /\ req' \in Queues
           /\ Sent(n, out, views, frames)
<1> DEFINE views2 == [m \in Node |->
                        IF out[m] # <<>> /\ ~Connects(n, m) THEN "OFFLINE" ELSE views[m]]
<1>1. /\ state \in [Running -> [Node -> State]]
      /\ link \in [Running -> [Node -> {"none", "open", "closing"}]]
  BY DEF TypeInv, TypeOK
<1>2. views2 \in [Node -> State]
  BY DEF State
<1>3. LinksAfter(n, out) \in [Node -> {"none", "open", "closing"}]
  BY <1>1 DEF LinksAfter
<1>4. \A m \in Node : frames[n][m] \in Seq(Frames) /\ frames[n][m] \o out[m] \in Seq(Frames)
  BY ConcatProperties DEF Queues
<1>5. RequestsAfter(n, out, frames) \in [Node -> Seq(Frames)]
  BY <1>4 DEF RequestsAfter
<1>6. /\ state' = [state EXCEPT ![n] = views2]
      /\ link' = [link EXCEPT ![n] = LinksAfter(n, out)]
      /\ req' = [frames EXCEPT ![n] = RequestsAfter(n, out, frames)]
  BY DEF SendFrames
<1>7. req' \in Queues
  BY <1>5, <1>6 DEF Queues
<1>8. state'[n] = views2 /\ req'[n] = RequestsAfter(n, out, frames)
  BY <1>1, <1>6 DEF Queues
<1>9. \A m \in Node : state'[n][m] # views[m] => state'[n][m] = "OFFLINE" /\ ~Listening(m)
  BY <1>8 DEF Connects
<1>10. \A m \in Node : out[m] = <<>> \/ Connects(n, m) => state'[n][m] = views[m]
  BY <1>8
<1>11. \A m \in Node : /\ \/ req'[n][m] = frames[n][m]
                          \/ Connects(n, m) /\ req'[n][m] = frames[n][m] \o out[m]
                       /\ Connects(n, m) /\ link[n][m] # "closing" =>
                            req'[n][m] = frames[n][m] \o out[m]
  BY <1>8 DEF RequestsAfter
<1>12. \A s \in Running : s # n => /\ state'[s] = state[s] /\ req'[s] = frames[s]
                                  /\ link'[s] = link[s]
  <2> HIDE DEF views2
  <2> QED
    BY <1>1, <1>6 DEF Queues
<1>13. /\ state' \in [Running -> [Node -> State]]
       /\ link' \in [Running -> [Node -> {"none", "open", "closing"}]]
  <2> HIDE DEF views2
  <2> QED
    BY <1>1, <1>2, <1>3, <1>6
<1>14. \A m \in Node : link'[n][m] = link[n][m] \/ (link'[n][m] = "open" /\ Listening(m))
  <2>1. link'[n] = LinksAfter(n, out)
    <3> HIDE DEF views2
    <3> QED
      BY <1>1, <1>6
  <2> QED
    BY <2>1 DEF LinksAfter
<1>15. Sent(n, out, views, frames)
  BY <1>9, <1>10, <1>11, <1>12, <1>14 DEF Sent
<1> QED
  BY <1>7, <1>13, <1>15

-----------------------------------------------------------------------------
(***************************************************************************)
(* Types, step by step.                                                    *)
(***************************************************************************)
States == [Running -> [Node -> State]]
Links == [Running -> [Node -> {"none", "open", "closing"}]]

\* The types but for those of the files.
NetTypes ==
    /\ life \in [Running -> Life]
    /\ cli \in [Running -> [at : {"ready", "init", "mark"}, i : 0..MaxPeers]]
    /\ state \in States
    /\ link \in Links
    /\ req \in Queues
    /\ rep \in Queues

LEMMA NetTypesFact == TypeInv => NetTypes
  BY DEF TypeInv, TypeOK, NetTypes, States, Links, Queues

\* A step that changes no file needs only care for the rest.
LEMMA FilesUnchanged ==
    ASSUME TypeInv, NetTypes', UNCHANGED <<fileVars, pending>>
    PROVE  TypeInv'
  BY DEF TypeInv, TypeOK, Shape, NetTypes, States, Links, Queues, fileVars

LEMMA DieTypes ==
    ASSUME NetTypes, NEW n \in Running, Die(n)
    PROVE  life' \in [Running -> Life] /\ link' \in Links
  BY DEF Die, NetTypes, Links, Life

LEMMA HandledTypes ==
    ASSUME TypeInv, NEW n \in Running, NEW m \in Running, req[m][n] # <<>>
    PROVE  Handled(n, m) \in Queues
<1>1. Tail(req[m][n]) \in Seq(Frames) /\ n \in Node
  BY QueueTypes, PeerAssumption
<1> QED
  BY <1>1, NetTypesFact DEF Handled, NetTypes, Queues

LEMMA TakeReplyTypes ==
    ASSUME TypeInv, NEW n \in Running, NEW m \in Running, rep[n][m] # <<>>, TakeReply(n, m)
    PROVE  rep' \in Queues
<1>1. Tail(rep[n][m]) \in Seq(Frames) /\ m \in Node
  BY QueueTypes, PeerAssumption
<1> QED
  BY <1>1, NetTypesFact DEF TakeReply, NetTypes, Queues

LEMMA PutReplyTypes ==
    ASSUME TypeInv, NEW n \in Running, NEW m \in Running, NEW f \in Frames, PutReply(n, m, f)
    PROVE  rep' \in Queues
<1>1. Append(rep[m][n], f) \in Seq(Frames) /\ n \in Node
  BY QueueTypes, AppendProperties, PeerAssumption
<1> QED
  BY <1>1, NetTypesFact DEF PutReply, NetTypes, Queues

LEMMA BroadcastTypes ==
    ASSUME NEW n, NEW f \in Frames, NEW views
    PROVE  /\ Broadcast(n, f, views) \in [Node -> Seq(Frames)]
           /\ \A m \in Node : Broadcast(n, f, views)[m] \in {<<>>, <<f>>}
           /\ \A m \in Node : Broadcast(n, f, views)[m] # <<>> => m # n /\ views[m] = "ONLINE"
  BY DEF Broadcast

\* The frames that carry nothing but their type.
LEMMA PlainFrames ==
    ASSUME NEW t \in {"HANDSHAKE_REQUEST", "HANDSHAKE_RESPONSE", "FILE_LIST_REQUEST",
                      "CHUNK_INFO_REQUEST"}
    PROVE  Frame(t) \in Frames
  BY DEF Frame, Frames

\* A frame for one peer only.
LEMMA OneFrameTypes ==
    ASSUME NEW m, NEW f \in Frames
    PROVE  /\ [NoFrames EXCEPT ![m] = <<f>>] \in [Node -> Seq(Frames)]
           /\ \A p \in Node : [NoFrames EXCEPT ![m] = <<f>>][p] = IF p = m THEN <<f>> ELSE <<>>
<1>1. <<f>> \in Seq(Frames) /\ <<>> \in Seq(Frames)
  OBVIOUS
<1> QED
  BY <1>1 DEF NoFrames

LEMMA PeerFacts ==
    ASSUME NEW n \in Running
    PROVE  /\ n \in Node /\ MaxPeers \in Nat \ {0}
           /\ \A i \in 0..(MaxPeers - 1) : PeerAt[n][i] \in Node
<1>1. n \in Node /\ IsFiniteSet(Node)
  BY PeerAssumption
<1>2. MaxPeers \in Nat /\ MaxPeers # 0
  BY <1>1, FS_CardinalityType, FS_EmptySet DEF MaxPeers
<1> QED
  BY <1>1, <1>2, PeerAssumption

LEMMA CommandTypes ==
    ASSUME TypeInv, NEW n \in Running,
           \/ Join(n) \/ FinishInit(n) \/ MarkNextPeer(n) \/ ReturnFromJoin(n)
           \/ Quit(n) \/ StopServer(n)
    PROVE  TypeInv'
<1> USE NetTypesFact, PeerFacts
<1>1. CASE Join(n)
  BY <1>1, FilesUnchanged DEF Join, NetTypes, States, State, Life
<1>2. CASE FinishInit(n)
  BY <1>2, FilesUnchanged DEF FinishInit, NetTypes, States, State
<1>3. CASE MarkNextPeer(n)
  BY <1>3, FilesUnchanged DEF MarkNextPeer, NetTypes
<1>4. CASE ReturnFromJoin(n)
  BY <1>4, FilesUnchanged DEF ReturnFromJoin, NetTypes
<1>5. CASE Quit(n)
  BY <1>5, FilesUnchanged, DieTypes DEF Quit, NetTypes
<1>6. CASE StopServer(n)
  BY <1>6, FilesUnchanged DEF StopServer, NetTypes, Life
<1> QED
  BY <1>1, <1>2, <1>3, <1>4, <1>5, <1>6

LEMMA InitRemotePeerTypes ==
    ASSUME TypeInv, NEW n \in Running, InitRemotePeer(n)
    PROVE  TypeInv'
<1> USE NetTypesFact, PeerFacts
<1>1. cli[n].i \in 0..(MaxPeers - 1) /\ cli' \in [Running -> [at : {"ready", "init", "mark"}, i : 0..MaxPeers]]
  BY DEF InitRemotePeer, NetTypes
<1>2. PICK m \in Node : m = PeerAt[n][cli[n].i]
  BY <1>1
<1>3. PICK out \in [Node -> Seq(Frames)] :
          out = [NoFrames EXCEPT ![m] = <<Frame("HANDSHAKE_REQUEST")>>]
  BY PlainFrames, OneFrameTypes
<1>4. PICK views \in [Node -> State] :
          views = [state[n] EXCEPT ![m] = "WAITING_FOR_HANDSHAKE"]
  BY DEF NetTypes, States, State
<1>5. SendFrames(n, out, views, req) /\ req \in Queues
  BY <1>2, <1>3, <1>4 DEF InitRemotePeer, NetTypes
<1>6. state' \in States /\ link' \in Links /\ req' \in Queues
  BY <1>5, SendFramesFacts DEF States, Links
<1> QED
  BY <1>1, <1>6, FilesUnchanged DEF InitRemotePeer, NetTypes

LEMMA MarkFileTypes ==
    ASSUME TypeInv, NEW n \in Running, MarkFile(n)
    PROVE  TypeInv'
<1>1. PICK m, x : info' = [info EXCEPT ![n][m] = @ \ {x}]
  BY DEF MarkFile
<1>2. info' \in [Running -> [Node -> SUBSET Nat]]
  <2>1. info \in [Running -> [Node -> SUBSET Nat]]
    BY DEF TypeInv, TypeOK
  <2>2. [info[n] EXCEPT ![m] = @ \ {x}] \in [Node -> SUBSET Nat]
    BY <2>1
  <2> QED
    BY <1>1, <2>1, <2>2
<1> QED
  BY <1>2 DEF MarkFile, TypeInv, TypeOK, Shape

LEMMA LeaveTypes ==
    ASSUME TypeInv, NEW n \in Running, Leave(n)
    PROVE  TypeInv'
<1> USE NetTypesFact, PeerFacts
<1>1. PICK f \in Frames : f = [type |-> "PEER_LEAVE_NOTIFICATION", orphan |-> FALSE, src |-> n]
  BY DEF Frames
<1>2. PICK out \in [Node -> Seq(Frames)] : out = Broadcast(n, f, state[n])
  BY BroadcastTypes
<1>3. RequestsAfter(n, out, req) \in [Node -> Seq(Frames)]
  <2>1. \A m \in Node : req[n][m] \in Seq(Frames) /\ req[n][m] \o out[m] \in Seq(Frames)
    BY ConcatProperties DEF NetTypes, Queues
  <2> QED
    BY <2>1 DEF RequestsAfter
<1>4. req' \in Queues
  BY <1>1, <1>2, <1>3 DEF Leave, NetTypes, Queues
<1>5. state' \in States
  <2>1. ViewsOfLeaver(n) \in [Node -> State]
    BY DEF ViewsOfLeaver, NetTypes, States, State
  <2> QED
    BY <2>1 DEF Leave, NetTypes, States
<1>6. life' \in [Running -> Life]
  BY DEF Leave, NetTypes, Life
<1>7. link' \in Links
  BY DEF Leave, NetTypes, Links
<1> QED
  BY <1>4, <1>5, <1>6, <1>7, FilesUnchanged DEF Leave, NetTypes

-----------------------------------------------------------------------------
(***************************************************************************)
(* Types: the handlers that change no file.                                *)
(***************************************************************************)

\* Type of a list of files as it is sent.
LEMMA OnFileListRequestTypes ==
    ASSUME TypeInv, NEW n \in Running, NEW m \in Running, OnFileListRequest(n, m)
    PROVE  TypeInv'
<1> USE NetTypesFact, PeerFacts
<1>1. Handled(n, m) \in Queues
  BY HandledTypes DEF OnFileListRequest, Request
<1>2. CASE Head(req[m][n]).orphan
  BY <1>1, <1>2, FilesUnchanged DEF OnFileListRequest, NetTypes
<1>3. CASE ~Head(req[m][n]).orphan
  <2> DEFINE entry(i) == LET o == heap[n][files[n][n][i]] IN [num |-> o.num, name |-> o.name]
             list == [i \in DOMAIN files[n][n] |-> entry(i)]
  <2>1. \A i \in DOMAIN files[n][n] : entry(i) \in Entries
    BY ListTypes DEF Entries, FileInfos
  <2>2. DOMAIN files[n][n] = 1..Len(files[n][n]) /\ Len(files[n][n]) \in Nat
    BY ListTypes, LenProperties
  <2>3. list \in Seq(Entries)
    <3> HIDE DEF entry
    <3> QED
      BY <2>1, <2>2
  <2>4. PICK f \in Frames : f = [type |-> "FILE_LIST", orphan |-> FALSE, list |-> list]
    <3> HIDE DEF list
    <3> QED
      BY <2>3 DEF Frames, Entries
  <2>5. PutReply(n, m, f)
    BY <1>3, <2>4 DEF OnFileListRequest
  <2> QED
    BY <1>1, <2>5, PutReplyTypes, FilesUnchanged DEF OnFileListRequest, NetTypes
<1> QED
  BY <1>2, <1>3

LEMMA OnChunkInfoRequestTypes ==
    ASSUME TypeInv, NEW n \in Running, NEW m \in Running, OnChunkInfoRequest(n, m)
    PROVE  TypeInv'
<1> USE NetTypesFact, PeerFacts
<1>1. Handled(n, m) \in Queues
  BY HandledTypes DEF OnChunkInfoRequest, Request
<1>2. CASE Head(req[m][n]).orphan
  BY <1>1, <1>2, DieTypes, FilesUnchanged DEF OnChunkInfoRequest, NetTypes
<1>3. CASE ~Head(req[m][n]).orphan
  <2>1. \A s \in SUBSET Nat : [type |-> "CHUNK_INFO", orphan |-> FALSE, nums |-> s] \in Frames
    BY DEF Frames
  <2>2. NumsOf(n, n) \in SUBSET Nat /\ NumsOf(n, n) \cup {0} \in SUBSET Nat
    BY ListTypes
  <2>3. PICK f \in Frames : PutReply(n, m, f)
    BY <1>3, <2>1, <2>2 DEF OnChunkInfoRequest
  <2> QED
    BY <1>1, <1>3, <2>3, PutReplyTypes, FilesUnchanged DEF OnChunkInfoRequest, NetTypes
<1> QED
  BY <1>2, <1>3

LEMMA AnswerTypes ==
    ASSUME TypeInv, NEW n \in Running, NEW f \in Frames, f.type = "CHUNK_REQUEST",
           f.num \in NumsOf(n, n)
    PROVE  Answer(n, f) \in Frames
<1>1. f.num \in Nat /\ f.chunk \in Chunk
  BY FrameFields
<1>2. FileOf(n, n, f.num) \in DOMAIN heap[n]
  BY FileFound, ListTypes, PeerFacts
<1>3. heap[n][FileOf(n, n, f.num)].name \in File
  BY <1>2, ListTypes, PeerFacts DEF FileInfos
<1>4. disk[n][heap[n][FileOf(n, n, f.num)].name][f.chunk] \in File \cup {Garbage}
  BY <1>1, <1>3 DEF TypeInv, TypeOK
<1>5. ChunkFrame("CHUNK_REQUEST_DECLINE", f.num, f.chunk) \in Frames
  BY <1>1 DEF ChunkFrame, Frames
<1>6. \A d \in File \cup {Garbage} :
         [type |-> "CHUNK", orphan |-> FALSE, num |-> f.num, chunk |-> f.chunk, data |-> d] \in Frames
  BY <1>1 DEF Frames
<1> QED
  BY <1>4, <1>5, <1>6 DEF Answer

LEMMA OnChunkRequestTypes ==
    ASSUME TypeInv, NEW n \in Running, NEW m \in Running, OnChunkRequest(n, m)
    PROVE  TypeInv'
<1> USE NetTypesFact, PeerFacts
<1>1. Handled(n, m) \in Queues
  BY HandledTypes DEF OnChunkRequest, Request
<1>2. PICK f \in Frames : f = Head(req[m][n]) /\ f.type = "CHUNK_REQUEST"
  BY QueueTypes DEF OnChunkRequest, Request
<1>3. CASE f.num \notin NumsOf(n, n)
  BY <1>1, <1>2, <1>3, FilesUnchanged DEF OnChunkRequest, NetTypes
<1>4. CASE f.num \in NumsOf(n, n) /\ f.orphan
  BY <1>1, <1>2, <1>4, DieTypes, FilesUnchanged DEF OnChunkRequest, NetTypes
<1>5. CASE f.num \in NumsOf(n, n) /\ ~f.orphan
  <2>1. PutReply(n, m, Answer(n, f)) /\ UNCHANGED <<life, link>>
    BY <1>2, <1>5 DEF OnChunkRequest
  <2>2. rep' \in Queues
    BY <1>2, <1>5, <2>1, AnswerTypes, PutReplyTypes
  <2> QED
    BY <1>1, <2>1, <2>2, FilesUnchanged DEF OnChunkRequest, NetTypes
<1> QED
  BY <1>3, <1>4, <1>5

LEMMA OnHandshakeTypes ==
    ASSUME TypeInv, NEW n \in Running, NEW m \in Running,
           OnHandshakeRequest(n, m) \/ OnHandshakeResponse(n, m)
    PROVE  TypeInv'
<1> USE NetTypesFact, PeerFacts
<1>1. CASE OnHandshakeRequest(n, m)
  <2>1. Handled(n, m) \in Queues
    BY <1>1, HandledTypes DEF OnHandshakeRequest, Request
  <2>2. rep' \in Queues
    BY <1>1, PlainFrames, PutReplyTypes DEF OnHandshakeRequest, NetTypes
  <2> QED
    BY <1>1, <2>1, <2>2, FilesUnchanged DEF OnHandshakeRequest, NetTypes
<1>2. CASE OnHandshakeResponse(n, m)
  <2>1. rep' \in Queues
    BY <1>2, TakeReplyTypes DEF OnHandshakeResponse, Reply
  <2>2. PICK views \in [Node -> State] : views = [state[n] EXCEPT ![m] = "ONLINE"]
    BY DEF NetTypes, States, State
  <2>3. PICK out \in [Node -> Seq(Frames)] : out = Broadcast(n, Frame("FILE_LIST_REQUEST"), views)
    BY PlainFrames, BroadcastTypes
  <2>4. PICK views2 \in [Node -> State] : views2 = [views EXCEPT ![n] = "WAITING_FOR_FILE_LIST"]
    BY DEF State
  <2>5. \/ SendFrames(n, out, views2, req)
        \/ state' = [state EXCEPT ![n] = views] /\ UNCHANGED <<link, req>>
    BY <1>2, <2>2, <2>3, <2>4 DEF OnHandshakeResponse
  <2>6. state' \in States /\ link' \in Links /\ req' \in Queues
    BY <2>5, SendFramesFacts DEF States, Links, NetTypes
  <2> QED
    BY <1>2, <2>1, <2>6, FilesUnchanged DEF OnHandshakeResponse, NetTypes
<1> QED
  BY <1>1, <1>2

LEMMA OnNotificationTypes ==
    ASSUME TypeInv, NEW n \in Running, NEW m \in Running,
           OnJoinNotification(n, m) \/ OnLeaveNotification(n, m)
    PROVE  TypeInv'
<1> USE NetTypesFact, PeerFacts
<1>1. Handled(n, m) \in Queues
  BY HandledTypes DEF OnJoinNotification, OnLeaveNotification, Request
<1>2. state' \in States
  <2>1. PICK x \in State : \E y : state' = [state EXCEPT ![n][y] = x]
    BY DEF OnJoinNotification, OnLeaveNotification, State
  <2>2. PICK p : state' = [state EXCEPT ![n][p] = x]
    BY <2>1
  <2>3. [state[n] EXCEPT ![p] = x] \in [Node -> State]
    BY DEF NetTypes, States
  <2> QED
    BY <2>2, <2>3 DEF NetTypes, States
<1> QED
  BY <1>1, <1>2, FilesUnchanged DEF OnJoinNotification, OnLeaveNotification, NetTypes

LEMMA OnChunkRequestDeclineTypes ==
    ASSUME TypeInv, NEW n \in Running, NEW m \in Running, OnChunkRequestDecline(n, m)
    PROVE  TypeInv'
BY TakeReplyTypes, NetTypesFact, FilesUnchanged DEF OnChunkRequestDecline, Reply, NetTypes

\* What is left of a session that ends.
LEMMA EndSessionTypes ==
    ASSUME TypeInv, NEW n \in Running, NEW m \in Running, EndSession(n, m)
    PROVE  TypeInv'
<1> USE NetTypesFact, PeerFacts
<1>1. PICK k \in 0..Len(req[n][m]), j \in 0..Len(rep[n][m]) :
         /\ req' = [req EXCEPT ![n][m] = [i \in 1..k |-> [@[i] EXCEPT !.orphan = TRUE]]]
         /\ rep' = [rep EXCEPT ![n][m] = SubSeq(@, 1, j)]
  BY DEF EndSession
<1>2. /\ req[n][m] \in Seq(Frames) /\ rep[n][m] \in Seq(Frames)
      /\ Len(req[n][m]) \in Nat /\ Len(rep[n][m]) \in Nat
  BY QueueTypes, LenProperties
<1>3. [i \in 1..k |-> [req[n][m][i] EXCEPT !.orphan = TRUE]] \in Seq(Frames)
  <2>1. \A i \in 1..k : req[n][m][i] \in Frames
    BY <1>2, ElementOfSeq
  <2> DEFINE orphan(i) == [req[n][m][i] EXCEPT !.orphan = TRUE]
  <2>2. \A i \in 1..k : orphan(i) \in Frames
    BY <2>1, OrphanFields
  <2>3. k \in Nat
    BY <1>2
  <2> HIDE DEF orphan
  <2>4. [i \in 1..k |-> orphan(i)] \in Seq(Frames)
    BY <2>2, <2>3
  <2> QED
    BY <2>4 DEF orphan
<1>4. SubSeq(rep[n][m], 1, j) \in Seq(Frames)
  <2>1. \A i \in 1..j : rep[n][m][i] \in Frames
    BY <1>2, ElementOfSeq
  <2> QED
    BY <1>2, <2>1, SubSeqProperties
<1>5. req' \in Queues /\ rep' \in Queues
  BY <1>1, <1>3, <1>4 DEF NetTypes, Queues
<1>6. link' \in Links
  BY DEF EndSession, NetTypes, Links
<1> QED
  BY <1>5, <1>6, FilesUnchanged DEF EndSession, NetTypes

-----------------------------------------------------------------------------
(***************************************************************************)
(* Files and their numbers.                                                *)
(***************************************************************************)
HeapTypes ==
    /\ heap \in [Running -> Seq(FileInfos)]
    /\ files = [n \in Running |-> files[n]]
    /\ \A n \in Running : files[n] \in [Node -> Seq(DOMAIN heap[n])]

CounterTypes ==
    /\ numReq = [n \in Running |-> numReq[n]]
    /\ \A n \in Running : /\ DOMAIN numReq[n] \subseteq Nat
                          /\ \A num \in DOMAIN numReq[n] : numReq[n][num] \in Int

PendingTypes ==
    /\ pending = [n \in Running |-> pending[n]]
    /\ \A n \in Running : pending[n] \in DOMAIN numReq[n] \cup {NoFile}

InfoTypes == info \in [Running -> [Node -> SUBSET Nat]]
DiskTypes == disk \in [Running -> [File -> [Chunk -> File \cup {Garbage}]]]

LEMMA TypeParts ==
    TypeInv <=> /\ NetTypes /\ HeapTypes /\ CounterTypes /\ PendingTypes
                /\ InfoTypes /\ DiskTypes
BY DEF TypeInv, TypeOK, Shape, NetTypes, HeapTypes, CounterTypes, PendingTypes, InfoTypes,
       DiskTypes, States, Links, Queues, FileInfos

LEMMA PartsType ==
    ASSUME NetTypes', HeapTypes', CounterTypes', PendingTypes', InfoTypes', DiskTypes'
    PROVE  TypeInv'
BY DEF TypeInv, TypeOK, Shape, NetTypes, HeapTypes, CounterTypes, PendingTypes, InfoTypes,
       DiskTypes, States, Links, Queues, FileInfos

\* Each file of another node, and each one that n may ask for, n has in its own list.
Known ==
    \A n \in Running : /\ \A m \in Node : NumsOf(n, m) \subseteq NumsOf(n, n)
                       /\ DOMAIN numReq[n] \subseteq NumsOf(n, n)

\* Nothing that was queued for download is forgotten.
CountersKept == \A n \in Running : DOMAIN numReq[n] \subseteq DOMAIN numReq'[n]

\* No file is lost from the list of the node itself.
NumsGrow == \A n \in Running : NumsOf(n, n) \subseteq NumsOf(n, n)'

\* The numbers of the objects of h that list l refers to.
NumsIn(h, l) == {h[l[i]].num : i \in DOMAIN l}

LEMMA NumsOfIsNumsIn == \A n, m : NumsOf(n, m) = NumsIn(heap[n], files[n][m])
BY DEF NumsOf, Listed, NumsIn

\* The objects of n become h, its lists fl.
LEMMA ListStep ==
    ASSUME TypeInv, NEW n \in Running, NEW h \in Seq(FileInfos),
           NEW fl \in [Node -> Seq(DOMAIN h)],
           heap' = [heap EXCEPT ![n] = h], files' = [files EXCEPT ![n] = fl]
    PROVE  /\ HeapTypes'
           /\ \A m \in Node : NumsOf(n, m)' = NumsIn(h, fl[m])
           /\ \A s \in Running \ {n}, m \in Node : NumsOf(s, m)' = NumsOf(s, m)
<1>1. HeapTypes
  BY TypeParts
<1>2. /\ heap'[n] = h /\ files'[n] = fl
      /\ \A s \in Running \ {n} : heap'[s] = heap[s] /\ files'[s] = files[s]
  BY <1>1 DEF HeapTypes
<1>3. HeapTypes'
  <2>1. heap' \in [Running -> Seq(FileInfos)]
    BY <1>1 DEF HeapTypes
  <2>2. files' = [s \in Running |-> files'[s]]
    BY <1>1 DEF HeapTypes
  <2>3. \A s \in Running : files'[s] \in [Node -> Seq(DOMAIN heap'[s])]
    BY <1>1, <1>2 DEF HeapTypes
  <2> QED
    BY <2>1, <2>2, <2>3 DEF HeapTypes
<1>4. \A m \in Node : NumsOf(n, m)' = NumsIn(h, fl[m])
  BY <1>2 DEF NumsOf, Listed, NumsIn
<1>5. \A s \in Running \ {n}, m \in Node : NumsOf(s, m)' = NumsOf(s, m)
  BY <1>2 DEF NumsOf, Listed
<1> QED
  BY <1>3, <1>4, <1>5

\* h holds all objects of n, the marks aside.
Keeps(n, h) ==
    /\ h \in Seq(FileInfos)
    /\ DOMAIN heap[n] \subseteq DOMAIN h
    /\ \A o \in DOMAIN heap[n] : h[o].num = heap[n][o].num

\* A list with the objects in ex behind it.
LEMMA ListGrows ==
    ASSUME TypeInv, NEW n \in Running, NEW m \in Node, NEW h, Keeps(n, h),
           NEW ex \in Seq(DOMAIN h)
    PROVE  /\ files[n][m] \o ex \in Seq(DOMAIN h)
           /\ NumsIn(h, files[n][m] \o ex) = NumsOf(n, m) \cup NumsIn(h, ex)
<1>1. PICK l \in Seq(DOMAIN heap[n]) : l = files[n][m]
  BY ListTypes
<1>2. l \in Seq(DOMAIN h) /\ l \o ex \in Seq(DOMAIN h)
  BY SeqMonotonic, ConcatProperties DEF Keeps
<1>3. /\ Len(l) \in Nat /\ DOMAIN l = 1..Len(l) /\ Len(ex) \in Nat /\ DOMAIN ex = 1..Len(ex)
      /\ DOMAIN (l \o ex) = 1..(Len(l) + Len(ex))
      /\ \A i \in 1..(Len(l) + Len(ex)) : (l \o ex)[i] = IF i <= Len(l) THEN l[i] ELSE ex[i - Len(l)]
  BY <1>2, LenProperties, ConcatProperties
<1>4. \A i \in DOMAIN l : h[l[i]].num = heap[n][l[i]].num
  BY <1>3, ElementOfSeq DEF Keeps
<1>5. NumsOf(n, m) = NumsIn(h, l)
  BY <1>1, <1>4 DEF NumsOf, Listed, NumsIn
<1> DEFINE both == l \o ex
<1>6. \A i \in DOMAIN both : (i \in DOMAIN l /\ both[i] = l[i])
                             \/ (i - Len(l) \in DOMAIN ex /\ both[i] = ex[i - Len(l)])
  BY <1>3
<1>7. \A i \in DOMAIN l : i \in DOMAIN both /\ both[i] = l[i]
  BY <1>3
<1>8. \A i \in DOMAIN ex : i + Len(l) \in DOMAIN both /\ both[i + Len(l)] = ex[i]
  BY <1>3
<1> HIDE DEF both
<1>9. NumsIn(h, both) = NumsIn(h, l) \cup NumsIn(h, ex)
  BY <1>6, <1>7, <1>8 DEF NumsIn
<1> QED
  BY <1>1, <1>2, <1>5, <1>9 DEF both

LEMMA ListKept ==
    ASSUME TypeInv, NEW n \in Running, NEW m \in Node, NEW h, Keeps(n, h)
    PROVE  files[n][m] \in Seq(DOMAIN h) /\ NumsIn(h, files[n][m]) = NumsOf(n, m)
<1>1. files[n][m] \in Seq(DOMAIN heap[n])
  BY ListTypes
<1>2. files[n][m] \in Seq(DOMAIN h)
  BY <1>1, SeqMonotonic DEF Keeps
<1>3. \A i \in DOMAIN files[n][m] : h[files[n][m][i]].num = heap[n][files[n][m][i]].num
  BY ListTypes DEF Keeps
<1> QED
  BY <1>2, <1>3 DEF NumsOf, Listed, NumsIn

\* New objects behind the old ones.
LEMMA ObjectsAppended ==
    ASSUME TypeInv, NEW n \in Running, NEW x \in Seq(FileInfos)
    PROVE  /\ Keeps(n, heap[n] \o x)
           /\ Len(heap[n]) \in Nat /\ Len(x) \in Nat
           /\ DOMAIN (heap[n] \o x) = 1..(Len(heap[n]) + Len(x))
           /\ \A i \in 1..Len(x) : (heap[n] \o x)[Len(heap[n]) + i] = x[i]
<1>1. heap[n] \in Seq(FileInfos)
  BY ListTypes, PeerFacts
<1>2. /\ heap[n] \o x \in Seq(FileInfos) /\ DOMAIN heap[n] = 1..Len(heap[n])
      /\ Len(heap[n]) \in Nat /\ Len(x) \in Nat
      /\ DOMAIN (heap[n] \o x) = 1..(Len(heap[n]) + Len(x))
      /\ \A i \in 1..(Len(heap[n]) + Len(x)) :
           (heap[n] \o x)[i] = IF i <= Len(heap[n]) THEN heap[n][i] ELSE x[i - Len(heap[n])]
  BY <1>1, ConcatProperties, LenProperties
<1>3. \A i \in 1..Len(x) : (heap[n] \o x)[Len(heap[n]) + i] = x[i]
  BY <1>2
<1>4. \A o \in DOMAIN heap[n] : o \in DOMAIN (heap[n] \o x) /\ (heap[n] \o x)[o] = heap[n][o]
  BY <1>2
<1> QED
  BY <1>2, <1>3, <1>4 DEF Keeps

\* A step that leaves objects and lists alone.
LEMMA FilesKept ==
    ASSUME HeapTypes, Known, UNCHANGED <<heap, files>>,
           \A n \in Running : DOMAIN numReq'[n] = DOMAIN numReq[n]
    PROVE  /\ HeapTypes' /\ Known' /\ NumsGrow
           /\ \A n \in Running, m \in Node : NumsOf(n, m)' = NumsOf(n, m)
<1>1. HeapTypes'
  BY DEF HeapTypes
<1>2. \A n \in Running, m \in Node : NumsOf(n, m)' = NumsOf(n, m)
  BY DEF NumsOf, Listed
<1>3. Known' /\ NumsGrow
  BY <1>2, PeerFacts DEF Known, NumsGrow
<1> QED
  BY <1>1, <1>2, <1>3

\* What Known asks of a step of n, whose own list grows by the files in new.
LEMMA KnownStep ==
    ASSUME Known, NEW n \in Running, NEW new,
           NumsOf(n, n)' = NumsOf(n, n) \cup new,
           \A m \in Node : NumsOf(n, m)' \subseteq NumsOf(n, m) \cup new,
           DOMAIN numReq'[n] \subseteq DOMAIN numReq[n] \cup NumsOf(n, n) \cup new,
           \A s \in Running \ {n} : /\ \A m \in Node : NumsOf(s, m)' = NumsOf(s, m)
                                    /\ numReq'[s] = numReq[s]
    PROVE  Known' /\ NumsGrow
<1> SUFFICES ASSUME NEW s \in Running
             PROVE  /\ \A m \in Node : NumsOf(s, m)' \subseteq NumsOf(s, s)'
                    /\ DOMAIN numReq'[s] \subseteq NumsOf(s, s)'
                    /\ NumsOf(s, s) \subseteq NumsOf(s, s)'
  BY DEF Known, NumsGrow
<1>1. CASE s = n
  BY <1>1 DEF Known
<1>2. CASE s # n
  BY <1>2, PeerFacts DEF Known
<1> QED
  BY <1>1, <1>2

\* queueFileDownload() of the files in nums.
LEMMA QueueDownloadsFacts ==
    ASSUME TypeInv, NEW n \in Running, NEW nums \in SUBSET Nat,
           numReq' = [numReq EXCEPT ![n] = QueueDownloads(n, nums)]
    PROVE  /\ CounterTypes' /\ CountersKept
           /\ DOMAIN numReq'[n] = DOMAIN numReq[n] \cup nums
           /\ \A s \in Running \ {n} : numReq'[s] = numReq[s]
           /\ UNCHANGED pending => PendingTypes'
<1>1. CounterTypes /\ PendingTypes
  BY TypeParts
<1>2. /\ numReq'[n] = QueueDownloads(n, nums)
      /\ \A s \in Running \ {n} : numReq'[s] = numReq[s]
      /\ numReq' = [s \in Running |-> numReq'[s]]
  BY <1>1 DEF CounterTypes
<1>3. /\ DOMAIN numReq'[n] = DOMAIN numReq[n] \cup nums
      /\ \A k \in DOMAIN numReq'[n] : numReq'[n][k] \in Int
  BY <1>1, <1>2 DEF QueueDownloads, CounterTypes
<1>4. CountersKept
  BY <1>2, <1>3 DEF CountersKept
<1>5. CounterTypes'
  BY <1>1, <1>2, <1>3 DEF CounterTypes
<1>6. UNCHANGED pending => PendingTypes'
  BY <1>1, <1>4 DEF PendingTypes, CountersKept
<1> QED
  BY <1>2, <1>3, <1>4, <1>5, <1>6

-----------------------------------------------------------------------------
(***************************************************************************)
(* The steps that change files.  Each keeps the types and Known.           *)
(***************************************************************************)

\* sendFrame() from n of a frame f to those that n takes to be ONLINE.
LEMMA BroadcastStep ==
    ASSUME TypeInv, NEW n \in Running, NEW f \in Frames,
           SendFrames(n, Broadcast(n, f, state[n]), state[n], req)
    PROVE  state' \in States /\ link' \in Links /\ req' \in Queues
<1>1. /\ Broadcast(n, f, state[n]) \in [Node -> Seq(Frames)]
      /\ state[n] \in [Node -> State] /\ req \in Queues
  BY BroadcastTypes, NetTypesFact DEF NetTypes, States
<1> QED
  BY <1>1, SendFramesFacts DEF States, Links

\* A new object x, entered in the list that n keeps for p.
LEMMA EnterStep ==
    ASSUME TypeInv, NEW n \in Running, NEW p \in Node, NEW x \in FileInfos,
           heap' = [heap EXCEPT ![n] = Append(@, x)],
           files' = [files EXCEPT ![n][p] = Append(@, Len(heap[n]) + 1)]
    PROVE  /\ HeapTypes'
           /\ NumsOf(n, p)' = NumsOf(n, p) \cup {x.num}
           /\ \A m \in Node \ {p} : NumsOf(n, m)' = NumsOf(n, m)
           /\ \A s \in Running \ {n}, m \in Node : NumsOf(s, m)' = NumsOf(s, m)
<1>1. <<x>> \in Seq(FileInfos) /\ Len(<<x>>) = 1 /\ <<x>>[1] = x
  OBVIOUS
<1>2. PICK h : h = heap[n] \o <<x>>
  OBVIOUS
<1>3. PICK next \in Nat : next = Len(heap[n]) + 1
  BY <1>1, ObjectsAppended
<1>4. Keeps(n, h) /\ next \in DOMAIN h /\ h[next] = x
  <2>1. /\ Keeps(n, h) /\ DOMAIN h = 1..(Len(heap[n]) + Len(<<x>>)) /\ Len(heap[n]) \in Nat
        /\ \A i \in 1..Len(<<x>>) : h[Len(heap[n]) + i] = <<x>>[i]
    BY <1>1, <1>2, ObjectsAppended
  <2> QED
    BY <1>1, <1>3, <2>1
<1>5. <<next>> \in Seq(DOMAIN h) /\ NumsIn(h, <<next>>) = {x.num}
  BY <1>4 DEF NumsIn
<1>6. PICK fl : fl = [files[n] EXCEPT ![p] = files[n][p] \o <<next>>]
  OBVIOUS
<1>7. files[n] \in [Node -> Seq(DOMAIN heap[n])]
  BY TypeParts DEF HeapTypes
<1>8. /\ DOMAIN fl = Node /\ fl = [m \in Node |-> fl[m]]
      /\ \A m \in Node : fl[m] = IF m = p THEN files[n][p] \o <<next>> ELSE files[n][m]
  BY <1>6, <1>7
<1>9. \A m \in Node : /\ fl[m] \in Seq(DOMAIN h)
                      /\ NumsIn(h, fl[m]) = IF m = p THEN NumsOf(n, p) \cup {x.num} ELSE NumsOf(n, m)
  <2> SUFFICES ASSUME NEW m \in Node
               PROVE  /\ fl[m] \in Seq(DOMAIN h)
                      /\ NumsIn(h, fl[m]) = IF m = p THEN NumsOf(n, p) \cup {x.num} ELSE NumsOf(n, m)
    OBVIOUS
  <2>1. CASE m = p
    <3>1. PICK ex \in Seq(DOMAIN h) : ex = <<next>> /\ NumsIn(h, ex) = {x.num}
      BY <1>5
    <3>2. /\ files[n][p] \o ex \in Seq(DOMAIN h)
          /\ NumsIn(h, files[n][p] \o ex) = NumsOf(n, p) \cup NumsIn(h, ex)
      BY <1>4, ListGrows
    <3>3. fl[m] = files[n][p] \o ex
      BY <1>8, <2>1, <3>1
    <3> QED
      BY <2>1, <3>1, <3>2, <3>3
  <2>2. CASE m # p
    BY <1>4, <1>8, <2>2, ListKept
  <2> QED
    BY <2>1, <2>2
<1>10. fl \in [Node -> Seq(DOMAIN h)] /\ h \in Seq(FileInfos)
  BY <1>4, <1>8, <1>9 DEF Keeps
<1>11. heap' = [heap EXCEPT ![n] = h] /\ files' = [files EXCEPT ![n] = fl]
  <2>1. Append(heap[n], x) = h
    BY <1>2, ListTypes, PeerFacts, AppendIsConcat
  <2>2. Append(files[n][p], next) = files[n][p] \o <<next>>
    <3>1. files[n][p] \in Seq(Nat)
      BY <1>7, ListTypes, PeerFacts, LenProperties, SeqMonotonic
    <3> QED
      BY <3>1, AppendIsConcat
  <2> QED
    BY <1>3, <1>6, <2>1, <2>2
<1>12. /\ HeapTypes'
       /\ \A m \in Node : NumsOf(n, m)' = NumsIn(h, fl[m])
       /\ \A s \in Running \ {n}, m \in Node : NumsOf(s, m)' = NumsOf(s, m)
  BY <1>10, <1>11, ListStep
<1> QED
  BY <1>9, <1>12

\* Chunk c is marked in object o of n: no number changes.
LEMMA MarkStep ==
    ASSUME TypeInv, Known, NEW n \in Running, NEW o, NEW c \in Chunk,
           heap' = [heap EXCEPT ![n][o].has = @ \cup {c}], files' = files,
           \A s \in Running : DOMAIN numReq'[s] = DOMAIN numReq[s]
    PROVE  HeapTypes' /\ Known' /\ NumsGrow
<1>1. PICK h : h = [heap[n] EXCEPT ![o].has = @ \cup {c}]
  OBVIOUS
<1>2. heap[n] \in Seq(FileInfos) /\ heap' = [heap EXCEPT ![n] = h]
  BY <1>1, ListTypes, PeerFacts
<1>3. PICK k \in Nat : k = Len(heap[n]) /\ DOMAIN heap[n] = 1..k /\ heap[n] \in [1..k -> FileInfos]
  BY <1>2, LenProperties
<1>4. /\ DOMAIN h = DOMAIN heap[n] /\ h = [i \in 1..k |-> h[i]]
      /\ \A i \in 1..k : h[i] \in FileInfos /\ h[i].num = heap[n][i].num
  BY <1>1, <1>3 DEF FileInfos
<1>5. h \in Seq(FileInfos)
  <2>1. h \in [1..k -> FileInfos]
    BY <1>4
  <2> QED
    BY <1>3, <2>1
<1>6. Keeps(n, h)
  BY <1>3, <1>4, <1>5 DEF Keeps
<1>7. files[n] \in [Node -> Seq(DOMAIN heap[n])] /\ files' = [files EXCEPT ![n] = files[n]]
  BY TypeParts DEF HeapTypes
<1>8. files[n] \in [Node -> Seq(DOMAIN h)]
  BY <1>4, <1>7
<1>9. /\ HeapTypes'
      /\ \A m \in Node : NumsOf(n, m)' = NumsIn(h, files[n][m])
      /\ \A s \in Running \ {n}, m \in Node : NumsOf(s, m)' = NumsOf(s, m)
  BY <1>2, <1>5, <1>7, <1>8, ListStep
<1>10. \A s \in Running, m \in Node : NumsOf(s, m)' = NumsOf(s, m)
  BY <1>6, <1>9, ListKept
<1>11. Known' /\ NumsGrow
  BY <1>10, PeerFacts DEF Known, NumsGrow
<1> QED
  BY <1>9, <1>11

LEMMA InsertStep ==
    ASSUME TypeInv, Known, NEW n \in Running, NEW f \in File, Insert(n, f)
    PROVE  TypeInv' /\ Known' /\ NumsGrow /\ CountersKept
<1> USE PeerFacts
<1>1. PICK num \in Nat : num = NextNum(n)
  BY NextNumIsNew
<1>2. PICK x \in FileInfos : x = FileInfo(num, f, Chunk)
  BY DEF FileInfo, FileInfos
<1>3. /\ HeapTypes'
      /\ NumsOf(n, n)' = NumsOf(n, n) \cup {num}
      /\ \A m \in Node \ {n} : NumsOf(n, m)' = NumsOf(n, m)
      /\ \A s \in Running \ {n}, m \in Node : NumsOf(s, m)' = NumsOf(s, m)
  <2>1. /\ heap' = [heap EXCEPT ![n] = Append(@, x)]
        /\ files' = [files EXCEPT ![n][n] = Append(@, Len(heap[n]) + 1)]
    BY <1>1, <1>2 DEF Insert
  <2>2. x.num = num
    BY <1>2 DEF FileInfo
  <2>3. n \in Node
    OBVIOUS
  <2>4. /\ HeapTypes'
        /\ NumsOf(n, n)' = NumsOf(n, n) \cup {x.num}
        /\ \A m \in Node \ {n} : NumsOf(n, m)' = NumsOf(n, m)
        /\ \A s \in Running \ {n}, m \in Node : NumsOf(s, m)' = NumsOf(s, m)
    BY <2>1, <2>3, EnterStep, Zenon
  <2> QED
    BY <2>2, <2>4
<1>4. Known' /\ NumsGrow /\ CountersKept
  <2>1. numReq' = numReq
    BY DEF Insert
  <2>2. Known' /\ NumsGrow
    BY <1>3, <2>1, KnownStep
  <2> QED
    BY <2>1, <2>2 DEF CountersKept
<1>5. NetTypes'
  <2>1. PICK g \in Frames : g = [type |-> "NEW_FILE_AVAILABLE", orphan |-> FALSE, num |-> num,
                                 name |-> f, src |-> n]
    BY DEF Frames
  <2>2. SendFrames(n, Broadcast(n, g, state[n]), state[n], req)
    BY <1>1, <2>1 DEF Insert
  <2> QED
    BY <2>2, BroadcastStep, NetTypesFact DEF Insert, NetTypes
<1>6. DiskTypes'
  <2>1. DiskTypes
    BY TypeParts
  <2>2. [c \in Chunk |-> f] \in [Chunk -> File \cup {Garbage}]
    OBVIOUS
  <2>3. disk' = [disk EXCEPT ![n][f] = [c \in Chunk |-> f]]
    BY DEF Insert
  <2>4. [disk[n] EXCEPT ![f] = [c \in Chunk |-> f]] \in [File -> [Chunk -> File \cup {Garbage}]]
    BY <2>1, <2>2 DEF DiskTypes
  <2> QED
    BY <2>1, <2>3, <2>4 DEF DiskTypes
<1>7. CounterTypes' /\ PendingTypes' /\ InfoTypes'
  BY TypeParts DEF Insert, CounterTypes, PendingTypes, InfoTypes
<1> QED
  BY <1>3, <1>4, <1>5, <1>6, <1>7, PartsType

LEMMA OnNewChunkStep ==
    ASSUME TypeInv, Known, NEW n \in Running, NEW m \in Running, OnNewChunk(n, m)
    PROVE  TypeInv' /\ Known' /\ NumsGrow /\ CountersKept
<1> USE PeerFacts
<1>1. PICK f \in Frames : f = Head(req[m][n]) /\ f.type = "NEW_CHUNK_AVAILABLE"
  BY QueueTypes DEF OnNewChunk, Request
<1>2. f.num \in Nat /\ f.chunk \in Chunk /\ f.src \in Running
  BY <1>1, FrameFields
<1>3. req' \in Queues /\ UNCHANGED <<cli, state, info, numReq, pending, disk, rep>>
  BY HandledTypes DEF OnNewChunk, Request
<1>4. PICK name : name = heap[n][FileOf(n, n, f.num)].name
  OBVIOUS
<1>5. \/ /\ f.num \in NumsOf(n, f.src)
         /\ heap' = [heap EXCEPT ![n][FileOf(n, f.src, f.num)].has = @ \cup {f.chunk}]
         /\ UNCHANGED <<files, life, link>>
      \/ /\ f.num \in NumsOf(n, n) \ NumsOf(n, f.src)
         /\ heap' = [heap EXCEPT ![n] = Append(@, EntryWith(f.num, name, f.chunk))]
         /\ files' = [files EXCEPT ![n][f.src] = Append(@, Len(heap[n]) + 1)]
         /\ UNCHANGED <<life, link>>
      \/ Die(n) /\ UNCHANGED <<heap, files>>
  BY <1>1, <1>4 DEF OnNewChunk
<1>6. CounterTypes' /\ PendingTypes' /\ InfoTypes' /\ DiskTypes' /\ CountersKept
  BY <1>3, TypeParts DEF CounterTypes, PendingTypes, InfoTypes, DiskTypes, CountersKept
<1>7. CASE f.num \in NumsOf(n, f.src)
           /\ heap' = [heap EXCEPT ![n][FileOf(n, f.src, f.num)].has = @ \cup {f.chunk}]
           /\ UNCHANGED <<files, life, link>>
  <2>1. HeapTypes' /\ Known' /\ NumsGrow
    BY <1>2, <1>3, <1>7, MarkStep
  <2>2. NetTypes'
    BY <1>3, <1>7, NetTypesFact DEF NetTypes
  <2> QED
    BY <1>6, <2>1, <2>2, PartsType
<1>8. CASE f.num \in NumsOf(n, n)
           /\ heap' = [heap EXCEPT ![n] = Append(@, EntryWith(f.num, name, f.chunk))]
           /\ files' = [files EXCEPT ![n][f.src] = Append(@, Len(heap[n]) + 1)]
           /\ UNCHANGED <<life, link>>
  <2>1. name \in File
    BY <1>4, <1>8, FileFound, ListTypes DEF FileInfos
  <2>2. PICK x \in FileInfos : x = EntryWith(f.num, name, f.chunk) /\ x.num = f.num
    <3>1. {f.chunk} \in SUBSET Chunk
      BY <1>2
    <3>2. PICK has \in SUBSET Chunk : has = {f.chunk}
      BY <3>1
    <3>3. [num |-> f.num, name |-> name, has |-> has] \in FileInfos
      BY <1>2, <2>1 DEF FileInfos
    <3> QED
      BY <3>2, <3>3 DEF EntryWith, FileInfo
  <2>3. PICK p \in Node : p = f.src
    BY <1>2
  <2>4. /\ heap' = [heap EXCEPT ![n] = Append(@, x)]
        /\ files' = [files EXCEPT ![n][p] = Append(@, Len(heap[n]) + 1)]
    BY <1>8, <2>2, <2>3
  <2>5. /\ HeapTypes'
        /\ NumsOf(n, p)' = NumsOf(n, p) \cup {x.num}
        /\ \A q \in Node \ {p} : NumsOf(n, q)' = NumsOf(n, q)
        /\ \A s \in Running \ {n}, q \in Node : NumsOf(s, q)' = NumsOf(s, q)
    BY <2>4, EnterStep, Zenon
  <2>6. Known' /\ NumsGrow
    <3> PICK new : new = {f.num}
      OBVIOUS
    <3>1. /\ NumsOf(n, n)' = NumsOf(n, n) \cup new
          /\ \A q \in Node : NumsOf(n, q)' \subseteq NumsOf(n, q) \cup new
      BY <1>8, <2>2, <2>3, <2>5
    <3>2. \A s \in Running \ {n} : /\ \A q \in Node : NumsOf(s, q)' = NumsOf(s, q)
                                   /\ numReq'[s] = numReq[s]
      BY <1>3, <2>5
    <3>3. DOMAIN numReq'[n] \subseteq DOMAIN numReq[n] \cup NumsOf(n, n) \cup new
      BY <1>3
    <3> QED
      BY <3>1, <3>2, <3>3, KnownStep
  <2>7. NetTypes'
    BY <1>3, <1>8, NetTypesFact DEF NetTypes
  <2> QED
    BY <1>6, <2>5, <2>6, <2>7, PartsType
<1>9. CASE Die(n) /\ UNCHANGED <<heap, files>>
  <2>1. HeapTypes' /\ Known' /\ NumsGrow
    BY <1>3, <1>9, TypeParts, FilesKept
  <2>2. NetTypes'
    BY <1>3, <1>9, DieTypes, NetTypesFact DEF NetTypes
  <2> QED
    BY <1>6, <2>1, <2>2, PartsType
<1> QED
  BY <1>5, <1>7, <1>8, <1>9

\* numChunksRequested_[num]--, in the race with the download loop or not.
LEMMA CountDownFacts ==
    ASSUME TypeInv, NEW n \in Running, NEW num, CountDown(n, num)
    PROVE  /\ CounterTypes' /\ PendingTypes' /\ CountersKept
           /\ \A s \in Running : DOMAIN numReq'[s] = DOMAIN numReq[s]
<1>1. CounterTypes /\ PendingTypes
  BY TypeParts
<1>2. PICK d \in {-1, 1} : numReq' = [numReq EXCEPT ![n][num] = @ + d]
  BY DEF CountDown
<1>3. /\ numReq' = [s \in Running |-> numReq'[s]]
      /\ \A s \in Running : numReq'[s] = IF s = n THEN [numReq[n] EXCEPT ![num] = @ + d] ELSE numReq[s]
  BY <1>1, <1>2 DEF CounterTypes
<1>4. \A s \in Running : DOMAIN numReq'[s] = DOMAIN numReq[s]
  BY <1>3
<1>5. \A s \in Running : \A k \in DOMAIN numReq'[s] : numReq'[s][k] \in Int
  BY <1>1, <1>3 DEF CounterTypes
<1>6. CounterTypes'
  BY <1>1, <1>3, <1>4, <1>5 DEF CounterTypes
<1>7. pending' = pending \/ pending' = [pending EXCEPT ![n] = NoFile]
  BY DEF CountDown
<1>8. PendingTypes'
  BY <1>1, <1>4, <1>7 DEF PendingTypes
<1> QED
  BY <1>4, <1>6, <1>8 DEF CountersKept

LEMMA OnChunkStep ==
    ASSUME TypeInv, Known, NEW n \in Running, NEW m \in Running, OnChunk(n, m)
    PROVE  TypeInv' /\ Known' /\ NumsGrow /\ CountersKept
<1> USE PeerFacts
<1>1. PICK f \in Frames : f = Head(rep[n][m]) /\ f.type = "CHUNK"
  BY QueueTypes DEF OnChunk, Reply
<1>2. f.num \in Nat /\ f.chunk \in Chunk /\ f.data \in File \cup {Garbage}
  BY <1>1, FrameFields
<1>3. rep' \in Queues /\ UNCHANGED <<life, cli, files, info>>
  BY TakeReplyTypes DEF OnChunk, Reply
<1>4. CounterTypes' /\ PendingTypes' /\ CountersKept
      /\ \A s \in Running : DOMAIN numReq'[s] = DOMAIN numReq[s]
  BY CountDownFacts DEF OnChunk
<1>5. DiskTypes'
  <2>1. DiskTypes
    BY TypeParts
  <2>2. PICK x : disk' = [disk EXCEPT ![n][x][f.chunk] = f.data]
    BY <1>1 DEF OnChunk
  <2>3. x \in File => [disk[n][x] EXCEPT ![f.chunk] = f.data] \in [Chunk -> File \cup {Garbage}]
    BY <1>2, <2>1 DEF DiskTypes
  <2>4. [disk[n] EXCEPT ![x] = [disk[n][x] EXCEPT ![f.chunk] = f.data]]
            \in [File -> [Chunk -> File \cup {Garbage}]]
    BY <2>1, <2>3 DEF DiskTypes
  <2> QED
    BY <2>1, <2>2, <2>4 DEF DiskTypes
<1>6. HeapTypes' /\ Known' /\ NumsGrow
  <2>1. heap' = [heap EXCEPT ![n][FileOf(n, n, f.num)].has = @ \cup {f.chunk}]
    BY <1>1 DEF OnChunk
  <2> QED
    BY <1>2, <1>3, <1>4, <2>1, MarkStep
<1>7. NetTypes'
  <2>1. PICK g \in Frames : g = NewChunkFrame(n, f.num, f.chunk)
    BY <1>2 DEF NewChunkFrame, Frames
  <2>2. SendFrames(n, Broadcast(n, g, state[n]), state[n], req)
    BY <1>1, <2>1 DEF OnChunk
  <2> QED
    BY <1>3, <2>2, BroadcastStep, NetTypesFact DEF NetTypes
<1>8. InfoTypes'
  BY <1>3, TypeParts DEF InfoTypes
<1> QED
  BY <1>4, <1>5, <1>6, <1>7, <1>8, PartsType

LEMMA CountRequestStep ==
    ASSUME TypeInv, Known, NEW n \in Running, CountRequest(n)
    PROVE  TypeInv' /\ Known' /\ NumsGrow /\ CountersKept
<1>1. CounterTypes /\ PendingTypes /\ HeapTypes
  BY TypeParts
<1>2. PICK k : numReq' = [numReq EXCEPT ![n][k] = @ + 1]
  BY DEF CountRequest
<1>3. /\ numReq' = [s \in Running |-> numReq'[s]]
      /\ \A s \in Running : numReq'[s] = IF s = n THEN [numReq[n] EXCEPT ![k] = @ + 1] ELSE numReq[s]
  BY <1>1, <1>2 DEF CounterTypes
<1>4. \A s \in Running : DOMAIN numReq'[s] = DOMAIN numReq[s]
  BY <1>3
<1>5. CounterTypes'
  BY <1>1, <1>3, <1>4 DEF CounterTypes
<1>6. PendingTypes'
  BY <1>1, <1>4 DEF CountRequest, PendingTypes
<1>7. NetTypes' /\ InfoTypes' /\ DiskTypes'
  BY TypeParts DEF CountRequest, NetTypes, InfoTypes, DiskTypes
<1>8. HeapTypes' /\ Known' /\ NumsGrow /\ CountersKept
  BY <1>1, <1>4, FilesKept DEF CountRequest, CountersKept
<1> QED
  BY <1>5, <1>6, <1>7, <1>8, PartsType

LEMMA RequestChunkStep ==
    ASSUME TypeInv, Known, NEW n \in Running, NEW num \in DOMAIN numReq[n], RequestChunk(n, num)
    PROVE  TypeInv' /\ Known' /\ NumsGrow /\ CountersKept
<1> USE PeerFacts
<1>1. PICK missing \in SUBSET Chunk : /\ missing = Chunk \ heap[n][FileOf(n, n, num)].has
                                      /\ missing # {}
  BY DEF RequestChunk
<1>2. Min(missing) \in Chunk
  BY <1>1, LeastNumber DEF Min, Chunk
<1>3. num \in Nat
  BY TypeParts DEF CounterTypes
<1>4. PICK f \in Frames : f = ChunkFrame("CHUNK_REQUEST", num, Min(missing))
  BY <1>2, <1>3 DEF ChunkFrame, Frames
<1>5. PICK out \in [Node -> Seq(Frames)] : out = [NoFrames EXCEPT ![PeerAt[n][1]] = <<f>>]
  <2>1. PICK p : p = PeerAt[n][1]
    OBVIOUS
  <2>2. [NoFrames EXCEPT ![p] = <<f>>] \in [Node -> Seq(Frames)]
    BY OneFrameTypes
  <2> QED
    BY <2>1, <2>2
<1>6. SendFrames(n, out, state[n], req)
  BY <1>1, <1>4, <1>5 DEF RequestChunk
<1>7. state[n] \in [Node -> State] /\ req \in Queues
  BY NetTypesFact DEF NetTypes, States
<1>8. state' \in States /\ link' \in Links /\ req' \in Queues
  BY <1>6, <1>7, SendFramesFacts DEF States, Links
<1>9. NetTypes'
  BY <1>8, NetTypesFact DEF RequestChunk, NetTypes
<1>10. PendingTypes'
  BY TypeParts DEF RequestChunk, PendingTypes, fileVars
<1>11. CounterTypes' /\ InfoTypes' /\ DiskTypes'
  BY TypeParts DEF RequestChunk, fileVars, CounterTypes, InfoTypes, DiskTypes
<1>12. HeapTypes' /\ Known' /\ NumsGrow /\ CountersKept
  BY TypeParts, FilesKept DEF RequestChunk, fileVars, CountersKept
<1> QED
  BY <1>9, <1>10, <1>11, <1>12, PartsType

\* changeStateToOnlineAndNotify().
LEMMA GoOnlineStep ==
    ASSUME TypeInv, NEW n \in Running, GoOnline(n, state[n])
    PROVE  state' \in States /\ link' \in Links /\ req' \in Queues
<1>1. PICK g \in Frames : g = [type |-> "PEER_JOIN_NOTIFICATION", orphan |-> FALSE, src |-> n]
  BY DEF Frames
<1>2. PICK out \in [Node -> Seq(Frames)] : out = Broadcast(n, g, state[n])
  BY BroadcastTypes
<1>3. PICK views \in [Node -> State] : views = [state[n] EXCEPT ![n] = "ONLINE"]
  BY NetTypesFact DEF NetTypes, States, State
<1>4. SendFrames(n, out, views, req) /\ req \in Queues
  BY <1>1, <1>2, <1>3, NetTypesFact DEF GoOnline, NetTypes
<1> QED
  BY <1>4, SendFramesFacts DEF States, Links

LEMMA OnChunkInfoStep ==
    ASSUME TypeInv, Known, NEW n \in Running, NEW m \in Running, OnChunkInfo(n, m)
    PROVE  TypeInv' /\ Known' /\ NumsGrow /\ CountersKept
<1> USE PeerFacts
<1>1. PICK f \in Frames : f = Head(rep[n][m]) /\ f.type = "CHUNK_INFO"
  BY QueueTypes DEF OnChunkInfo, Reply
<1>2. PICK nums \in SUBSET Nat : nums = f.nums
  BY <1>1, FrameFields
<1>3. PICK known \in SUBSET Nat :
          known = {k \in nums : \A j \in nums : j <= k => j \in NumsOf(n, m)}
  OBVIOUS
<1>4. known \subseteq NumsOf(n, m)
  BY <1>3
<1>5. /\ info' = [info EXCEPT ![n][m] = @ \cup known]
      /\ numReq' = [numReq EXCEPT ![n] = QueueDownloads(n, known)]
  BY <1>1, <1>2, <1>3 DEF OnChunkInfo
<1>6. /\ CounterTypes' /\ CountersKept /\ PendingTypes'
      /\ DOMAIN numReq'[n] = DOMAIN numReq[n] \cup known
      /\ \A s \in Running \ {n} : numReq'[s] = numReq[s]
  BY <1>5, QueueDownloadsFacts DEF OnChunkInfo
<1>7. HeapTypes' /\ \A s \in Running, q \in Node : NumsOf(s, q)' = NumsOf(s, q)
  BY TypeParts DEF OnChunkInfo, HeapTypes, NumsOf, Listed
<1>8. Known' /\ NumsGrow
  <2>1. PICK new : new = {}
    OBVIOUS
  <2>2. /\ NumsOf(n, n)' = NumsOf(n, n) \cup new
        /\ \A q \in Node : NumsOf(n, q)' \subseteq NumsOf(n, q) \cup new
    BY <1>7, <2>1
  <2>3. DOMAIN numReq'[n] \subseteq DOMAIN numReq[n] \cup NumsOf(n, n) \cup new
    <3>1. NumsOf(n, m) \subseteq NumsOf(n, n)
      BY PeerFacts DEF Known
    <3> QED
      BY <1>4, <1>6, <3>1
  <2> QED
    BY SMTT(30), <1>6, <1>7, <2>2, <2>3, KnownStep
<1>9. InfoTypes'
  <2>1. info \in [Running -> [Node -> SUBSET Nat]]
    BY TypeParts DEF InfoTypes
  <2>2. [info[n] EXCEPT ![m] = @ \cup known] \in [Node -> SUBSET Nat]
    BY <2>1
  <2> QED
    BY <1>5, <2>1, <2>2 DEF InfoTypes
<1>10. DiskTypes'
  BY TypeParts DEF OnChunkInfo, DiskTypes
<1>11. state' \in States /\ link' \in Links /\ req' \in Queues
  <2>1. GoOnline(n, state[n]) \/ UNCHANGED linkVars
    BY DEF OnChunkInfo
  <2> QED
    BY <2>1, GoOnlineStep, NetTypesFact DEF linkVars, NetTypes
<1>12. rep' \in Queues
  BY TakeReplyTypes DEF OnChunkInfo, Reply
<1>13. NetTypes'
  BY <1>11, <1>12, NetTypesFact DEF OnChunkInfo, NetTypes
<1> QED
  BY <1>6, <1>7, <1>8, <1>9, <1>10, <1>13, PartsType

\* The objects of n become those in h, and ex[q] goes behind each list q.
LEMMA GrowStep ==
    ASSUME TypeInv, NEW n \in Running, NEW h, Keeps(n, h),
           NEW ex \in [Node -> Seq(DOMAIN h)],
           heap' = [heap EXCEPT ![n] = h],
           files' = [files EXCEPT ![n] = [q \in Node |-> files[n][q] \o ex[q]]]
    PROVE  /\ HeapTypes'
           /\ \A q \in Node : NumsOf(n, q)' = NumsOf(n, q) \cup NumsIn(h, ex[q])
           /\ \A s \in Running \ {n}, q \in Node : NumsOf(s, q)' = NumsOf(s, q)
<1>1. h \in Seq(FileInfos)
  BY DEF Keeps
<1>2. PICK fl : fl = [q \in Node |-> files[n][q] \o ex[q]]
  OBVIOUS
<1>3. \A q \in Node : /\ fl[q] \in Seq(DOMAIN h)
                      /\ NumsIn(h, fl[q]) = NumsOf(n, q) \cup NumsIn(h, ex[q])
  <2> TAKE q \in Node
  <2>1. PICK e \in Seq(DOMAIN h) : e = ex[q]
    OBVIOUS
  <2>2. /\ files[n][q] \o e \in Seq(DOMAIN h)
        /\ NumsIn(h, files[n][q] \o e) = NumsOf(n, q) \cup NumsIn(h, e)
    <3>1. Keeps(n, h)
      OBVIOUS
    <3> QED
      BY <3>1, ListGrows
  <2>3. fl[q] = files[n][q] \o e
    BY <1>2, <2>1
  <2> QED
    BY <2>1, <2>2, <2>3
<1>4. fl \in [Node -> Seq(DOMAIN h)]
  BY <1>2, <1>3
<1>5. /\ HeapTypes'
      /\ \A q \in Node : NumsOf(n, q)' = NumsIn(h, fl[q])
      /\ \A s \in Running \ {n}, q \in Node : NumsOf(s, q)' = NumsOf(s, q)
  BY <1>1, <1>2, <1>4, ListStep
<1> QED
  BY <1>3, <1>5

\* Two elements appended to a sequence, one after the other.
LEMMA TwoAppended ==
    ASSUME NEW S, NEW s \in Seq(S), NEW a \in S, NEW b \in S
    PROVE  Append(Append(s, a), b) = s \o <<a, b>>
<1>1. /\ <<a, b>> \in Seq(S) /\ Len(<<a, b>>) = 2 /\ <<a, b>>[1] = a /\ <<a, b>>[2] = b
      /\ Len(s) \in Nat
  OBVIOUS
<1>2. PICK t \in Seq(S) : t = <<a, b>> /\ Len(t) = 2 /\ t[1] = a /\ t[2] = b
  BY <1>1
<1>3. PICK l \in Seq(S) : l = Append(Append(s, a), b)
  BY AppendProperties
<1>4. Len(l) = Len(s) + 2 /\ \A i \in 1..(Len(s) + 2) :
         l[i] = IF i <= Len(s) THEN s[i] ELSE IF i = Len(s) + 1 THEN a ELSE b
  BY <1>1, <1>3, AppendProperties
<1>5. PICK r \in Seq(S) : r = s \o t
  BY ConcatProperties
<1>6. Len(r) = Len(s) + 2 /\ \A i \in 1..(Len(s) + 2) :
         r[i] = IF i <= Len(s) THEN s[i] ELSE t[i - Len(s)]
  BY <1>1, <1>2, <1>5, ConcatProperties
<1>7. \A i \in 1..(Len(s) + 2) : r[i] = l[i]
  <2> TAKE i \in 1..(Len(s) + 2)
  <2>1. CASE i <= Len(s)
    BY <1>4, <1>6, <2>1
  <2>2. CASE i = Len(s) + 1
    BY <1>1, <1>2, <1>4, <1>6, <2>2
  <2>3. CASE i = Len(s) + 2
    BY SMTT(30), <1>1, <1>2, <1>4, <1>6, <2>3
  <2>4. PICK k \in Nat : k = Len(s)
    BY <1>1
  <2>5. i <= k \/ i = k + 1 \/ i = k + 2
    BY <2>4
  <2> QED
    BY <2>1, <2>2, <2>3, <2>4, <2>5
<1>8. r = l
  BY <1>4, <1>6, <1>7, SeqEqual
<1> QED
  BY <1>2, <1>3, <1>5, <1>8

LEMMA OnNewFileStep ==
    ASSUME TypeInv, Known, NEW n \in Running, NEW m \in Running, OnNewFile(n, m)
    PROVE  TypeInv' /\ Known' /\ NumsGrow /\ CountersKept
<1> USE PeerFacts
<1>1. PICK f \in Frames : f = Head(req[m][n]) /\ f.type = "NEW_FILE_AVAILABLE"
  BY QueueTypes DEF OnNewFile, Request
<1>2. f.num \in Nat /\ f.name \in File /\ f.src \in Running
  BY <1>1, FrameFields
<1>3. PICK obj \in FileInfos : obj = FileInfo(f.num, f.name, {}) /\ obj.num = f.num
  <2>1. PICK has \in SUBSET Chunk : has = {}
    OBVIOUS
  <2>2. [num |-> f.num, name |-> f.name, has |-> has] \in FileInfos
    BY <1>2 DEF FileInfos
  <2> QED
    BY <2>1, <2>2 DEF FileInfo
<1>4. PICK x \in Seq(FileInfos) : x = <<obj, obj>> /\ Len(x) = 2 /\ x[1] = obj /\ x[2] = obj
  <2>1. <<obj, obj>> \in Seq(FileInfos)
    OBVIOUS
  <2>2. Len(<<obj, obj>>) = 2 /\ <<obj, obj>>[1] = obj /\ <<obj, obj>>[2] = obj
    OBVIOUS
  <2> QED
    BY <2>1, <2>2
<1>5. PICK h : h = heap[n] \o x
  OBVIOUS
<1>6. PICK next \in Nat : next = Len(heap[n]) + 1
  BY ObjectsAppended, <1>4
<1>7. /\ next \in DOMAIN h /\ next + 1 \in DOMAIN h
      /\ h[next].num = f.num /\ h[next + 1].num = f.num
  <2>1. /\ Len(heap[n]) \in Nat /\ DOMAIN h = 1..(Len(heap[n]) + 2)
        /\ \A i \in 1..2 : h[Len(heap[n]) + i] = x[i]
    BY <1>4, <1>5, ObjectsAppended
  <2>2. h[Len(heap[n]) + 1] = obj /\ h[Len(heap[n]) + 2] = obj
    BY <1>4, <2>1
  <2> QED
    BY <1>3, <1>6, <2>1, <2>2
<1>8. PICK src \in Node : src = f.src
  BY <1>2
<1>9. PICK ex \in [Node -> Seq(DOMAIN h)] :
          \A q \in Node : ex[q] = IF q = n /\ q = src THEN <<next, next + 1>>
                                  ELSE IF q = n THEN <<next>>
                                  ELSE IF q = src THEN <<next + 1>> ELSE <<>>
  <2>1. /\ <<next, next + 1>> \in Seq(DOMAIN h) /\ <<next>> \in Seq(DOMAIN h)
        /\ <<next + 1>> \in Seq(DOMAIN h) /\ <<>> \in Seq(DOMAIN h)
    BY <1>7
  <2> DEFINE e(q) == IF q = n /\ q = src THEN <<next, next + 1>>
                     ELSE IF q = n THEN <<next>>
                     ELSE IF q = src THEN <<next + 1>> ELSE <<>>
  <2>2. \A q \in Node : e(q) \in Seq(DOMAIN h)
    BY <2>1
  <2> HIDE DEF e
  <2>3. [q \in Node |-> e(q)] \in [Node -> Seq(DOMAIN h)]
    BY <2>2
  <2>4. \A q \in Node : [r \in Node |-> e(r)][q] = e(q)
    OBVIOUS
  <2> QED
    BY <2>3, <2>4 DEF e
<1>10. \A q \in Node : NumsIn(h, ex[q]) = IF q \in {n, src} THEN {f.num} ELSE {}
  <2>1. /\ NumsIn(h, <<next, next + 1>>) = {f.num} /\ NumsIn(h, <<next>>) = {f.num}
        /\ NumsIn(h, <<next + 1>>) = {f.num} /\ NumsIn(h, <<>>) = {}
    BY <1>7 DEF NumsIn
  <2> QED
    BY <1>9, <2>1
<1>11. heap' = [heap EXCEPT ![n] = h]
  BY <1>1, <1>3, <1>4, <1>5 DEF OnNewFile
<1>12. files' = [files EXCEPT ![n] = [q \in Node |-> files[n][q] \o ex[q]]]
  <2>1. PICK mid : mid = [files[n] EXCEPT ![n] = Append(@, next)]
    OBVIOUS
  <2>2. files' = [files EXCEPT ![n] = [mid EXCEPT ![src] = Append(@, next + 1)]]
    BY <1>1, <1>6, <1>8, <2>1 DEF OnNewFile
  <2>3. HeapTypes
    BY TypeParts
  <2>5. [mid EXCEPT ![src] = Append(@, next + 1)] = [q \in Node |-> files[n][q] \o ex[q]]
    <3>1. files[n] \in [Node -> Seq(DOMAIN heap[n])]
      BY <2>3 DEF HeapTypes
    <3>2. \A q \in Node : files[n][q] \in Seq(Nat)
      <4>1. DOMAIN heap[n] \subseteq Nat
        BY ListTypes, LenProperties
      <4> QED
        BY <3>1, <4>1, SeqMonotonic
    <3>3. PICK new : new = [mid EXCEPT ![src] = Append(@, next + 1)]
      OBVIOUS
    <3>4. /\ new = [q \in Node |-> new[q]]
          /\ \A q \in Node : new[q] =
               IF q = n /\ q = src THEN Append(Append(files[n][q], next), next + 1)
               ELSE IF q = n THEN Append(files[n][q], next)
               ELSE IF q = src THEN Append(files[n][q], next + 1) ELSE files[n][q]
      BY <2>1, <3>1, <3>3
    <3>5. \A q \in Node : new[q] = files[n][q] \o ex[q]
      <4> TAKE q \in Node
      <4>1. PICK s \in Seq(Nat) : s = files[n][q]
        BY <3>2
      <4>2. /\ Append(Append(s, next), next + 1) = s \o <<next, next + 1>>
            /\ Append(s, next) = s \o <<next>> /\ Append(s, next + 1) = s \o <<next + 1>>
            /\ s = s \o <<>>
        <5>1. Append(s, next) = s \o <<next>> /\ Append(s, next + 1) = s \o <<next + 1>>
          <6>1. next + 1 \in Nat
            OBVIOUS
          <6> QED
            BY <6>1, AppendIsConcat
        <5>2. Append(Append(s, next), next + 1) = s \o <<next, next + 1>>
          <6>1. PICK k \in Nat : k = next + 1
            OBVIOUS
          <6>2. Append(Append(s, next), k) = s \o <<next, k>>
            BY ZenonT(40), TwoAppended
          <6> QED
            BY <6>1, <6>2
        <5>3. s = s \o <<>>
          BY ConcatEmptySeq
        <5> QED
          BY <5>1, <5>2, <5>3
      <4> QED
        BY <1>9, <3>4, <4>1, <4>2
    <3> QED
      BY <3>3, <3>4, <3>5
  <2> QED
    BY <2>2, <2>5
<1>13. /\ HeapTypes'
       /\ \A q \in Node : NumsOf(n, q)' = NumsOf(n, q) \cup NumsIn(h, ex[q])
       /\ \A s \in Running \ {n}, q \in Node : NumsOf(s, q)' = NumsOf(s, q)
  <2>1. Keeps(n, h)
    BY <1>5, ObjectsAppended
  <2> QED
    BY <1>11, <1>12, <2>1, GrowStep
<1>14. PICK new \in SUBSET Nat : new = {f.num}
  BY <1>2
<1>15. numReq' = [numReq EXCEPT ![n] = QueueDownloads(n, new)]
  BY <1>1, <1>14 DEF OnNewFile
<1>16. /\ CounterTypes' /\ CountersKept /\ PendingTypes'
       /\ DOMAIN numReq'[n] = DOMAIN numReq[n] \cup new
       /\ \A s \in Running \ {n} : numReq'[s] = numReq[s]
  BY <1>15, QueueDownloadsFacts DEF OnNewFile
<1>17. Known' /\ NumsGrow
  <2> PICK more : more = new
    OBVIOUS
  <2>1. /\ NumsOf(n, n)' = NumsOf(n, n) \cup more
        /\ \A q \in Node : NumsOf(n, q)' \subseteq NumsOf(n, q) \cup more
    BY <1>10, <1>13, <1>14
  <2>2. DOMAIN numReq'[n] \subseteq DOMAIN numReq[n] \cup NumsOf(n, n) \cup more
    BY <1>16
  <2>3. \A s \in Running \ {n} : /\ \A q \in Node : NumsOf(s, q)' = NumsOf(s, q)
                                 /\ numReq'[s] = numReq[s]
    BY <1>13, <1>16
  <2> QED
    BY <2>1, <2>2, <2>3, KnownStep
<1>18. InfoTypes' /\ DiskTypes'
  BY TypeParts DEF OnNewFile, InfoTypes, DiskTypes
<1>19. NetTypes'
  BY HandledTypes, NetTypesFact DEF OnNewFile, Request, NetTypes
<1> QED
  BY <1>13, <1>16, <1>17, <1>18, <1>19, PartsType

\* The entries of a list that n has not got for p.
NewIn(n, p, list) ==
    {i \in DOMAIN list : /\ list[i].num \notin NumsOf(n, p)
                         /\ \A j \in 1..(i - 1) : list[j].num # list[i].num}

\* With their numbers n has all the numbers of the list.
LEMMA NewEntries ==
    ASSUME TypeInv, NEW n \in Running, NEW p \in Node, NEW list \in Seq(Entries),
           NEW new, new = NewIn(n, p, list)
    PROVE  /\ new \in SUBSET (1..Len(list)) /\ new \in SUBSET Nat /\ IsFiniteSet(new)
           /\ NumsOf(n, p) \cup {list[i].num : i \in new}
                = NumsOf(n, p) \cup {list[i].num : i \in DOMAIN list}
<1>1. Len(list) \in Nat /\ DOMAIN list = 1..Len(list)
  BY LenProperties
<1>2. new \in SUBSET (1..Len(list)) /\ new \in SUBSET Nat
  BY <1>1 DEF NewIn
<1>3. IsFiniteSet(new)
  <2>1. Len(list) \in Int /\ 1 \in Int
    BY <1>1
  <2>2. IsFiniteSet(1..Len(list))
    BY <2>1, FS_Interval
  <2> QED
    BY <1>2, <2>2, FS_Subset
<1>4. ASSUME NEW i \in DOMAIN list, list[i].num \notin NumsOf(n, p)
      PROVE  \E j \in new : list[j].num = list[i].num
  <2> DEFINE same == {j \in DOMAIN list : list[j].num = list[i].num}
  <2>1. same \in SUBSET Nat /\ same # {}
    BY <1>1, <1>4
  <2>2. PICK j \in same : \A k \in same : j <= k
    BY <2>1, LeastNumber
  <2>3. \A k \in 1..(j - 1) : list[k].num # list[j].num
    <3> SUFFICES ASSUME NEW k \in 1..(j - 1), list[k].num = list[j].num PROVE FALSE
      OBVIOUS
    <3>1. k \in same /\ k < j /\ j \in Nat /\ k \in Nat
      BY <1>1, <2>1, <2>2
    <3> QED
      BY <2>2, <3>1
  <2>4. j \in new
    BY <1>4, <2>2, <2>3 DEF NewIn
  <2> QED
    BY <2>2, <2>4
<1>5. NumsOf(n, p) \cup {list[i].num : i \in new}
        = NumsOf(n, p) \cup {list[i].num : i \in DOMAIN list}
  BY <1>1, <1>2, <1>4
<1> QED
  BY <1>2, <1>3, <1>5

LEMMA OnFileListStep ==
    ASSUME TypeInv, Known, NEW n \in Running, NEW m \in Running, OnFileList(n, m)
    PROVE  TypeInv' /\ Known' /\ NumsGrow /\ CountersKept
<1> USE PeerFacts
<1>1. PICK f \in Frames : f = Head(rep[n][m]) /\ f.type = "FILE_LIST"
  BY QueueTypes DEF OnFileList, Reply
<1>2. PICK list \in Seq(Entries) : list = f.list
  BY <1>1, FrameFields
<1>3. Len(list) \in Nat /\ DOMAIN list = 1..Len(list) /\ \A i \in DOMAIN list : list[i] \in Entries
  BY LenProperties, ElementOfSeq
<1> DEFINE isNew(p, i) == /\ list[i].num \notin NumsOf(n, p)
                          /\ \A j \in 1..(i - 1) : list[j].num # list[i].num
           new(p) == {i \in DOMAIN list : isNew(p, i)}
           added(p) == InOrder(new(p))
           object(i) == Len(heap[n]) + i
           ask == [p \in Node |->
                     IF p # n /\ state[n][p] = "ONLINE" /\ list[1].num \notin info[n][p]
                     THEN <<Frame("CHUNK_INFO_REQUEST")>> ELSE <<>>]
           x == [i \in DOMAIN list |-> FileInfo(list[i].num, list[i].name, {})]
           ex == [p \in Node |-> [k \in DOMAIN added(p) |-> object(added(p)[k])]]
<1>4. /\ heap' = [heap EXCEPT ![n] = @ \o x]
      /\ files' = [files EXCEPT ![n] = [p \in Node |-> @[p] \o ex[p]]]
      /\ \/ GoOnline(n, state[n])
         \/ SendFrames(n, ask, [state[n] EXCEPT ![n] = "WAITING_FOR_CHUNK_INFO"], req)
         \/ UNCHANGED linkVars
      /\ TakeReply(n, m)
      /\ UNCHANGED <<life, cli, info, numReq, pending, disk>>
  <2>1. list = Head(rep[n][m]).list
    BY <1>1, <1>2
  <2>2. heap' = [heap EXCEPT ![n] = @ \o x]
    BY <2>1 DEF OnFileList
  <2>3. files' = [files EXCEPT ![n] = [p \in Node |-> @[p] \o ex[p]]]
    BY <2>1 DEF OnFileList
  <2>4. \/ GoOnline(n, state[n])
        \/ SendFrames(n, ask, [state[n] EXCEPT ![n] = "WAITING_FOR_CHUNK_INFO"], req)
        \/ UNCHANGED linkVars
    BY <2>1 DEF OnFileList
  <2>5. TakeReply(n, m) /\ UNCHANGED <<life, cli, info, numReq, pending, disk>>
    BY DEF OnFileList
  <2> HIDE DEF ask, x, ex
  <2> QED
    BY <2>2, <2>3, <2>4, <2>5
<1>5. x \in Seq(FileInfos) /\ Len(x) = Len(list) /\ \A i \in DOMAIN list : x[i].num = list[i].num
  <2>1. \A i \in DOMAIN list : FileInfo(list[i].num, list[i].name, {}) \in FileInfos
    BY <1>3 DEF FileInfo, FileInfos, Entries
  <2>2. x \in [1..Len(list) -> FileInfos]
    BY <1>3, <2>1
  <2>3. \A i \in DOMAIN list : x[i].num = list[i].num
    BY DEF FileInfo
  <2>4. x \in Seq(FileInfos) /\ DOMAIN x = 1..Len(list)
    BY <1>3, <2>2
  <2>5. Len(x) = Len(list)
    BY <1>3, <2>4
  <2> QED
    BY <2>3, <2>4, <2>5
<1>6. PICK h : h = heap[n] \o x
  OBVIOUS
<1>7. /\ Keeps(n, h) /\ Len(heap[n]) \in Nat
      /\ \A i \in DOMAIN list : object(i) \in DOMAIN h /\ h[object(i)].num = list[i].num
  <2> HIDE DEF x
  <2>1. /\ Keeps(n, h) /\ Len(heap[n]) \in Nat
        /\ DOMAIN h = 1..(Len(heap[n]) + Len(list))
        /\ \A i \in 1..Len(list) : h[Len(heap[n]) + i] = x[i]
    BY ZenonT(40), <1>5, <1>6, ObjectsAppended
  <2> QED
    BY <1>3, <1>5, <2>1
<1>8. \A p \in Node : /\ added(p) \in Seq(new(p)) /\ new(p) \subseteq DOMAIN list
                      /\ \A i \in new(p) : \E k \in DOMAIN added(p) : added(p)[k] = i
                      /\ NumsOf(n, p) \cup {list[i].num : i \in new(p)}
                           = NumsOf(n, p) \cup {list[i].num : i \in DOMAIN list}
  <2> TAKE p \in Node
  <2>1. PICK s : s = new(p)
    OBVIOUS
  <2>2. /\ s \in SUBSET (1..Len(list)) /\ s \in SUBSET Nat /\ IsFiniteSet(s)
        /\ NumsOf(n, p) \cup {list[i].num : i \in s}
             = NumsOf(n, p) \cup {list[i].num : i \in DOMAIN list}
    <3>1. s = NewIn(n, p, list)
      BY <2>1 DEF NewIn
    <3> HIDE DEF isNew, new, added, object, ask, x, ex
    <3> QED
      BY <3>1, NewEntries
  <2>3. InOrder(s) \in Seq(s) /\ \A i \in s : \E k \in DOMAIN InOrder(s) : InOrder(s)[k] = i
    BY <2>2, InOrderFacts
  <2> QED
    BY <1>3, <2>1, <2>2, <2>3
<1>9. \A p \in Node : /\ ex[p] \in Seq(DOMAIN h)
                      /\ NumsIn(h, ex[p]) = {list[i].num : i \in new(p)}
  <2> TAKE p \in Node
  <2>1. PICK s : s = new(p)
    OBVIOUS
  <2>2. PICK a \in Seq(s) : a = added(p) /\ \A i \in s : \E k \in DOMAIN a : a[k] = i
    BY <1>8, <2>1
  <2>3. ex[p] = [k \in DOMAIN a |-> object(a[k])]
    BY <2>2
  <2>4. DOMAIN a = 1..Len(a) /\ Len(a) \in Nat /\ \A k \in DOMAIN a : a[k] \in s
    BY LenProperties, ElementOfSeq
  <2>5. \A k \in DOMAIN a : object(a[k]) \in DOMAIN h /\ h[object(a[k])].num = list[a[k]].num
    BY <1>7, <1>8, <2>1, <2>4
  <2> HIDE DEF ex, new, added, object
  <2>6. ex[p] \in Seq(DOMAIN h)
    <3>1. ex[p] \in [1..Len(a) -> DOMAIN h]
      BY <2>3, <2>4, <2>5
    <3> QED
      BY <2>4, <3>1
  <2>7. NumsIn(h, ex[p]) = {list[i].num : i \in s}
    <3>1. DOMAIN ex[p] = DOMAIN a /\ \A k \in DOMAIN a : h[ex[p][k]].num = list[a[k]].num
      BY <2>3, <2>5
    <3> QED
      <4>1. PICK e : e = ex[p]
        OBVIOUS
      <4>2. NumsIn(h, e) = {h[e[k]].num : k \in DOMAIN e}
        BY DEF NumsIn
      <4>3. {h[e[k]].num : k \in DOMAIN e} = {list[a[k]].num : k \in DOMAIN a}
        BY <3>1, <4>1
      <4>4. {list[a[k]].num : k \in DOMAIN a} = {list[i].num : i \in s}
        BY <2>2, <2>4
      <4> QED
        BY <4>1, <4>2, <4>3, <4>4
  <2> QED
    BY <2>1, <2>6, <2>7
<1>10. ex \in [Node -> Seq(DOMAIN h)]
  <2>1. ex = [p \in Node |-> ex[p]]
    OBVIOUS
  <2> HIDE DEF ex
  <2> QED
    BY <1>9, <2>1
<1>11. /\ HeapTypes'
       /\ \A q \in Node : NumsOf(n, q)' = NumsOf(n, q) \cup NumsIn(h, ex[q])
       /\ \A s \in Running \ {n}, q \in Node : NumsOf(s, q)' = NumsOf(s, q)
  <2> HIDE DEF ex, x
  <2>1. heap' = [heap EXCEPT ![n] = h]
    BY <1>4, <1>6
  <2>2. files' = [files EXCEPT ![n] = [q \in Node |-> files[n][q] \o ex[q]]]
    BY <1>4
  <2> QED
    BY <1>7, <1>10, <2>1, <2>2, GrowStep
<1>12. PICK all : all = {list[i].num : i \in DOMAIN list}
  OBVIOUS
<1>13. \A q \in Node : NumsOf(n, q)' = NumsOf(n, q) \cup all
  <2> HIDE DEF ex, new, added
  <2> QED
    BY <1>8, <1>9, <1>11, <1>12
<1>14. numReq' = numReq
  BY <1>4
<1>15. Known' /\ NumsGrow
  <2> HIDE DEF ex, x, new, added, object, ask
  <2>1. /\ NumsOf(n, n)' = NumsOf(n, n) \cup all
        /\ \A q \in Node : NumsOf(n, q)' \subseteq NumsOf(n, q) \cup all
    BY <1>13
  <2>2. DOMAIN numReq'[n] \subseteq DOMAIN numReq[n] \cup NumsOf(n, n) \cup all
    BY <1>14
  <2>3. \A s \in Running \ {n} : /\ \A q \in Node : NumsOf(s, q)' = NumsOf(s, q)
                                 /\ numReq'[s] = numReq[s]
    BY <1>11, <1>14
  <2> QED
    BY <2>1, <2>2, <2>3, KnownStep
<1>16. ask \in [Node -> Seq(Frames)]
  <2>1. PICK g \in Frames : g = Frame("CHUNK_INFO_REQUEST")
    BY PlainFrames
  <2>2. <<g>> \in Seq(Frames) /\ <<>> \in Seq(Frames)
    OBVIOUS
  <2> QED
    BY <2>1, <2>2
<1>17. state' \in States /\ link' \in Links /\ req' \in Queues
  <2>1. PICK out \in [Node -> Seq(Frames)] : out = ask
    BY <1>16
  <2>2. PICK views \in [Node -> State] : views = [state[n] EXCEPT ![n] = "WAITING_FOR_CHUNK_INFO"]
    BY NetTypesFact DEF NetTypes, States, State
  <2>3. req \in Queues /\ state \in States /\ link \in Links
    BY NetTypesFact DEF NetTypes
  <2>4. CASE GoOnline(n, state[n])
    BY <2>4, GoOnlineStep
  <2>5. CASE SendFrames(n, out, views, req)
    BY <2>3, <2>5, SendFramesFacts DEF States, Links
  <2>6. CASE UNCHANGED linkVars
    BY <2>3, <2>6 DEF linkVars
  <2> QED
    BY <1>4, <2>1, <2>2, <2>4, <2>5, <2>6
<1>18. rep' \in Queues
  BY <1>1, <1>4, TakeReplyTypes DEF OnFileList, Reply
<1>19. NetTypes'
  BY <1>4, <1>17, <1>18, NetTypesFact DEF NetTypes
<1>20. CounterTypes' /\ PendingTypes' /\ InfoTypes' /\ DiskTypes' /\ CountersKept
  BY <1>4, TypeParts DEF CounterTypes, PendingTypes, InfoTypes, DiskTypes, CountersKept
<1> QED
  BY <1>11, <1>15, <1>19, <1>20, PartsType

-----------------------------------------------------------------------------
(***************************************************************************)
(* The types are kept, and so is Known.                                    *)
(***************************************************************************)

\* The steps that change no file, no list and no counter.
LEMMA OtherSteps ==
    ASSUME TypeInv, Known, NEW n \in Running,
           \/ Join(n) \/ Starting(n) \/ MarkFile(n) \/ Leave(n) \/ Quit(n) \/ StopServer(n)
           \/ \E m \in Running :
                \/ OnHandshakeRequest(n, m) \/ OnFileListRequest(n, m) \/ OnChunkInfoRequest(n, m)
                \/ OnChunkRequest(n, m) \/ OnJoinNotification(n, m) \/ OnLeaveNotification(n, m)
                \/ OnHandshakeResponse(n, m) \/ OnChunkRequestDecline(n, m) \/ EndSession(n, m)
    PROVE  TypeInv' /\ Known' /\ NumsGrow /\ CountersKept
<1>1. TypeInv'
  BY CommandTypes, InitRemotePeerTypes, MarkFileTypes, LeaveTypes, OnFileListRequestTypes,
     OnChunkInfoRequestTypes, OnChunkRequestTypes, OnHandshakeTypes, OnNotificationTypes,
     OnChunkRequestDeclineTypes, EndSessionTypes DEF Starting
<1>2. UNCHANGED <<heap, files, numReq>>
  BY DEF Join, Starting, InitRemotePeer, FinishInit, MarkNextPeer, ReturnFromJoin, MarkFile,
         Leave, Quit, StopServer, OnHandshakeRequest, OnFileListRequest, OnChunkInfoRequest,
         OnChunkRequest, OnJoinNotification, OnLeaveNotification, OnHandshakeResponse,
         OnChunkRequestDecline, EndSession, fileVars
<1>3. Known' /\ NumsGrow /\ CountersKept
  BY <1>2, FilesKept, TypeParts DEF CountersKept
<1> QED
  BY <1>1, <1>3

LEMMA StepKnown ==
    ASSUME TypeInv, Known, [Next]_vars
    PROVE  TypeInv' /\ Known' /\ NumsGrow /\ CountersKept
<1>1. CASE UNCHANGED vars
  <2>1. UNCHANGED <<life, cli, state, heap, files, info, numReq, pending, disk, link, req, rep>>
    BY <1>1 DEF vars
  <2>2. NetTypes' /\ InfoTypes' /\ DiskTypes' /\ CounterTypes' /\ PendingTypes'
    BY <2>1, TypeParts DEF NetTypes, InfoTypes, DiskTypes, CounterTypes, PendingTypes
  <2>3. HeapTypes' /\ Known' /\ NumsGrow
    BY <2>1, TypeParts, FilesKept
  <2> QED
    BY <2>1, <2>2, <2>3, PartsType DEF CountersKept
<1>2. CASE Next
  <2>1. PICK n \in Running :
           \/ Join(n) \/ Starting(n) \/ MarkFile(n) \/ Leave(n) \/ Quit(n) \/ StopServer(n)
           \/ Download(n)
           \/ \E f \in File : Insert(n, f)
           \/ \E m \in Running : HandleRequest(n, m) \/ HandleReply(n, m) \/ EndSession(n, m)
    BY <1>2 DEF Next
  <2>2. CASE Join(n) \/ Starting(n) \/ MarkFile(n) \/ Leave(n) \/ Quit(n) \/ StopServer(n)
    BY <2>2, OtherSteps
  <2>3. CASE Download(n)
    BY <2>3, CountRequestStep, RequestChunkStep DEF Download
  <2>4. CASE \E f \in File : Insert(n, f)
    BY <2>4, InsertStep
  <2>5. ASSUME NEW m \in Running, HandleRequest(n, m) \/ HandleReply(n, m) \/ EndSession(n, m)
        PROVE  TypeInv' /\ Known' /\ NumsGrow /\ CountersKept
    <3>1. CASE OnNewFile(n, m)
      BY <3>1, OnNewFileStep
    <3>2. CASE OnNewChunk(n, m)
      BY <3>2, OnNewChunkStep
    <3>3. CASE OnFileList(n, m)
      BY <3>3, OnFileListStep
    <3>4. CASE OnChunkInfo(n, m)
      BY <3>4, OnChunkInfoStep
    <3>5. CASE OnChunk(n, m)
      BY <3>5, OnChunkStep
    <3>6. CASE \/ OnHandshakeRequest(n, m) \/ OnFileListRequest(n, m) \/ OnChunkInfoRequest(n, m)
               \/ OnChunkRequest(n, m) \/ OnJoinNotification(n, m) \/ OnLeaveNotification(n, m)
               \/ OnHandshakeResponse(n, m) \/ OnChunkRequestDecline(n, m) \/ EndSession(n, m)
      BY <3>6, OtherSteps
    <3> QED
      BY <2>5, <3>1, <3>2, <3>3, <3>4, <3>5, <3>6 DEF HandleRequest, HandleReply
  <2> QED
    BY <2>1, <2>2, <2>3, <2>4, <2>5
<1> QED
  BY <1>1, <1>2

LEMMA InitKnown == Init => TypeInv /\ Known
<1> SUFFICES ASSUME Init PROVE TypeInv /\ Known
  OBVIOUS
<1>1. \A n \in Running : n \in Node
  BY PeerAssumption
<1>2. NetTypes
  <2>1. 0 \in 0..MaxPeers
    <3>1. CASE Running = {}
      BY PeerAssumption, FS_CardinalityType DEF MaxPeers
    <3>2. CASE Running # {}
      BY <3>2, PeerAssumption, FS_CardinalityType DEF MaxPeers
    <3> QED
      BY <3>1, <3>2
  <2>2. <<>> \in Seq(Frames)
    OBVIOUS
  <2> QED
    BY <2>1, <2>2 DEF Init, NetTypes, Life, States, State, Links, Queues
<1>3. HeapTypes
  <2>1. heap \in [Running -> Seq(FileInfos)]
    <3>1. <<>> \in Seq(FileInfos)
      OBVIOUS
    <3> QED
      BY <3>1 DEF Init
  <2>2. \A n \in Running : files[n] \in [Node -> Seq(DOMAIN heap[n])]
    <3> SUFFICES ASSUME NEW n \in Running PROVE files[n] \in [Node -> Seq(DOMAIN heap[n])]
      OBVIOUS
    <3>1. files[n] = [m \in Node |-> <<>>]
      BY DEF Init
    <3>2. <<>> \in Seq(DOMAIN heap[n])
      OBVIOUS
    <3> QED
      BY <3>1, <3>2
  <2> QED
    BY <2>1, <2>2 DEF HeapTypes, Init
<1>4. \A n \in Running : numReq[n] = <<>> /\ DOMAIN numReq[n] = {}
  BY DEF Init
<1>5. CounterTypes /\ PendingTypes
  BY <1>4 DEF Init, CounterTypes, PendingTypes
<1>6. InfoTypes /\ DiskTypes
  BY DEF Init, InfoTypes, DiskTypes
<1>7. \A n \in Running, m \in Node : NumsOf(n, m) = {}
  <2> TAKE n \in Running, m \in Node
  <2>1. files[n][m] = <<>>
    BY DEF Init
  <2> QED
    BY <2>1 DEF NumsOf, Listed
<1>8. Known
  BY <1>1, <1>4, <1>7 DEF Known
<1> QED
  BY <1>2, <1>3, <1>5, <1>6, <1>8, TypeParts

\* The variables keep their types; every index in a file list is that of an
\* object of the node, whatever is announced, listed or inserted.
THEOREM TypeCorrect == Spec => []TypeOK
<1>1. Init => TypeInv /\ Known
  BY InitKnown
<1>2. (TypeInv /\ Known) /\ [Next]_vars => (TypeInv /\ Known)'
  BY StepKnown
<1>3. TypeInv /\ Known => TypeOK
  BY DEF TypeInv
<1> QED
  BY <1>1, <1>2, <1>3, PTL DEF Spec

-----------------------------------------------------------------------------
(***************************************************************************)
(* The frames in transit.  Each was there before the step, perhaps not yet *)
(* an orphan, or is sent in it.                                            *)
(***************************************************************************)
Held(q) == {q[i] : i \in DOMAIN q}
Orphan(f) == [f EXCEPT !.orphan = TRUE]
OldOf(q) == Held(q) \cup {Orphan(f) : f \in Held(q)}

\* What s announces in the step: a file it inserts, a chunk it got.
Announces(s, f) ==
    /\ f.type = "NEW_FILE_AVAILABLE" =>
         \E g \in File : Insert(s, g) /\ f.num = NextNum(s) /\ f.name = g /\ f.src = s
    /\ f.type = "NEW_CHUNK_AVAILABLE" =>
         \E p \in Running : LET c == Head(rep[s][p])
                            IN  OnChunk(s, p) /\ f.num = c.num /\ f.chunk = c.chunk /\ f.src = s

\* What is known of a request that s sends to m in the step.
NewRequest(s, m, f) ==
    /\ f \in Frames /\ f.orphan = FALSE
    /\ Connects(s, m)
    /\ f.type = "HANDSHAKE_REQUEST" =>
         /\ cli[s].at = "init" /\ cli[s].i < MaxPeers /\ m = PeerAt[s][cli[s].i]
         /\ InitRemotePeer(s) /\ state'[s][m] = "WAITING_FOR_HANDSHAKE"
    /\ f.type \in {"FILE_LIST_REQUEST", "CHUNK_INFO_REQUEST"} => state'[s][m] = "ONLINE"
    /\ f.type = "CHUNK_REQUEST" => f.num \in DOMAIN numReq[s] /\ m = PeerAt[s][1]
    /\ f.type \notin {"HANDSHAKE_REQUEST", "CHUNK_REQUEST"} => m # s
    /\ f.type = "PEER_JOIN_NOTIFICATION" =>
         f.src = s /\ state[s][m] = "ONLINE" /\ state'[s][s] = "ONLINE"
    /\ f.type = "PEER_LEAVE_NOTIFICATION" => f.src = s /\ life'[s] = "stopping"
    /\ Announces(s, f)

\* A chunk that m serves: one marked in its list, as it is on its disk.
Served(m, f) ==
    LET o == FileOf(m, m, f.num)
    IN  /\ f.num \in NumsOf(m, m)
        /\ f.chunk \in heap[m][o].has
        /\ f.data = disk[m][heap[m][o].name][f.chunk]

\* f is a reply to g.
Answers(g, f) ==
    /\ f.type = "HANDSHAKE_RESPONSE" => g.type = "HANDSHAKE_REQUEST"
    /\ f.type = "FILE_LIST" => g.type = "FILE_LIST_REQUEST"
    /\ f.type = "CHUNK_INFO" => g.type = "CHUNK_INFO_REQUEST"
    /\ f.type = "CHUNK" => g.type = "CHUNK_REQUEST" /\ g.num = f.num

\* And of a reply to s that m sends, to a request that was there.
NewReply(s, m, f) ==
    /\ f \in Frames
    /\ m \in Running
    /\ req[s][m] # <<>>
    /\ \E g \in Held(req[s][m]) : Answers(g, f)
    /\ f.type = "HANDSHAKE_RESPONSE" => state[m][m] = "ONLINE"
    /\ f.type = "CHUNK" => Served(m, f)

RequestTraffic ==
    \A s \in Running, m \in Node : \A f \in Held(req'[s][m]) :
        /\ f \in OldOf(req[s][m]) \/ NewRequest(s, m, f)
        /\ f \in Held(req[s][m]) \/ f.orphan = FALSE \/ link[s][m] = "closing"

ReplyTraffic ==
    \A s \in Running, m \in Node : \A f \in Held(rep'[s][m]) :
        f \in OldOf(rep[s][m]) \/ NewReply(s, m, f)

LEMMA HeldTail ==
    ASSUME NEW q \in Seq(Frames), q # <<>>
    PROVE  Held(Tail(q)) \subseteq Held(q) /\ Head(q) \in Held(q)
<1>1. /\ Head(q) = q[1] /\ DOMAIN q = 1..Len(q) /\ Len(q) \in Nat /\ Len(q) # 0
      /\ Tail(q) \in Seq(Frames) /\ Len(Tail(q)) = Len(q) - 1
      /\ \A i \in 1..Len(Tail(q)) : Tail(q)[i] = q[i + 1]
  BY HeadTailProperties, LenProperties, EmptySeq
<1>2. DOMAIN Tail(q) = 1..(Len(q) - 1)
  BY <1>1, LenProperties
<1>3. \A i \in 1..(Len(q) - 1) : i + 1 \in DOMAIN q /\ Tail(q)[i] = q[i + 1]
  BY <1>1
<1>4. 1 \in DOMAIN q
  BY <1>1
<1> QED
  BY <1>1, <1>2, <1>3, <1>4 DEF Held

LEMMA HeldConcat ==
    ASSUME NEW q \in Seq(Frames), NEW r \in Seq(Frames)
    PROVE  Held(q \o r) \subseteq Held(q) \cup Held(r)
<1>1. PICK b \in Seq(Frames) : b = q \o r
  BY ConcatProperties
<1>2. /\ Len(q) \in Nat /\ DOMAIN q = 1..Len(q) /\ Len(r) \in Nat /\ DOMAIN r = 1..Len(r)
      /\ DOMAIN b = 1..(Len(q) + Len(r))
      /\ \A i \in 1..(Len(q) + Len(r)) : b[i] = IF i <= Len(q) THEN q[i] ELSE r[i - Len(q)]
  BY <1>1, LenProperties, ConcatProperties
<1>3. \A i \in DOMAIN b : (i \in DOMAIN q /\ b[i] = q[i])
                          \/ (i - Len(q) \in DOMAIN r /\ b[i] = r[i - Len(q)])
  BY <1>2
<1> QED
  BY <1>1, <1>3 DEF Held

LEMMA HeldBoth ==
    ASSUME NEW q \in Seq(Frames), NEW r \in Seq(Frames)
    PROVE  Held(q) \subseteq Held(q \o r) /\ Held(r) \subseteq Held(q \o r)
<1>1. PICK b \in Seq(Frames) : b = q \o r
  BY ConcatProperties
<1>2. /\ Len(q) \in Nat /\ DOMAIN q = 1..Len(q) /\ Len(r) \in Nat /\ DOMAIN r = 1..Len(r)
      /\ DOMAIN b = 1..(Len(q) + Len(r))
      /\ \A i \in 1..(Len(q) + Len(r)) : b[i] = IF i <= Len(q) THEN q[i] ELSE r[i - Len(q)]
  BY <1>1, LenProperties, ConcatProperties
<1>3. \A i \in DOMAIN q : i \in DOMAIN b /\ b[i] = q[i]
  BY <1>2
<1>4. \A i \in DOMAIN r : i + Len(q) \in DOMAIN b /\ b[i + Len(q)] = r[i]
  BY <1>2
<1> QED
  BY <1>1, <1>3, <1>4 DEF Held

\* What is not the first of a queue stays when the first is taken.
LEMMA HeldRest ==
    ASSUME NEW q \in Seq(Frames), q # <<>>, NEW f \in Held(q), f # Head(q)
    PROVE  f \in Held(Tail(q))
<1>1. /\ Head(q) = q[1] /\ DOMAIN q = 1..Len(q) /\ Len(q) \in Nat /\ Len(q) # 0
      /\ Tail(q) \in Seq(Frames) /\ Len(Tail(q)) = Len(q) - 1
      /\ \A i \in 1..Len(Tail(q)) : Tail(q)[i] = q[i + 1]
  BY HeadTailProperties, LenProperties, EmptySeq
<1>2. DOMAIN Tail(q) = 1..(Len(q) - 1)
  BY <1>1, LenProperties
<1>3. PICK i \in DOMAIN q : f = q[i]
  BY DEF Held
<1>4. i # 1
  BY <1>1, <1>3
<1>5. i - 1 \in 1..(Len(q) - 1) /\ (i - 1) + 1 = i
  BY <1>1, <1>3, <1>4
<1>6. Tail(q)[i - 1] = q[i]
  BY <1>1, <1>5
<1> QED
  BY <1>2, <1>3, <1>5, <1>6 DEF Held

LEMMA HeldAppend ==
    ASSUME NEW q \in Seq(Frames), NEW f \in Frames
    PROVE  Held(Append(q, f)) \subseteq Held(q) \cup {f}
<1>1. Append(q, f) = q \o <<f>> /\ <<f>> \in Seq(Frames)
  BY AppendIsConcat
<1>2. Held(<<f>>) = {f}
  BY DEF Held
<1> QED
  BY <1>1, <1>2, HeldConcat

LEMMA HeldOne == ASSUME NEW f PROVE Held(<<f>>) = {f} /\ Held(<<>>) = {}
BY DEF Held

\* A queue that loses its first frame, or nothing.
LEMMA TakenTraffic ==
    ASSUME TypeInv, NEW n \in Running, NEW m \in Running
    PROVE  /\ req[m][n] # <<>> /\ req' = Handled(n, m) => RequestTraffic
           /\ rep[n][m] # <<>> /\ TakeReply(n, m) => ReplyTraffic
           /\ UNCHANGED req => RequestTraffic
           /\ UNCHANGED rep => ReplyTraffic
<1> USE PeerFacts, QueueTypes
<1>1. ASSUME req[m][n] # <<>>, req' = Handled(n, m) PROVE RequestTraffic
  <2>1. \A s \in Running, p \in Node :
          req'[s][p] = IF s = m /\ p = n THEN Tail(req[m][n]) ELSE req[s][p]
    BY <1>1, NetTypesFact DEF Handled, NetTypes, Queues
  <2>2. Held(Tail(req[m][n])) \subseteq Held(req[m][n])
    BY <1>1, HeldTail
  <2>3. \A s \in Running, p \in Node : Held(req'[s][p]) \subseteq Held(req[s][p])
    BY <2>1, <2>2
  <2> QED
    BY <2>3 DEF RequestTraffic, OldOf
<1>2. ASSUME rep[n][m] # <<>>, TakeReply(n, m) PROVE ReplyTraffic
  <2>1. \A s \in Running, p \in Node :
          rep'[s][p] = IF s = n /\ p = m THEN Tail(rep[n][m]) ELSE rep[s][p]
    BY <1>2, NetTypesFact DEF TakeReply, NetTypes, Queues
  <2>2. Held(Tail(rep[n][m])) \subseteq Held(rep[n][m])
    BY <1>2, HeldTail
  <2>3. \A s \in Running, p \in Node : Held(rep'[s][p]) \subseteq Held(rep[s][p])
    BY <2>1, <2>2
  <2> QED
    BY <2>3 DEF ReplyTraffic, OldOf
<1>3. UNCHANGED req => RequestTraffic
  BY DEF RequestTraffic, OldOf
<1>4. UNCHANGED rep => ReplyTraffic
  BY DEF ReplyTraffic, OldOf
<1> QED
  BY <1>1, <1>2, <1>3, <1>4

\* The reply f that n puts in the queue for m.
LEMMA PutTraffic ==
    ASSUME TypeInv, NEW n \in Running, NEW m \in Running, NEW f \in Frames,
           PutReply(n, m, f), NewReply(m, n, f)
    PROVE  ReplyTraffic
<1> USE PeerFacts, QueueTypes
<1>1. \A s \in Running, p \in Node :
        rep'[s][p] = IF s = m /\ p = n THEN Append(rep[m][n], f) ELSE rep[s][p]
  BY NetTypesFact DEF PutReply, NetTypes, Queues
<1>2. Held(Append(rep[m][n], f)) \subseteq Held(rep[m][n]) \cup {f}
  BY HeldAppend
<1> QED
  BY <1>1, <1>2 DEF ReplyTraffic, OldOf

\* The requests that n adds to the queues, one at most to each peer.
LEMMA SentTraffic ==
    ASSUME TypeInv, NEW n \in Running, NEW out \in [Node -> Seq(Frames)],
           \A s \in Running, m \in Node :
             \/ req'[s][m] = req[s][m]
             \/ s = n /\ Connects(n, m) /\ req'[s][m] = req[s][m] \o out[m],
           \A m \in Node : \A f \in Held(out[m]) : Connects(n, m) => NewRequest(n, m, f)
    PROVE  RequestTraffic
<1> SUFFICES ASSUME NEW s \in Running, NEW m \in Node, NEW f \in Held(req'[s][m])
             PROVE  f \in Held(req[s][m]) \/ (NewRequest(s, m, f) /\ f.orphan = FALSE)
  BY DEF RequestTraffic, OldOf
<1>1. CASE req'[s][m] = req[s][m]
  BY <1>1
<1>2. CASE s = n /\ Connects(n, m) /\ req'[s][m] = req[s][m] \o out[m]
  <2>1. Held(req[s][m] \o out[m]) \subseteq Held(req[s][m]) \cup Held(out[m])
    BY QueueTypes, HeldConcat
  <2>2. \A g : NewRequest(n, m, g) => g.orphan = FALSE
    BY DEF NewRequest
  <2> QED
    BY <1>2, <2>1, <2>2
<1> QED
  BY <1>1, <1>2

LEMMA SentFact ==
    ASSUME TypeInv, NEW n \in Running, NEW out \in [Node -> Seq(Frames)],
           NEW views \in [Node -> State], SendFrames(n, out, views, req)
    PROVE  Sent(n, out, views, req)
<1>1. PICK old \in Queues : old = req /\ SendFrames(n, out, views, old)
  BY NetTypesFact DEF NetTypes
<1> QED
  BY <1>1, SendFramesFacts

\* The same for sendFrame().
LEMMA SendTraffic ==
    ASSUME TypeInv, NEW n \in Running, NEW out \in [Node -> Seq(Frames)],
           NEW views \in [Node -> State], SendFrames(n, out, views, req),
           \A m \in Node : \A f \in Held(out[m]) :
             Connects(n, m) /\ state'[n][m] = views[m] => NewRequest(n, m, f)
    PROVE  RequestTraffic
<1>1. Sent(n, out, views, req)
  BY SentFact
<1>2. \A s \in Running, m \in Node :
         \/ req'[s][m] = req[s][m]
         \/ s = n /\ Connects(n, m) /\ req'[s][m] = req[s][m] \o out[m]
  BY <1>1 DEF Sent
<1>3. \A m \in Node : Connects(n, m) => state'[n][m] = views[m]
  BY <1>1 DEF Sent
<1> QED
  BY <1>2, <1>3, SentTraffic

\* The same for broadcastFrame().
LEMMA BroadcastTraffic ==
    ASSUME TypeInv, NEW n \in Running, NEW f \in Frames, NEW views, NEW views2 \in [Node -> State],
           SendFrames(n, Broadcast(n, f, views), views2, req),
           f.type \notin {"HANDSHAKE_REQUEST", "CHUNK_REQUEST", "PEER_LEAVE_NOTIFICATION"},
           f.orphan = FALSE,
           f.type = "PEER_JOIN_NOTIFICATION" =>
             views = state[n] /\ f.src = n /\ views2[n] = "ONLINE",
           f.type \in {"FILE_LIST_REQUEST", "CHUNK_INFO_REQUEST"} =>
             \A m \in Node : m # n => views2[m] = views[m],
           Announces(n, f)
    PROVE  RequestTraffic
<1>1. PICK out \in [Node -> Seq(Frames)] : out = Broadcast(n, f, views)
  BY BroadcastTypes
<1>2. \A m \in Node : out[m] \in {<<>>, <<f>>} /\ (out[m] # <<>> => m # n /\ views[m] = "ONLINE")
  BY <1>1, BroadcastTypes
<1>3. n \in Node /\ out[n] = <<>>
  BY <1>2, PeerFacts
<1>4. SendFrames(n, out, views2, req)
  BY <1>1
<1>5. state'[n][n] = views2[n]
  <2>1. Sent(n, out, views2, req)
    BY <1>4, SentFact
  <2> QED
    BY <1>3, <2>1 DEF Sent
<1>6. ASSUME NEW m \in Node, NEW g \in Held(out[m]),
             Connects(n, m), state'[n][m] = views2[m]
      PROVE  NewRequest(n, m, g)
  <2>1. g = f /\ m # n /\ views[m] = "ONLINE"
    <3>1. CASE out[m] = <<>>
      BY <1>6, <3>1, HeldOne
    <3>2. CASE out[m] = <<f>> /\ out[m] # <<>>
      BY <1>2, <1>6, <3>2, HeldOne
    <3> QED
      BY <1>2, <3>1, <3>2
  <2> QED
    BY <1>5, <1>6, <2>1 DEF NewRequest
<1> QED
  BY <1>4, <1>6, SendTraffic

\* The frames that the command line and the download loop send.
LEMMA CommandTraffic ==
    ASSUME TypeInv, NEW n \in Running,
           \/ InitRemotePeer(n) \/ Leave(n) \/ (\E f \in File : Insert(n, f))
           \/ \E num \in DOMAIN numReq[n] : RequestChunk(n, num)
    PROVE  RequestTraffic /\ ReplyTraffic
<1> USE PeerFacts
<1>1. rep' = rep
  BY DEF InitRemotePeer, Leave, Insert, RequestChunk
<1>2. ReplyTraffic
  BY <1>1, TakenTraffic
<1>3. state[n] \in [Node -> State] /\ state \in States /\ cli \in [Running -> [at : {"ready", "init", "mark"}, i : 0..MaxPeers]]
  BY NetTypesFact DEF NetTypes, States
<1>4. CASE InitRemotePeer(n)
  <2>1. PICK m \in Node : m = PeerAt[n][cli[n].i]
    BY <1>3, <1>4 DEF InitRemotePeer
  <2>2. PICK f \in Frames : f = Frame("HANDSHAKE_REQUEST")
    BY PlainFrames
  <2>3. PICK out \in [Node -> Seq(Frames)] : out = [NoFrames EXCEPT ![m] = <<f>>]
    BY OneFrameTypes
  <2>4. \A p \in Node : out[p] = IF p = m THEN <<f>> ELSE <<>>
    BY <2>3, OneFrameTypes
  <2>5. PICK views \in [Node -> State] : views = [state[n] EXCEPT ![m] = "WAITING_FOR_HANDSHAKE"]
    BY <1>3 DEF State
  <2>6. SendFrames(n, out, views, req)
    BY <1>4, <2>1, <2>2, <2>3, <2>5 DEF InitRemotePeer
  <2>7. ASSUME NEW p \in Node, NEW g \in Held(out[p]), Connects(n, p), state'[n][p] = views[p]
        PROVE  NewRequest(n, p, g)
    <3>1. g = f /\ p = m
      BY <2>4, <2>7, HeldOne
    <3>2. f.type = "HANDSHAKE_REQUEST" /\ f.orphan = FALSE
      BY <2>2 DEF Frame
    <3>3. views[p] = "WAITING_FOR_HANDSHAKE"
      BY <1>3, <2>5, <3>1
    <3>4. cli[n].at = "init" /\ cli[n].i < MaxPeers
      BY <1>4 DEF InitRemotePeer
    <3> QED
      BY <1>4, <2>1, <2>7, <3>1, <3>2, <3>3, <3>4 DEF NewRequest, Announces
  <2> QED
    BY <1>2, <2>6, <2>7, SendTraffic
<1>5. CASE Leave(n)
  <2>1. PICK f \in Frames : f = [type |-> "PEER_LEAVE_NOTIFICATION", orphan |-> FALSE, src |-> n]
    BY DEF Frames
  <2>2. f.type = "PEER_LEAVE_NOTIFICATION" /\ f.src = n /\ f.orphan = FALSE
    BY <2>1
  <2>3. PICK out \in [Node -> Seq(Frames)] : out = Broadcast(n, f, state[n])
    BY BroadcastTypes
  <2>4. req' = [req EXCEPT ![n] = RequestsAfter(n, out, req)] /\ life'[n] = "stopping"
    BY <1>5, <2>1, <2>3, NetTypesFact DEF Leave, NetTypes
  <2>5. \A s \in Running, m \in Node :
             \/ req'[s][m] = req[s][m]
             \/ s = n /\ Connects(n, m) /\ req'[s][m] = req[s][m] \o out[m]
    BY <2>4, NetTypesFact DEF RequestsAfter, NetTypes, Queues
  <2>6. ASSUME NEW p \in Node, NEW g \in Held(out[p]), Connects(n, p)
        PROVE  NewRequest(n, p, g)
    <3>1. out[p] \in {<<>>, <<f>>} /\ (out[p] # <<>> => p # n)
      BY <2>3, BroadcastTypes
    <3>2. out[p] = <<f>> /\ out[p] # <<>>
      BY <2>6, <3>1, HeldOne
    <3>3. g = f /\ p # n
      BY <2>6, <3>1, <3>2, HeldOne
    <3> QED
      BY <2>2, <2>4, <2>6, <3>3 DEF NewRequest, Announces
  <2> QED
    BY <1>2, <2>5, <2>6, SentTraffic
<1>6. ASSUME NEW f \in File, Insert(n, f) PROVE RequestTraffic
  <2>1. PICK num \in Nat : num = NextNum(n)
    BY NextNumIsNew
  <2>2. PICK g \in Frames : g = [type |-> "NEW_FILE_AVAILABLE", orphan |-> FALSE, num |-> num,
                                 name |-> f, src |-> n]
    BY DEF Frames
  <2>3. /\ g.type = "NEW_FILE_AVAILABLE" /\ g.num = NextNum(n) /\ g.name = f /\ g.src = n
        /\ g.orphan = FALSE
    BY <2>1, <2>2
  <2>4. PICK views \in [Node -> State] : views = state[n]
    BY <1>3
  <2>5. SendFrames(n, Broadcast(n, g, views), views, req)
    BY <1>6, <2>1, <2>2, <2>4 DEF Insert
  <2>6. Announces(n, g)
    BY <1>6, <2>3 DEF Announces
  <2> QED
    BY <2>3, <2>5, <2>6, BroadcastTraffic
<1>7. ASSUME NEW num \in DOMAIN numReq[n], RequestChunk(n, num) PROVE RequestTraffic
  <2>1. PICK missing \in SUBSET Chunk : /\ missing = Chunk \ heap[n][FileOf(n, n, num)].has
                                        /\ missing # {}
    BY <1>7 DEF RequestChunk
  <2>2. Min(missing) \in Chunk
    BY <2>1, LeastNumber DEF Min, Chunk
  <2>3. num \in Nat
    BY TypeParts DEF CounterTypes
  <2>4. PICK f \in Frames : f = ChunkFrame("CHUNK_REQUEST", num, Min(missing))
    BY <2>2, <2>3 DEF ChunkFrame, Frames
  <2>5. f.type = "CHUNK_REQUEST" /\ f.num = num /\ f.orphan = FALSE
    BY <2>4 DEF ChunkFrame
  <2>6. PICK m : m = PeerAt[n][1]
    OBVIOUS
  <2>7. PICK out \in [Node -> Seq(Frames)] : out = [NoFrames EXCEPT ![m] = <<f>>]
    BY OneFrameTypes
  <2>8. \A p \in Node : out[p] = IF p = m THEN <<f>> ELSE <<>>
    BY <2>7, OneFrameTypes
  <2>9. PICK views \in [Node -> State] : views = state[n]
    BY <1>3
  <2>10. SendFrames(n, out, views, req)
    BY <1>7, <2>1, <2>4, <2>6, <2>7, <2>9 DEF RequestChunk
  <2>11. ASSUME NEW p \in Node, NEW g \in Held(out[p]), Connects(n, p)
         PROVE  NewRequest(n, p, g)
    <3>1. g = f /\ p = m
      BY <2>8, <2>11, HeldOne
    <3> QED
      BY <1>7, <2>5, <2>6, <2>11, <3>1 DEF NewRequest, Announces
  <2> QED
    BY <2>10, <2>11, SendTraffic
<1> QED
  BY <1>2, <1>4, <1>5, <1>6, <1>7

\* What is left of a session that ends.
LEMMA EndTraffic ==
    ASSUME TypeInv, NEW n \in Running, NEW m \in Running, EndSession(n, m)
    PROVE  RequestTraffic /\ ReplyTraffic
<1> USE PeerFacts
<1>1. PICK k \in 0..Len(req[n][m]), j \in 0..Len(rep[n][m]) :
         /\ req' = [req EXCEPT ![n][m] = [i \in 1..k |-> [@[i] EXCEPT !.orphan = TRUE]]]
         /\ rep' = [rep EXCEPT ![n][m] = SubSeq(@, 1, j)]
  BY DEF EndSession
<1>2. /\ req[n][m] \in Seq(Frames) /\ rep[n][m] \in Seq(Frames)
      /\ Len(req[n][m]) \in Nat /\ Len(rep[n][m]) \in Nat
      /\ DOMAIN req[n][m] = 1..Len(req[n][m]) /\ DOMAIN rep[n][m] = 1..Len(rep[n][m])
  BY QueueTypes, LenProperties
<1>3. PICK left : left = [i \in 1..k |-> [req[n][m][i] EXCEPT !.orphan = TRUE]]
  OBVIOUS
<1>4. \A s \in Running, p \in Node :
         /\ req'[s][p] = IF s = n /\ p = m THEN left ELSE req[s][p]
         /\ rep'[s][p] = IF s = n /\ p = m THEN SubSeq(rep[n][m], 1, j) ELSE rep[s][p]
  BY <1>1, <1>3, NetTypesFact DEF NetTypes, Queues
<1>5. Held(left) \subseteq OldOf(req[n][m])
  <2>1. \A i \in 1..k : i \in DOMAIN req[n][m] /\ left[i] = Orphan(req[n][m][i])
    BY <1>2, <1>3 DEF Orphan
  <2>2. DOMAIN left = 1..k
    BY <1>3
  <2> QED
    BY <2>1, <2>2 DEF Held, OldOf
<1>6. Held(SubSeq(rep[n][m], 1, j)) \subseteq OldOf(rep[n][m])
  <2>1. PICK q \in Seq(Frames) : q = rep[n][m] /\ Len(q) \in Nat /\ DOMAIN q = 1..Len(q)
    BY <1>2
  <2>2. j \in 0..Len(q) /\ j \in Nat
    BY <2>1
  <2>3. \A i \in 1..j : q[i] \in Frames
    BY <2>1, <2>2, ElementOfSeq
  <2>4. PICK r : r = SubSeq(q, 1, j)
    OBVIOUS
  <2>5. DOMAIN r = 1..j /\ \A i \in 1..j : r[i] = q[i]
    BY <2>1, <2>2, <2>3, <2>4, SubSeqProperties
  <2>6. Held(r) \subseteq Held(q)
    BY <2>1, <2>2, <2>5 DEF Held
  <2> QED
    BY <2>1, <2>4, <2>6 DEF OldOf
<1>7. \A s \in Running, p \in Node : /\ Held(req'[s][p]) \subseteq OldOf(req[s][p])
                                     /\ Held(rep'[s][p]) \subseteq OldOf(rep[s][p])
  BY <1>4, <1>5, <1>6 DEF OldOf
<1>8. \A s \in Running, p \in Node : req'[s][p] = req[s][p] \/ link[s][p] = "closing"
  BY <1>4 DEF EndSession
<1> QED
  BY <1>7, <1>8 DEF RequestTraffic, ReplyTraffic

\* The frames that the accept thread sends for a request.
LEMMA RequestHandlerTraffic ==
    ASSUME TypeInv, NEW n \in Running, NEW m \in Running, HandleRequest(n, m)
    PROVE  RequestTraffic /\ ReplyTraffic
<1> USE PeerFacts
<1>1. req[m][n] # <<>> /\ req' = Handled(n, m)
  BY DEF HandleRequest, OnHandshakeRequest, OnFileListRequest, OnChunkInfoRequest, OnNewFile,
         OnNewChunk, OnChunkRequest, OnJoinNotification, OnLeaveNotification, Request
<1>2. /\ RequestTraffic /\ (UNCHANGED rep => ReplyTraffic)
      /\ Head(req[m][n]) \in Held(req[m][n])
  BY <1>1, TakenTraffic, QueueTypes, HeldTail
<1>3. CASE OnHandshakeRequest(n, m)
  <2>1. PICK f \in Frames : f = Frame("HANDSHAKE_RESPONSE")
    BY PlainFrames
  <2>2. f.type = "HANDSHAKE_RESPONSE"
    BY <2>1 DEF Frame
  <2>3. UNCHANGED rep \/ (PutReply(n, m, f) /\ state[n][n] = "ONLINE")
    BY <1>3, <2>1 DEF OnHandshakeRequest
  <2>4. state[n][n] = "ONLINE" => NewReply(m, n, f)
    <3>1. Head(req[m][n]).type = "HANDSHAKE_REQUEST"
      BY <1>3 DEF OnHandshakeRequest, Request
    <3> QED
      BY <1>1, <1>2, <2>2, <3>1 DEF NewReply, Answers
  <2> QED
    BY <1>2, <2>3, <2>4, PutTraffic
<1>4. CASE OnFileListRequest(n, m)
  <2> DEFINE entry(i) == LET o == heap[n][files[n][n][i]] IN [num |-> o.num, name |-> o.name]
             list == [i \in DOMAIN files[n][n] |-> entry(i)]
  <2>1. \A i \in DOMAIN files[n][n] : entry(i) \in Entries
    BY ListTypes DEF Entries, FileInfos
  <2>2. DOMAIN files[n][n] = 1..Len(files[n][n]) /\ Len(files[n][n]) \in Nat
    BY ListTypes, LenProperties
  <2>3. list \in Seq(Entries)
    <3> HIDE DEF entry
    <3> QED
      BY <2>1, <2>2
  <2>4. PICK f \in Frames : f = [type |-> "FILE_LIST", orphan |-> FALSE, list |-> list]
    <3> HIDE DEF list
    <3> QED
      BY <2>3 DEF Frames, Entries
  <2>5. f.type = "FILE_LIST"
    <3> HIDE DEF list
    <3> QED
      BY <2>4
  <2>6. NewReply(m, n, f)
    <3>1. Head(req[m][n]).type = "FILE_LIST_REQUEST"
      BY <1>4 DEF OnFileListRequest, Request
    <3> HIDE DEF list
    <3> QED
      BY <1>1, <1>2, <2>5, <3>1 DEF NewReply, Answers
  <2>7. UNCHANGED rep \/ PutReply(n, m, f)
    BY <1>4, <2>4 DEF OnFileListRequest
  <2> QED
    BY <1>2, <2>6, <2>7, PutTraffic
<1>5. CASE OnChunkInfoRequest(n, m)
  <2>1. \A s \in SUBSET Nat : [type |-> "CHUNK_INFO", orphan |-> FALSE, nums |-> s] \in Frames
    BY DEF Frames
  <2>2. NumsOf(n, n) \in SUBSET Nat /\ NumsOf(n, n) \cup {0} \in SUBSET Nat
    BY ListTypes
  <2>3. UNCHANGED rep \/ \E f \in Frames : f.type = "CHUNK_INFO" /\ PutReply(n, m, f)
    BY <1>5, <2>1, <2>2 DEF OnChunkInfoRequest
  <2>4. \A f \in Frames : f.type = "CHUNK_INFO" => NewReply(m, n, f)
    <3>1. Head(req[m][n]).type = "CHUNK_INFO_REQUEST"
      BY <1>5 DEF OnChunkInfoRequest, Request
    <3> QED
      BY <1>1, <1>2, <3>1 DEF NewReply, Answers
  <2> QED
    BY <1>2, <2>3, <2>4, PutTraffic
<1>6. CASE OnChunkRequest(n, m)
  <2>1. PICK g \in Frames : g = Head(req[m][n]) /\ g.type = "CHUNK_REQUEST" /\ g \in Held(req[m][n])
    BY <1>1, <1>6, QueueTypes, HeldTail DEF OnChunkRequest, Request
  <2>2. UNCHANGED rep \/ (g.num \in NumsOf(n, n) /\ PutReply(n, m, Answer(n, g)))
    BY <1>6, <2>1 DEF OnChunkRequest
  <2>3. ASSUME g.num \in NumsOf(n, n), PutReply(n, m, Answer(n, g)) PROVE ReplyTraffic
    <3>1. PICK f \in Frames : f = Answer(n, g)
      BY <2>1, <2>3, AnswerTypes
    <3>2. f.type \in {"CHUNK", "CHUNK_REQUEST_DECLINE"} /\ f.num = g.num
      BY <3>1 DEF Answer, ChunkFrame
    <3>3. f.type = "CHUNK" => Served(n, f)
      BY <2>3, <3>1, <3>2 DEF Answer, ChunkFrame, Served
    <3>4. NewReply(m, n, f)
      BY <1>1, <2>1, <3>2, <3>3 DEF NewReply, Answers
    <3> QED
      BY <2>3, <3>1, <3>4, PutTraffic
  <2> QED
    BY <1>2, <2>2, <2>3
<1>7. CASE OnNewFile(n, m) \/ OnNewChunk(n, m) \/ OnJoinNotification(n, m) \/ OnLeaveNotification(n, m)
  BY <1>2, <1>7 DEF OnNewFile, OnNewChunk, OnJoinNotification, OnLeaveNotification
<1> QED
  BY <1>2, <1>3, <1>4, <1>5, <1>6, <1>7 DEF HandleRequest

\* changeStateToOnlineAndNotify() tells those that n takes to be ONLINE.
LEMMA GoOnlineTraffic ==
    ASSUME TypeInv, NEW n \in Running, GoOnline(n, state[n])
    PROVE  RequestTraffic
<1>1. PICK g \in Frames : g = [type |-> "PEER_JOIN_NOTIFICATION", orphan |-> FALSE, src |-> n]
  BY DEF Frames
<1>2. g.type = "PEER_JOIN_NOTIFICATION" /\ g.src = n /\ g.orphan = FALSE
  BY <1>1
<1>3. PICK views : views = state[n]
  OBVIOUS
<1>4. PICK views2 \in [Node -> State] : views2 = [state[n] EXCEPT ![n] = "ONLINE"] /\ views2[n] = "ONLINE"
  <2>1. PICK old \in [Node -> State] : old = state[n]
    BY NetTypesFact DEF NetTypes, States
  <2>2. /\ [old EXCEPT ![n] = "ONLINE"] \in [Node -> State]
        /\ [old EXCEPT ![n] = "ONLINE"][n] = "ONLINE"
    BY PeerFacts DEF State
  <2> QED
    BY <2>1, <2>2
<1>5. SendFrames(n, Broadcast(n, g, views), views2, req)
  BY <1>1, <1>3, <1>4 DEF GoOnline
<1>6. Announces(n, g)
  BY <1>2 DEF Announces
<1> QED
  BY <1>2, <1>3, <1>4, <1>5, <1>6, BroadcastTraffic

\* The frames that the accept thread sends on a reply.
LEMMA ReplyHandlerTraffic ==
    ASSUME TypeInv, NEW n \in Running, NEW m \in Running, HandleReply(n, m)
    PROVE  RequestTraffic /\ ReplyTraffic
<1> USE PeerFacts
<1>1. rep[n][m] # <<>> /\ TakeReply(n, m)
  BY DEF HandleReply, OnHandshakeResponse, OnFileList, OnChunkInfo, OnChunk,
         OnChunkRequestDecline, Reply
<1>2. ReplyTraffic /\ (UNCHANGED req => RequestTraffic)
  BY <1>1, TakenTraffic
<1>3. state[n] \in [Node -> State]
  BY NetTypesFact DEF NetTypes, States
<1>4. CASE OnHandshakeResponse(n, m)
  <2>1. PICK views \in [Node -> State] : views = [state[n] EXCEPT ![m] = "ONLINE"]
    BY <1>3 DEF State
  <2>2. PICK f \in Frames : f = Frame("FILE_LIST_REQUEST") /\ f.type = "FILE_LIST_REQUEST"
                          /\ f.orphan = FALSE
    <3>1. /\ Frame("FILE_LIST_REQUEST").type = "FILE_LIST_REQUEST"
          /\ Frame("FILE_LIST_REQUEST").orphan = FALSE
      BY DEF Frame
    <3> QED
      BY <3>1, PlainFrames
  <2>3. PICK views2 \in [Node -> State] : views2 = [views EXCEPT ![n] = "WAITING_FOR_FILE_LIST"]
    BY DEF State
  <2>4. UNCHANGED req \/ SendFrames(n, Broadcast(n, f, views), views2, req)
    BY <1>4, <2>1, <2>2, <2>3 DEF OnHandshakeResponse
  <2>5. Announces(n, f)
    BY <2>2 DEF Announces
  <2>6. \A p \in Node : p # n => views2[p] = views[p]
    BY <2>3
  <2> QED
    BY <1>2, <2>2, <2>4, <2>5, <2>6, BroadcastTraffic
<1>5. CASE OnFileList(n, m)
  <2>1. PICK list : list = Head(rep[n][m]).list
    OBVIOUS
  <2> DEFINE ask == [p \in Node |->
                       IF p # n /\ state[n][p] = "ONLINE" /\ list[1].num \notin info[n][p]
                       THEN <<Frame("CHUNK_INFO_REQUEST")>> ELSE <<>>]
  <2>2. PICK g \in Frames : g = Frame("CHUNK_INFO_REQUEST") /\ g.type = "CHUNK_INFO_REQUEST"
                          /\ g.orphan = FALSE
    <3>1. /\ Frame("CHUNK_INFO_REQUEST").type = "CHUNK_INFO_REQUEST"
          /\ Frame("CHUNK_INFO_REQUEST").orphan = FALSE
      BY DEF Frame
    <3> QED
      BY <3>1, PlainFrames
  <2>3. /\ ask \in [Node -> Seq(Frames)]
        /\ \A p \in Node : ask[p] = <<>> \/ (p # n /\ state[n][p] = "ONLINE" /\ ask[p] = <<g>>)
    <3>1. <<g>> \in Seq(Frames) /\ <<>> \in Seq(Frames)
      OBVIOUS
    <3> QED
      BY <2>2, <3>1
  <2>4. PICK out \in [Node -> Seq(Frames)] :
            /\ out = ask
            /\ \A p \in Node : out[p] = <<>> \/ (p # n /\ state[n][p] = "ONLINE" /\ out[p] = <<g>>)
    BY <2>3
  <2>5. PICK views \in [Node -> State] : views = [state[n] EXCEPT ![n] = "WAITING_FOR_CHUNK_INFO"]
    BY <1>3 DEF State
  <2>6. UNCHANGED req \/ GoOnline(n, state[n]) \/ SendFrames(n, out, views, req)
    BY <1>5, <2>1, <2>4, <2>5 DEF OnFileList, linkVars
  <2>7. ASSUME NEW p \in Node, NEW f \in Held(out[p]), Connects(n, p), state'[n][p] = views[p]
        PROVE  NewRequest(n, p, f)
    <3>1. f = g /\ p # n /\ state[n][p] = "ONLINE"
      BY <2>4, <2>7, HeldOne
    <3>2. views[p] = "ONLINE"
      BY <1>3, <2>5, <3>1
    <3> QED
      BY <2>2, <2>7, <3>1, <3>2 DEF NewRequest, Announces
  <2> HIDE DEF ask
  <2> QED
    BY <1>2, <2>6, <2>7, GoOnlineTraffic, SendTraffic
<1>6. CASE OnChunkInfo(n, m)
  <2>1. UNCHANGED req \/ GoOnline(n, state[n])
    BY <1>6 DEF OnChunkInfo, linkVars
  <2> QED
    BY <1>2, <2>1, GoOnlineTraffic
<1>7. CASE OnChunk(n, m)
  <2>1. PICK f \in Frames : f = Head(rep[n][m]) /\ f.type = "CHUNK"
    BY <1>7, QueueTypes DEF OnChunk, Reply
  <2>2. PICK g \in Frames : g = NewChunkFrame(n, f.num, f.chunk)
    <3>1. f.num \in Nat /\ f.chunk \in Chunk
      BY <2>1, FrameFields
    <3> QED
      BY <3>1 DEF NewChunkFrame, Frames
  <2>3. /\ g.type = "NEW_CHUNK_AVAILABLE" /\ g.num = f.num /\ g.chunk = f.chunk /\ g.src = n
        /\ g.orphan = FALSE
    BY <2>2 DEF NewChunkFrame
  <2>4. PICK views \in [Node -> State] : views = state[n]
    BY <1>3
  <2>5. SendFrames(n, Broadcast(n, g, views), views, req)
    BY <1>7, <2>1, <2>2, <2>4 DEF OnChunk
  <2>6. Announces(n, g)
    BY <1>7, <2>1, <2>3 DEF Announces
  <2> QED
    BY <1>2, <2>3, <2>5, <2>6, BroadcastTraffic
<1>8. CASE OnChunkRequestDecline(n, m)
  BY <1>2, <1>8 DEF OnChunkRequestDecline
<1> QED
  BY <1>4, <1>5, <1>6, <1>7, <1>8 DEF HandleReply

LEMMA StepTraffic ==
    ASSUME TypeInv, [Next]_vars
    PROVE  RequestTraffic /\ ReplyTraffic
<1>1. UNCHANGED <<req, rep>> => RequestTraffic /\ ReplyTraffic
  BY DEF RequestTraffic, ReplyTraffic, OldOf
<1>2. CASE UNCHANGED vars
  BY <1>1, <1>2 DEF vars
<1>3. CASE Next
  <2>1. PICK n \in Running :
           \/ Join(n) \/ Starting(n) \/ MarkFile(n) \/ Leave(n) \/ Quit(n) \/ StopServer(n)
           \/ Download(n)
           \/ \E f \in File : Insert(n, f)
           \/ \E m \in Running : HandleRequest(n, m) \/ HandleReply(n, m) \/ EndSession(n, m)
    BY <1>3 DEF Next
  <2>2. CASE Join(n) \/ MarkFile(n) \/ Quit(n) \/ StopServer(n)
    BY <1>1, <2>2 DEF Join, MarkFile, Quit, StopServer
  <2>3. CASE Starting(n)
    BY <1>1, <2>3, CommandTraffic DEF Starting, FinishInit, MarkNextPeer, ReturnFromJoin
  <2>4. CASE Leave(n) \/ \E f \in File : Insert(n, f)
    BY <2>4, CommandTraffic
  <2>5. CASE Download(n)
    BY <1>1, <2>5, CommandTraffic DEF Download, CountRequest
  <2>6. CASE \E m \in Running : HandleRequest(n, m) \/ HandleReply(n, m) \/ EndSession(n, m)
    BY <2>6, RequestHandlerTraffic, ReplyHandlerTraffic, EndTraffic
  <2> QED
    BY <2>1, <2>2, <2>3, <2>4, <2>5, <2>6
<1> QED
  BY <1>2, <1>3

-----------------------------------------------------------------------------
(***************************************************************************)
(* A chunk that is asked for, or on its way, is one of a file that was     *)
(* queued for download, and so of one that n has in its list.              *)
(***************************************************************************)
Carried ==
    \A n \in Running, m \in Node :
        /\ \A f \in Held(req[n][m]) : f.type = "CHUNK_REQUEST" => f.num \in DOMAIN numReq[n]
        /\ \A f \in Held(rep[n][m]) : f.type = "CHUNK" => f.num \in DOMAIN numReq[n]

LEMMA HeldFrames ==
    ASSUME TypeInv, NEW n \in Running, NEW m \in Node
    PROVE  Held(req[n][m]) \subseteq Frames /\ Held(rep[n][m]) \subseteq Frames
BY QueueTypes, ElementOfSeq, LenProperties DEF Held

\* What an orphan keeps of the frame it was.
LEMMA OldFields ==
    ASSUME NEW q, Held(q) \subseteq Frames, NEW f \in OldOf(q)
    PROVE  \E g \in Held(q) :
             /\ f.type = g.type
             /\ f.type \in {"PEER_JOIN_NOTIFICATION", "PEER_LEAVE_NOTIFICATION"} => f.src = g.src
             /\ f.type \in {"CHUNK_REQUEST", "CHUNK"} => f.num = g.num
             /\ f.type = "NEW_FILE_AVAILABLE" =>
                  f.num = g.num /\ f.name = g.name /\ f.src = g.src
             /\ f.type = "NEW_CHUNK_AVAILABLE" =>
                  f.num = g.num /\ f.chunk = g.chunk /\ f.src = g.src
             /\ f.type = "CHUNK" => f.chunk = g.chunk /\ f.data = g.data
<1>1. CASE f \in Held(q)
  BY <1>1
<1>2. ASSUME NEW g \in Held(q), f = Orphan(g)
      PROVE  /\ f.type = g.type
             /\ f.type \in {"PEER_JOIN_NOTIFICATION", "PEER_LEAVE_NOTIFICATION"} => f.src = g.src
             /\ f.type \in {"CHUNK_REQUEST", "CHUNK"} => f.num = g.num
             /\ f.type = "NEW_FILE_AVAILABLE" =>
                  f.num = g.num /\ f.name = g.name /\ f.src = g.src
             /\ f.type = "NEW_CHUNK_AVAILABLE" =>
                  f.num = g.num /\ f.chunk = g.chunk /\ f.src = g.src
             /\ f.type = "CHUNK" => f.chunk = g.chunk /\ f.data = g.data
  <2>1. g \in Frames
    OBVIOUS
  <2> QED
    BY <1>2, <2>1, OrphanFields DEF Orphan
<1> QED
  BY <1>1, <1>2 DEF OldOf

LEMMA StepCarried ==
    ASSUME TypeInv, Known, Carried, [Next]_vars
    PROVE  Carried'
<1>1. RequestTraffic /\ ReplyTraffic /\ CountersKept
  BY StepTraffic, StepKnown
<1> SUFFICES ASSUME NEW n \in Running, NEW m \in Node
             PROVE  /\ \A f \in Held(req'[n][m]) :
                         f.type = "CHUNK_REQUEST" => f.num \in DOMAIN numReq'[n]
                    /\ \A f \in Held(rep'[n][m]) :
                         f.type = "CHUNK" => f.num \in DOMAIN numReq'[n]
  BY DEF Carried, Held
<1>2. DOMAIN numReq[n] \subseteq DOMAIN numReq'[n]
  BY <1>1 DEF CountersKept
<1>3. ASSUME NEW f \in Held(req'[n][m]), f.type = "CHUNK_REQUEST"
      PROVE  f.num \in DOMAIN numReq'[n]
  <2>1. CASE f \in OldOf(req[n][m])
    <3>1. PICK g \in Held(req[n][m]) : g.type = "CHUNK_REQUEST" /\ f.num = g.num
      BY <1>3, <2>1, HeldFrames, OldFields
    <3> QED
      BY <1>2, <3>1 DEF Carried
  <2>2. CASE NewRequest(n, m, f)
    BY <1>2, <1>3, <2>2 DEF NewRequest
  <2> QED
    BY <1>1, <2>1, <2>2 DEF RequestTraffic
<1>4. ASSUME NEW f \in Held(rep'[n][m]), f.type = "CHUNK"
      PROVE  f.num \in DOMAIN numReq'[n]
  <2>1. CASE f \in OldOf(rep[n][m])
    <3>1. PICK g \in Held(rep[n][m]) : g.type = "CHUNK" /\ f.num = g.num
      BY <1>4, <2>1, HeldFrames, OldFields
    <3> QED
      BY <1>2, <3>1 DEF Carried
  <2>2. CASE NewReply(n, m, f)
    <3>1. PICK g \in Held(req[n][m]) : g.type = "CHUNK_REQUEST" /\ g.num = f.num
      BY <1>4, <2>2 DEF NewReply, Answers
    <3> QED
      BY <1>2, <3>1 DEF Carried
  <2> QED
    BY <1>1, <2>1, <2>2 DEF ReplyTraffic
<1> QED
  BY <1>3, <1>4

\* What is shown to hold for ever of the files.
FilesInv == TypeInv /\ Known /\ Carried

LEMMA FilesInvHolds == Spec => []FilesInv
<1>1. Init => FilesInv
  <2> SUFFICES ASSUME Init PROVE Carried
    BY InitKnown DEF FilesInv
  <2>1. \A n \in Running, m \in Node : req[n][m] = <<>> /\ rep[n][m] = <<>>
    BY DEF Init
  <2> QED
    BY <2>1 DEF Carried, Held
<1>2. FilesInv /\ [Next]_vars => FilesInv'
  BY StepKnown, StepCarried DEF FilesInv
<1> QED
  BY <1>1, <1>2, PTL DEF Spec

\* The look-ups of a local file in the handlers of CHUNK_INFO and CHUNK and in
\* downloadLoop() find one: each file another peer is known to have, each one
\* queued for download and each one of which a chunk is on its way is in the
\* own list of the node.  Of the look-up in the handler of NEW_CHUNK_AVAILABLE
\* this says nothing: see ChunksComeAfterFiles in ReplicaProofs.
THEOREM LookupsSucceed == Spec => []FilesAreKnown
<1>1. FilesInv => FilesAreKnown
  <2> SUFFICES ASSUME FilesInv, NEW n \in Running
               PROVE  /\ \A m \in Node : NumsOf(n, m) \subseteq NumsOf(n, n)
                      /\ DOMAIN numReq[n] \subseteq NumsOf(n, n)
                      /\ \A m \in Node : \A i \in DOMAIN rep[n][m] :
                           rep[n][m][i].type = "CHUNK" => rep[n][m][i].num \in DOMAIN numReq[n]
    BY DEF FilesAreKnown
  <2> QED
    BY DEF FilesInv, Known, Carried, Held
<1> QED
  BY <1>1, FilesInvHolds, PTL
=============================================================================
