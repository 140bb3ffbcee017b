--------------------------- MODULE MembershipProofs ---------------------------
(***************************************************************************)
(* Proofs about Peer: who takes whom to be a member of the network.  That  *)
(* nobody takes a peer to be ONLINE that is not, that a joining node asks  *)
(* a single peer for its files, and that of two nodes that are up one      *)
(* finds the other, rest on one another and on what the frames in transit  *)
(* say of the node that sent them.                                         *)
(***************************************************************************)
EXTENDS PeerProofs

\* A node that has not joined has contacted nobody.
Fresh ==
    \A n \in Running : life[n] = "off" =>
        cli[n].at = "ready" /\ \A m \in Node : state[n][m] = "UNKNOWN"

\* join() contacts the entries of peers.txt from entry 1 on.
Contacting == \A n \in Running : cli[n].at = "init" => cli[n].i >= 1

\* Nobody has a session with itself.
NoSelf == \A n \in Running : req[n][n] = <<>> /\ rep[n][n] = <<>>

\* Who has queued a file for download heard of it from somebody else.
NotAlone == \A n \in Running : DOMAIN numReq[n] # {} => Node # {n}

\* What the notifications in transit say is true, and stays so: those who
\* announce a join, and those it is announced to, are ONLINE; those who
\* announce that they leave are leaving.
TrueNotice(s, m, f) ==
    /\ f.type = "PEER_JOIN_NOTIFICATION" =>
         f.src = s /\ m \in Running /\ state[s][s] = "ONLINE" /\ state[m][m] = "ONLINE"
    /\ f.type = "PEER_LEAVE_NOTIFICATION" => f.src = s /\ life[s] \notin {"off", "serving"}

TrueNotices == \A s \in Running, m \in Node : \A f \in Held(req[s][m]) : TrueNotice(s, m, f)

\* Only a peer that is ONLINE answers a handshake.
TrueAnswers ==
    \A s \in Running, m \in Node : \A f \in Held(rep[s][m]) :
        f.type = "HANDSHAKE_RESPONSE" => m \in Running /\ state[m][m] = "ONLINE"

\* The inductive invariant.
Base == TypeInv /\ Fresh /\ Contacting /\ NoSelf /\ NotAlone /\ TrueNotices /\ TrueAnswers
MembersInv == FilesInv /\ Base /\ OnlineViewIsTrue /\ AsksOnePeer /\ OneFindsTheOther

\* peers.txt of n names n once, at entry 0.
LEMMA OthersAtOthers ==
    ASSUME NEW n \in Running, NEW i \in 1..(MaxPeers - 1)
    PROVE  PeerAt[n][i] # n
<1> DEFINE D == 0..(MaxPeers - 1)
<1>1. PICK f \in [D -> Node] : f = PeerAt[n] /\ f[0] = n /\ \A m \in Node : \E j \in D : f[j] = m
  <2>1. PeerAt[n] \in [D -> Node] /\ DOMAIN PeerAt[n] = D
    BY PeerAssumption
  <2>2. PeerAt[n][0] = n /\ \A m \in Node : \E j \in D : PeerAt[n][j] = m
    <3>1. PeerAt[n][0] = n /\ \A m \in Node : \E j \in DOMAIN PeerAt[n] : PeerAt[n][j] = m
      BY PeerAssumption
    <3> HIDE DEF D
    <3> QED
      BY <2>1, <3>1
  <2> QED
    BY <2>1, <2>2
<1>2. MaxPeers \in Nat /\ MaxPeers # 0
  BY PeerFacts
<1>3. IsFiniteSet(D) /\ Cardinality(D) = MaxPeers
  <2>1. 0 \in Int /\ MaxPeers - 1 \in Int
    BY <1>2
  <2>2. IsFiniteSet(D) /\ Cardinality(D) = IF 0 > MaxPeers - 1 THEN 0 ELSE (MaxPeers - 1) - 0 + 1
    BY <2>1, FS_Interval
  <2> QED
    BY <1>2, <2>2
<1>4. f \in Surjection(D, Node)
  BY <1>1 DEF Surjection
<1>5. f \in Injection(D, Node)
  <2> HIDE DEF D
  <2> QED
    BY <1>3, <1>4, FS_Surjection DEF MaxPeers
<1>6. 0 \in D /\ i \in D /\ i # 0
  BY <1>2
<1>7. f[i] # f[0]
  <2> HIDE DEF D
  <2> QED
    BY <1>5, <1>6 DEF Injection, IsInjective
<1> QED
  BY <1>1, <1>7

\* Entry 1 is somebody else, where there is somebody else.
LEMMA FirstPeer ==
    ASSUME NEW n \in Running, Node # {n}
    PROVE  MaxPeers > 1 /\ PeerAt[n][1] # n
<1>1. PICK m \in Node : m # n
  BY PeerFacts
<1>2. IsFiniteSet(Node) /\ n \in Node /\ MaxPeers \in Nat /\ MaxPeers # 0
  BY PeerAssumption, PeerFacts
<1>3. MaxPeers # 1
  <2> SUFFICES ASSUME MaxPeers = 1 PROVE FALSE
    OBVIOUS
  <2>1. PICK j \in 0..(MaxPeers - 1) : PeerAt[n][j] = m
    BY PeerAssumption
  <2>2. j = 0
    BY <2>1
  <2> QED
    BY <1>1, <2>1, <2>2, PeerAssumption
<1>4. MaxPeers > 1
  BY <1>2, <1>3
<1> QED
  BY <1>2, <1>4, OthersAtOthers

-----------------------------------------------------------------------------
(***************************************************************************)
(* What a step does to the state that n keeps of p, and why.               *)
(***************************************************************************)
Refused(n, p) ==
    /\ p # n /\ state'[n][p] = "OFFLINE"
    /\ \/ ~Listening(p)
       \/ life'[n] = "stopping"
       \/ \E m \in Running : \E f \in Held(req[m][n]) :
            f.type = "PEER_LEAVE_NOTIFICATION" /\ f.src = p

Answered(n, p) ==
    /\ p # n /\ state'[n][p] = "ONLINE" /\ state'[n][n] # "INITIALIZING"
    /\ \E f \in Held(rep[n][p]) : f.type = "HANDSHAKE_RESPONSE"

Notified(n, p) ==
    /\ p # n /\ state'[n][p] = "ONLINE"
    /\ \E m \in Running : \E f \in Held(req[m][n]) :
         f.type = "PEER_JOIN_NOTIFICATION" /\ f.src = p

\* n has the list of files of a peer, or the chunks of all.
Informed(n) ==
    \/ state[n][n] = "WAITING_FOR_CHUNK_INFO"
    \/ \E p \in Running \ {n} : \E f \in Held(rep[n][p]) : f.type = "FILE_LIST"

\* How n gets on with its own join.
Advances(n) ==
    \/ FinishInit(n)
    \/ /\ state'[n][n] = "WAITING_FOR_FILE_LIST"
       /\ \E p \in Running \ {n} :
            /\ \E f \in Held(rep[n][p]) : f.type = "HANDSHAKE_RESPONSE"
            /\ state'[n][p] = "ONLINE" \/ ~Listening(p)
    \/ state'[n][n] = "WAITING_FOR_CHUNK_INFO" /\ state[n][n] = "WAITING_FOR_FILE_LIST"
    \/ /\ state'[n][n] = "ONLINE" /\ Informed(n)
       /\ \A p \in Node \ {n} :
            state[n][p] = "ONLINE" /\ Connects(n, p) /\ link[n][p] # "closing" =>
              \E f \in Held(req'[n][p]) : f.type = "PEER_JOIN_NOTIFICATION"

ViewStep(n, p) ==
    \/ state'[n][p] = state[n][p]
    \/ p = n /\ life[n] = "off" /\ life'[n] = "serving" /\ Join(n)
    \/ /\ life[n] # "off"
       /\ \/ p # n /\ state'[n][p] = "WAITING_FOR_HANDSHAKE" /\ InitRemotePeer(n)
          \/ Refused(n, p) \/ Answered(n, p) \/ Notified(n, p)
          \/ p = n /\ state[n][n] # "ONLINE" /\ state'[n][n] # "INITIALIZING" /\ Advances(n)

Views == \A n \in Running, p \in Node : ViewStep(n, p)

\* Only n changes the states that it keeps.
LEMMA OwnView ==
    ASSUME NEW n \in Running, \A s \in Running : s # n => state'[s] = state[s],
           \A p \in Node : ViewStep(n, p)
    PROVE  Views
BY DEF Views, ViewStep

LEMMA SameView == ASSUME UNCHANGED state PROVE Views
BY DEF Views, ViewStep

\* The frames that n sends change a state only where the peer refuses them.
LEMMA SendView ==
    ASSUME TypeInv, NEW n \in Running, NEW out \in [Node -> Seq(Frames)],
           NEW views \in [Node -> State], SendFrames(n, out, views, req),
           \A p \in Node : out[p] # <<>> => p # n /\ life[n] # "off",
           state'[n][n] = views[n] =>
             \A p \in Node : state'[n][p] = views[p] => ViewStep(n, p)
    PROVE  Views
<1>1. Sent(n, out, views, req)
  BY SentFact
<1>2. \A s \in Running : s # n => state'[s] = state[s]
  BY <1>1 DEF Sent
<1>3. state'[n][n] = views[n]
  BY <1>1, PeerFacts DEF Sent
<1>4. ASSUME NEW p \in Node PROVE ViewStep(n, p)
  <2>1. CASE state'[n][p] = views[p]
    BY <1>3, <2>1
  <2>2. CASE state'[n][p] # views[p]
    <3>1. state'[n][p] = "OFFLINE" /\ ~Listening(p) /\ out[p] # <<>>
      BY <1>1, <2>2 DEF Sent
    <3>2. p # n /\ life[n] # "off"
      BY <3>1
    <3> QED
      BY <3>1, <3>2 DEF ViewStep, Refused
  <2> QED
    BY <2>1, <2>2
<1> QED
  BY <1>2, <1>4, OwnView

\* Steps of the command line and of the download loop.
LEMMA CommandView ==
    ASSUME Base, NEW n \in Running,
           \/ Join(n) \/ Starting(n) \/ Leave(n) \/ MarkFile(n) \/ Quit(n) \/ StopServer(n)
           \/ Download(n) \/ \E f \in File : Insert(n, f)
    PROVE  Views
<1> USE PeerFacts
<1>1. /\ state \in States /\ state[n] \in [Node -> State]
      /\ cli \in [Running -> [at : {"ready", "init", "mark"}, i : 0..MaxPeers]]
      /\ life \in [Running -> Life]
  BY NetTypesFact DEF Base, NetTypes, States
<1>2. CASE MarkNextPeer(n) \/ ReturnFromJoin(n) \/ MarkFile(n) \/ Quit(n) \/ StopServer(n) \/ CountRequest(n)
  BY <1>2, SameView DEF MarkNextPeer, ReturnFromJoin, MarkFile, Quit, StopServer, CountRequest
<1>3. CASE Join(n)
  <2>1. \A s \in Running : s # n => state'[s] = state[s]
    BY <1>1, <1>3 DEF Join, States
  <2>2. \A p \in Node : p # n => state'[n][p] = state[n][p]
    BY <1>1, <1>3 DEF Join, States
  <2>3. life[n] = "off" /\ life'[n] = "serving"
    BY <1>1, <1>3 DEF Join
  <2> QED
    BY <1>3, <2>1, <2>2, <2>3, OwnView DEF ViewStep
<1>4. CASE FinishInit(n)
  <2>1. life[n] # "off"
    BY <1>4 DEF FinishInit, Base, Fresh
  <2>2. \A s \in Running : s # n => state'[s] = state[s]
    BY <1>1, <1>4 DEF FinishInit, States
  <2>3. \A p \in Node : state'[n][p] = state[n][p] \/ (p = n /\ state'[n][p] = "ONLINE")
    BY <1>1, <1>4 DEF FinishInit, States
  <2>4. \A p \in Node : ViewStep(n, p)
    BY <1>4, <2>1, <2>3 DEF ViewStep, Advances
  <2> QED
    BY <2>2, <2>4, OwnView
<1>5. CASE InitRemotePeer(n)
  <2>1. life[n] # "off" /\ cli[n].i \in 1..(MaxPeers - 1)
    BY <1>1, <1>5 DEF InitRemotePeer, Base, Fresh, Contacting
  <2>2. PICK m \in Node : m = PeerAt[n][cli[n].i] /\ m # n
    BY <2>1, OthersAtOthers
  <2>3. PICK f \in Frames : f = Frame("HANDSHAKE_REQUEST")
    BY PlainFrames
  <2>4. PICK out \in [Node -> Seq(Frames)] : out = [NoFrames EXCEPT ![m] = <<f>>]
    BY OneFrameTypes
  <2>5. \A p \in Node : out[p] = IF p = m THEN <<f>> ELSE <<>>
    BY <2>4, OneFrameTypes
  <2>6. PICK views \in [Node -> State] : views = [state[n] EXCEPT ![m] = "WAITING_FOR_HANDSHAKE"]
    BY <1>1 DEF State
  <2>7. SendFrames(n, out, views, req)
    BY <1>5, <2>2, <2>3, <2>4, <2>6 DEF InitRemotePeer
  <2>8. ASSUME NEW p \in Node, state'[n][p] = views[p] PROVE ViewStep(n, p)
    BY <1>1, <1>5, <2>1, <2>2, <2>6, <2>8 DEF ViewStep
  <2>9. \A p \in Node : out[p] # <<>> => p # n /\ life[n] # "off"
    BY <2>1, <2>2, <2>5
  <2> QED
    BY <2>7, <2>8, <2>9, SendView DEF Base
<1>6. CASE Leave(n)
  <2>1. life[n] = "serving" /\ life'[n] = "stopping" /\ state' = [state EXCEPT ![n] = ViewsOfLeaver(n)]
    BY <1>1, <1>6 DEF Leave
  <2>2. \A s \in Running : s # n => state'[s] = state[s]
    BY <1>1, <2>1 DEF States
  <2>3. \A p \in Node : state'[n][p] = state[n][p] \/ (p # n /\ state'[n][p] = "OFFLINE")
    BY <1>1, <2>1 DEF States, ViewsOfLeaver
  <2>4. \A p \in Node : ViewStep(n, p)
    BY <2>1, <2>3 DEF ViewStep, Refused
  <2> QED
    BY <2>2, <2>4, OwnView
<1>7. ASSUME NEW f \in File, Insert(n, f) PROVE Views
  <2>1. PICK num \in Nat : num = NextNum(n)
    BY NextNumIsNew DEF Base
  <2>2. PICK g \in Frames : g = [type |-> "NEW_FILE_AVAILABLE", orphan |-> FALSE, num |-> num,
                                 name |-> f, src |-> n]
    BY DEF Frames
  <2>3. PICK views \in [Node -> State] : views = state[n]
    BY <1>1
  <2>4. PICK out \in [Node -> Seq(Frames)] : out = Broadcast(n, g, views)
    BY BroadcastTypes
  <2>5. SendFrames(n, out, views, req)
    BY <1>7, <2>1, <2>2, <2>3, <2>4 DEF Insert
  <2>6. \A p \in Node : out[p] # <<>> => p # n /\ views[p] = "ONLINE"
    BY <2>4, BroadcastTypes
  <2>7. \A p \in Node : out[p] # <<>> => p # n /\ life[n] # "off"
    BY <2>3, <2>6 DEF Base, Fresh
  <2>8. \A p \in Node : state'[n][p] = views[p] => ViewStep(n, p)
    BY <2>3 DEF ViewStep
  <2> QED
    BY <2>5, <2>7, <2>8, SendView DEF Base
<1>8. ASSUME NEW num \in DOMAIN numReq[n], RequestChunk(n, num) PROVE Views
  <2>1. life[n] # "off"
    BY <1>8 DEF RequestChunk
  <2>2. PICK missing \in SUBSET Chunk : /\ missing = Chunk \ heap[n][FileOf(n, n, num)].has
                                        /\ missing # {}
    BY <1>8 DEF RequestChunk
  <2>3. Min(missing) \in Chunk
    BY <2>2, LeastNumber DEF Min, Chunk
  <2>4. num \in Nat
    BY TypeParts DEF Base, CounterTypes
  <2>5. PICK f \in Frames : f = ChunkFrame("CHUNK_REQUEST", num, Min(missing))
    BY <2>3, <2>4 DEF ChunkFrame, Frames
  <2>6. PICK m : m = PeerAt[n][1] /\ m # n
    BY FirstPeer DEF Base, NotAlone
  <2>7. PICK out \in [Node -> Seq(Frames)] : out = [NoFrames EXCEPT ![m] = <<f>>]
    BY OneFrameTypes
  <2>8. \A p \in Node : out[p] = IF p = m THEN <<f>> ELSE <<>>
    BY <2>7, OneFrameTypes
  <2>9. PICK views \in [Node -> State] : views = state[n]
    BY <1>1
  <2>10. SendFrames(n, out, views, req)
    BY <1>8, <2>2, <2>5, <2>6, <2>7, <2>9 DEF RequestChunk
  <2>11. \A p \in Node : out[p] # <<>> => p # n /\ life[n] # "off"
    BY <2>1, <2>6, <2>8
  <2>12. \A p \in Node : state'[n][p] = views[p] => ViewStep(n, p)
    BY <2>9 DEF ViewStep
  <2> QED
    BY <2>10, <2>11, <2>12, SendView DEF Base
<1> QED
  BY <1>2, <1>3, <1>4, <1>5, <1>6, <1>7, <1>8 DEF Starting, Download

\* changeStateToOnlineAndNotify(), of a node that waits for files or chunks.
LEMMA GoOnlineView ==
    ASSUME Base, NEW n \in Running, GoOnline(n, state[n]), life[n] # "off", Informed(n)
    PROVE  Views
<1> USE PeerFacts
<1>1. PICK old \in [Node -> State] : old = state[n]
  BY NetTypesFact DEF Base, NetTypes, States
<1>2. PICK g \in Frames : g = [type |-> "PEER_JOIN_NOTIFICATION", orphan |-> FALSE, src |-> n]
  BY DEF Frames
<1>3. PICK out \in [Node -> Seq(Frames)] : out = Broadcast(n, g, old)
  BY BroadcastTypes
<1>4. \A p \in Node : out[p] # <<>> => p # n /\ life[n] # "off"
  BY <1>3, BroadcastTypes
<1>5. PICK views \in [Node -> State] : views = [old EXCEPT ![n] = "ONLINE"]
  BY DEF State
<1>6. SendFrames(n, out, views, req)
  BY <1>1, <1>2, <1>3, <1>5 DEF GoOnline
<1>7. \A p \in Node : views[p] = IF p = n THEN "ONLINE" ELSE state[n][p]
  BY <1>1, <1>5
<1>8. ASSUME NEW p \in Node \ {n}, state[n][p] = "ONLINE",
             Connects(n, p), link[n][p] # "closing"
      PROVE  \E f \in Held(req'[n][p]) : f.type = "PEER_JOIN_NOTIFICATION"
  <2>1. out[p] = <<g>> /\ g.type = "PEER_JOIN_NOTIFICATION"
    BY <1>1, <1>2, <1>3, <1>8 DEF Broadcast
  <2>2. req'[n][p] = req[n][p] \o out[p]
    <3>1. Sent(n, out, views, req)
      BY <1>6, SentFact DEF Base
    <3> QED
      BY <1>8, <3>1 DEF Sent
  <2>3. Held(<<g>>) \subseteq Held(req[n][p] \o <<g>>)
    <3>1. <<g>> \in Seq(Frames) /\ req[n][p] \in Seq(Frames)
      BY QueueTypes DEF Base
    <3> QED
      BY <3>1, HeldBoth
  <2> QED
    BY <2>1, <2>2, <2>3, HeldOne
<1>9. ASSUME state'[n][n] = "ONLINE" PROVE Advances(n)
  BY <1>8, <1>9 DEF Advances
<1>10. ASSUME NEW p \in Node, state'[n][p] = views[p] PROVE ViewStep(n, p)
  <2>1. CASE p = n
    <3>1. state'[n][n] = "ONLINE" /\ Advances(n)
      BY <1>7, <1>9, <1>10, <2>1
    <3> QED
      BY <2>1, <3>1 DEF ViewStep
  <2>2. CASE p # n
    BY <1>7, <1>10, <2>2 DEF ViewStep
  <2> QED
    BY <2>1, <2>2
<1> QED
  BY <1>4, <1>6, <1>10, SendView DEF Base

\* Steps of the accept thread for a request.
LEMMA RequestView ==
    ASSUME Base, NEW n \in Running, NEW m \in Running, HandleRequest(n, m)
    PROVE  Views
<1> USE PeerFacts
<1>1. CASE \/ OnHandshakeRequest(n, m) \/ OnFileListRequest(n, m) \/ OnChunkInfoRequest(n, m)
           \/ OnNewFile(n, m) \/ OnNewChunk(n, m) \/ OnChunkRequest(n, m)
  BY <1>1, SameView DEF OnHandshakeRequest, OnFileListRequest, OnChunkInfoRequest, OnNewFile,
         OnNewChunk, OnChunkRequest
<1>2. CASE OnJoinNotification(n, m) \/ OnLeaveNotification(n, m)
  <2>1. /\ req[m][n] # <<>> /\ life[n] # "off"
        /\ Head(req[m][n]).type \in {"PEER_JOIN_NOTIFICATION", "PEER_LEAVE_NOTIFICATION"}
    BY <1>2 DEF OnJoinNotification, OnLeaveNotification, Request
  <2>2. PICK f \in Held(req[m][n]) : f = Head(req[m][n])
    BY <2>1, QueueTypes, HeldTail DEF Base
  <2>3. m # n
    BY <2>1 DEF Base, NoSelf
  <2>4. f.src = m
    BY <2>1, <2>2 DEF Base, TrueNotices, TrueNotice
  <2>5. \/ f.type = "PEER_JOIN_NOTIFICATION" /\ state' = [state EXCEPT ![n][m] = "ONLINE"]
        \/ f.type = "PEER_LEAVE_NOTIFICATION" /\ state' = [state EXCEPT ![n][m] = "OFFLINE"]
    BY <1>2, <2>2, <2>4 DEF OnJoinNotification, OnLeaveNotification, Request
  <2>6. state \in States
    BY NetTypesFact DEF Base, NetTypes
  <2>7. \A s \in Running : s # n => state'[s] = state[s]
    BY <2>5, <2>6 DEF States
  <2>8. \A p \in Node : p # m => state'[n][p] = state[n][p]
    BY <2>5, <2>6 DEF States
  <2>9. \/ f.type = "PEER_JOIN_NOTIFICATION" /\ state'[n][m] = "ONLINE"
        \/ f.type = "PEER_LEAVE_NOTIFICATION" /\ state'[n][m] = "OFFLINE"
    BY <2>5, <2>6 DEF States
  <2>10. ViewStep(n, m)
    BY <2>1, <2>2, <2>3, <2>4, <2>9 DEF ViewStep, Refused, Notified
  <2>11. \A p \in Node : ViewStep(n, p)
    BY <2>8, <2>10 DEF ViewStep
  <2> QED
    BY <2>7, <2>11, OwnView
<1> QED
  BY <1>1, <1>2 DEF HandleRequest

\* Steps of the accept thread for a reply.
LEMMA ReplyView ==
    ASSUME Base, NEW n \in Running, NEW m \in Running, HandleReply(n, m)
    PROVE  Views
<1> USE PeerFacts
<1>1. /\ rep[n][m] # <<>> /\ life[n] # "off"
  BY DEF HandleReply, OnHandshakeResponse, OnFileList, OnChunkInfo, OnChunk,
         OnChunkRequestDecline, Reply
<1>2. m # n
  BY <1>1 DEF Base, NoSelf
<1>3. PICK old \in [Node -> State] : old = state[n]
  BY NetTypesFact DEF Base, NetTypes, States
<1>4. CASE OnHandshakeResponse(n, m)
  <2>1. PICK g \in Held(rep[n][m]) : g.type = "HANDSHAKE_RESPONSE"
    BY <1>1, <1>4, QueueTypes, HeldTail DEF Base, OnHandshakeResponse, Reply
  <2>2. PICK views \in [Node -> State] : views = [old EXCEPT ![m] = "ONLINE"]
    BY DEF State
  <2>3. \A p \in Node : views[p] = IF p = m THEN "ONLINE" ELSE state[n][p]
    BY <1>3, <2>2
  <2>4. CASE state[n][n] = "INITIALIZING"
    <3>1. PICK f \in Frames : f = Frame("FILE_LIST_REQUEST")
      BY PlainFrames
    <3>2. PICK out \in [Node -> Seq(Frames)] : out = Broadcast(n, f, views)
      BY BroadcastTypes
    <3>3. \A p \in Node : out[p] # <<>> => p # n /\ life[n] # "off"
      BY <1>1, <3>2, BroadcastTypes
    <3>4. PICK views2 \in [Node -> State] : views2 = [views EXCEPT ![n] = "WAITING_FOR_FILE_LIST"]
      BY DEF State
    <3>5. SendFrames(n, out, views2, req)
      BY <1>3, <1>4, <2>2, <2>4, <3>1, <3>2, <3>4 DEF OnHandshakeResponse
    <3>6. \A p \in Node : views2[p] = IF p = n THEN "WAITING_FOR_FILE_LIST"
                                      ELSE IF p = m THEN "ONLINE" ELSE state[n][p]
      BY <2>3, <3>4
    <3>7. ASSUME state'[n][n] = views2[n], NEW p \in Node, state'[n][p] = views2[p]
          PROVE  ViewStep(n, p)
      <4>1. state'[n][n] = "WAITING_FOR_FILE_LIST"
        BY <3>6, <3>7
      <4>2. CASE p = n
        <5>1. state'[n][m] = "ONLINE" \/ ~Listening(m)
          <6>1. Sent(n, out, views2, req)
            BY <3>5, SentFact DEF Base
          <6> QED
            BY <1>2, <3>6, <6>1 DEF Sent
        <5>2. Advances(n)
          BY <1>2, <2>1, <4>1, <5>1 DEF Advances
        <5> QED
          BY <1>1, <2>4, <4>1, <4>2, <5>2 DEF ViewStep
      <4>3. CASE p = m
        BY <1>1, <1>2, <2>1, <3>6, <3>7, <4>1, <4>3 DEF ViewStep, Answered
      <4>4. CASE p # n /\ p # m
        BY <3>6, <3>7, <4>4 DEF ViewStep
      <4> QED
        BY <4>2, <4>3, <4>4
    <3> QED
      BY <3>3, <3>5, <3>7, SendView DEF Base
  <2>5. CASE state[n][n] # "INITIALIZING"
    <3>1. state' = [state EXCEPT ![n] = views]
      BY <1>3, <1>4, <2>2, <2>5 DEF OnHandshakeResponse
    <3>2. /\ state'[n] = views /\ \A s \in Running : s # n => state'[s] = state[s]
      BY <3>1, NetTypesFact DEF Base, NetTypes, States
    <3>3. state'[n][n] # "INITIALIZING"
      BY <1>2, <2>3, <2>5, <3>2
    <3>4. ASSUME NEW p \in Node PROVE ViewStep(n, p)
      <4>1. CASE p = m
        BY <1>1, <1>2, <2>1, <2>3, <3>2, <3>3, <4>1 DEF ViewStep, Answered
      <4>2. CASE p # m
        BY <2>3, <3>2, <4>2 DEF ViewStep
      <4> QED
        BY <4>1, <4>2
    <3> QED
      BY <3>2, <3>4, OwnView
  <2> QED
    BY <2>4, <2>5
<1>5. CASE OnFileList(n, m)
  <2>1. PICK list : list = Head(rep[n][m]).list
    OBVIOUS
  <2> DEFINE ask == [p \in Node |->
                       IF p # n /\ state[n][p] = "ONLINE" /\ list[1].num \notin info[n][p]
                       THEN <<Frame("CHUNK_INFO_REQUEST")>> ELSE <<>>]
  <2>2. PICK g \in Frames : g = Frame("CHUNK_INFO_REQUEST")
    BY PlainFrames
  <2>3. /\ ask \in [Node -> Seq(Frames)]
        /\ \A p \in Node : ask[p] # <<>> => p # n
    <3>1. <<g>> \in Seq(Frames) /\ <<>> \in Seq(Frames)
      OBVIOUS
    <3> QED
      BY <2>2, <3>1
  <2>4. PICK out \in [Node -> Seq(Frames)] : out = ask /\ \A p \in Node : out[p] # <<>> => p # n
    BY <2>3
  <2>5. PICK views \in [Node -> State] : views = [old EXCEPT ![n] = "WAITING_FOR_CHUNK_INFO"]
    BY DEF State
  <2>6. \/ UNCHANGED state
        \/ GoOnline(n, state[n])
        \/ SendFrames(n, out, views, req) /\ state[n][n] = "WAITING_FOR_FILE_LIST"
    BY <1>3, <1>5, <2>1, <2>4, <2>5 DEF OnFileList, linkVars
  <2>7. ASSUME SendFrames(n, out, views, req), state[n][n] = "WAITING_FOR_FILE_LIST"
        PROVE  Views
    <3>1. \A p \in Node : views[p] = IF p = n THEN "WAITING_FOR_CHUNK_INFO" ELSE state[n][p]
      BY <1>3, <2>5
    <3>2. ASSUME NEW p \in Node, state'[n][p] = views[p] PROVE ViewStep(n, p)
      <4>1. CASE p = n
        BY <1>1, <2>7, <3>1, <3>2, <4>1 DEF ViewStep, Advances
      <4>2. CASE p # n
        BY <3>1, <3>2, <4>2 DEF ViewStep
      <4> QED
        BY <4>1, <4>2
    <3> HIDE DEF ask
    <3> QED
      BY <1>1, <2>4, <2>7, <3>2, SendView DEF Base
  <2>8. Informed(n)
    BY <1>1, <1>2, <1>5, QueueTypes, HeldTail DEF Base, OnFileList, Reply, Informed
  <2> HIDE DEF ask
  <2> QED
    BY <1>1, <2>6, <2>7, <2>8, GoOnlineView, SameView
<1>6. CASE OnChunkInfo(n, m)
  <2>1. UNCHANGED state \/ (GoOnline(n, state[n]) /\ state[n][n] = "WAITING_FOR_CHUNK_INFO")
    BY <1>6 DEF OnChunkInfo, linkVars
  <2> QED
    BY <1>1, <2>1, GoOnlineView, SameView DEF Informed
<1>7. CASE OnChunk(n, m)
  <2>1. PICK f \in Frames : f = Head(rep[n][m]) /\ f.type = "CHUNK"
    BY <1>7, QueueTypes DEF Base, OnChunk, Reply
  <2>2. PICK g \in Frames : g = NewChunkFrame(n, f.num, f.chunk)
    <3>1. f.num \in Nat /\ f.chunk \in Chunk
      BY <2>1, FrameFields
    <3> QED
      BY <3>1 DEF NewChunkFrame, Frames
  <2>3. PICK out \in [Node -> Seq(Frames)] : out = Broadcast(n, g, old)
    BY BroadcastTypes
  <2>4. SendFrames(n, out, old, req)
    BY <1>3, <1>7, <2>1, <2>2, <2>3 DEF OnChunk
  <2>5. \A p \in Node : out[p] # <<>> => p # n /\ life[n] # "off"
    BY <1>1, <2>3, BroadcastTypes
  <2>6. \A p \in Node : state'[n][p] = old[p] => ViewStep(n, p)
    BY <1>3 DEF ViewStep
  <2> QED
    BY <2>4, <2>5, <2>6, SendView DEF Base
<1>8. CASE OnChunkRequestDecline(n, m)
  BY <1>8, SameView DEF OnChunkRequestDecline
<1> QED
  BY <1>4, <1>5, <1>6, <1>7, <1>8 DEF HandleReply

LEMMA StepView == ASSUME Base, [Next]_vars PROVE Views
<1>1. CASE UNCHANGED vars
  BY <1>1, SameView DEF vars
<1>2. CASE Next
  <2>1. PICK n \in Running :
           \/ Join(n) \/ Starting(n) \/ MarkFile(n) \/ Leave(n) \/ Quit(n) \/ StopServer(n)
           \/ Download(n)
           \/ \E f \in File : Insert(n, f)
           \/ \E m \in Running : HandleRequest(n, m) \/ HandleReply(n, m) \/ EndSession(n, m)
    BY <1>2 DEF Next
  <2>2. CASE \E m \in Running : HandleRequest(n, m) \/ HandleReply(n, m)
    BY <2>2, RequestView, ReplyView
  <2>3. CASE \E m \in Running : EndSession(n, m)
    BY <2>3, SameView DEF EndSession
  <2> QED
    BY <2>1, <2>2, <2>3, CommandView
<1> QED
  BY <1>1, <1>2

-----------------------------------------------------------------------------
(***************************************************************************)
(* The life of a process, and its command line.                            *)
(***************************************************************************)
LifeSteps ==
    \A s \in Running : /\ life'[s] = "off" => life[s] = "off"
                       /\ life'[s] = "serving" => life[s] \in {"off", "serving"}

LEMMA StepLife == ASSUME TypeInv, [Next]_vars PROVE LifeSteps
<1>1. life \in [Running -> Life]
  BY NetTypesFact DEF NetTypes
<1>2. UNCHANGED life => LifeSteps
  BY DEF LifeSteps
<1>3. ASSUME NEW n \in Running, Die(n) PROVE LifeSteps
  BY <1>1, <1>3 DEF Die, LifeSteps
<1>4. CASE UNCHANGED vars
  BY <1>2, <1>4 DEF vars
<1>5. CASE Next
  <2>1. PICK n \in Running :
           \/ Join(n) \/ Starting(n) \/ MarkFile(n) \/ Leave(n) \/ Quit(n) \/ StopServer(n)
           \/ Download(n)
           \/ \E f \in File : Insert(n, f)
           \/ \E m \in Running : HandleRequest(n, m) \/ HandleReply(n, m) \/ EndSession(n, m)
    BY <1>5 DEF Next
  <2>2. CASE Join(n) \/ Leave(n) \/ StopServer(n)
    BY <1>1, <2>2 DEF Join, Leave, StopServer, LifeSteps
  <2>3. CASE Starting(n) \/ MarkFile(n) \/ Download(n) \/ \E f \in File : Insert(n, f)
    BY <1>2, <2>3 DEF Starting, InitRemotePeer, FinishInit, MarkNextPeer, ReturnFromJoin,
           MarkFile, Download, CountRequest, RequestChunk, Insert
  <2>4. CASE Quit(n)
    BY <1>3, <2>4 DEF Quit
  <2>5. CASE \E m \in Running : HandleReply(n, m) \/ EndSession(n, m)
    BY <1>2, <2>5 DEF HandleReply, OnHandshakeResponse, OnFileList, OnChunkInfo, OnChunk,
           OnChunkRequestDecline, EndSession
  <2>6. CASE \E m \in Running : HandleRequest(n, m)
    BY <1>2, <1>3, <2>6 DEF HandleRequest, OnHandshakeRequest, OnFileListRequest,
           OnChunkInfoRequest, OnNewFile, OnNewChunk, OnChunkRequest, OnJoinNotification,
           OnLeaveNotification
  <2> QED
    BY <2>1, <2>2, <2>3, <2>4, <2>5, <2>6
<1> QED
  BY <1>4, <1>5

CliSteps ==
    \A s \in Running :
        \/ cli'[s] = cli[s]
        \/ /\ life[s] # "off" \/ life'[s] = "serving"
           /\ cli'[s].at = "init" => /\ cli'[s].i >= 1
                                     /\ Join(s) \/ (InitRemotePeer(s) /\ cli'[s].i >= 2)

LEMMA StepCli == ASSUME Base, [Next]_vars PROVE CliSteps
<1>1. /\ cli \in [Running -> [at : {"ready", "init", "mark"}, i : 0..MaxPeers]]
      /\ life \in [Running -> Life]
  BY NetTypesFact DEF Base, NetTypes
<1>2. UNCHANGED cli => CliSteps
  BY DEF CliSteps
<1>3. CASE UNCHANGED vars
  BY <1>2, <1>3 DEF vars
<1>4. CASE Next
  <2>1. PICK n \in Running :
           \/ Join(n) \/ Starting(n) \/ MarkFile(n) \/ Leave(n) \/ Quit(n) \/ StopServer(n)
           \/ Download(n)
           \/ \E f \in File : Insert(n, f)
           \/ \E m \in Running : HandleRequest(n, m) \/ HandleReply(n, m) \/ EndSession(n, m)
    BY <1>4 DEF Next
  <2>2. CASE Join(n)
    <3>1. /\ life'[n] = "serving" /\ cli'[n].i >= 1
          /\ \A s \in Running : s # n => cli'[s] = cli[s]
      BY <1>1, <2>2 DEF Join
    <3> QED
      BY <2>2, <3>1 DEF CliSteps
  <2>3. CASE InitRemotePeer(n)
    <3>1. cli[n].at = "init" /\ cli' = [cli EXCEPT ![n].i = @ + 1]
      BY <2>3 DEF InitRemotePeer
    <3>2. life[n] # "off" /\ cli[n].i >= 1 /\ cli[n].i \in 0..MaxPeers
      BY <1>1, <3>1 DEF Base, Fresh, Contacting
    <3>3. cli'[n].i = cli[n].i + 1 /\ \A s \in Running : s # n => cli'[s] = cli[s]
      BY <1>1, <3>1
    <3>4. cli'[n].i >= 2
      BY <3>2, <3>3, PeerFacts
    <3> QED
      BY <2>3, <3>2, <3>3, <3>4 DEF CliSteps
  <2>4. CASE FinishInit(n) \/ MarkNextPeer(n) \/ ReturnFromJoin(n)
    <3>1. life[n] # "off"
      BY <2>4 DEF FinishInit, MarkNextPeer, ReturnFromJoin, Base, Fresh
    <3>2. cli'[n].at # "init" /\ \A s \in Running : s # n => cli'[s] = cli[s]
      BY <1>1, <2>4 DEF FinishInit, MarkNextPeer, ReturnFromJoin
    <3> QED
      BY <3>1, <3>2 DEF CliSteps
  <2>5. CASE \/ MarkFile(n) \/ Leave(n) \/ Quit(n) \/ StopServer(n) \/ Download(n)
             \/ \E f \in File : Insert(n, f)
    BY <1>2, <2>5 DEF MarkFile, Leave, Quit, StopServer, Download, CountRequest, RequestChunk,
           Insert
  <2>6. CASE \E m \in Running : HandleReply(n, m) \/ EndSession(n, m)
    BY <1>2, <2>6 DEF HandleReply, OnHandshakeResponse, OnFileList, OnChunkInfo, OnChunk,
           OnChunkRequestDecline, EndSession
  <2>7. CASE \E m \in Running : HandleRequest(n, m)
    BY <1>2, <2>7 DEF HandleRequest, OnHandshakeRequest, OnFileListRequest,
           OnChunkInfoRequest, OnNewFile, OnNewChunk, OnChunkRequest, OnJoinNotification,
           OnLeaveNotification
  <2> QED
    BY <2>1, <2>2, <2>3, <2>4, <2>5, <2>6, <2>7 DEF Starting
<1> QED
  BY <1>3, <1>4

LEMMA StepFresh ==
    ASSUME Base, [Next]_vars PROVE Fresh' /\ Contacting'
<1>1. Views /\ LifeSteps /\ CliSteps
  BY StepView, StepLife, StepCli DEF Base
<1>2. Fresh /\ Contacting
  BY DEF Base
<1>3. Contacting'
  BY <1>1, <1>2 DEF Contacting, CliSteps
<1>4. ASSUME NEW n \in Running, life'[n] = "off"
      PROVE  cli'[n].at = "ready" /\ \A m \in Node : state'[n][m] = "UNKNOWN"
  <2>1. life[n] = "off" /\ life'[n] # "serving"
    <3>1. LifeSteps
      BY <1>1
    <3>2. life[n] = "off"
      BY <1>4, <3>1 DEF LifeSteps
    <3>3. life'[n] # "serving"
      BY <1>4
    <3> QED
      BY <3>2, <3>3
  <2>2. cli'[n] = cli[n]
    BY <1>1, <2>1 DEF CliSteps
  <2>3. \A m \in Node : state'[n][m] = state[n][m]
    BY <1>1, <2>1 DEF Views, ViewStep
  <2> QED
    BY <1>2, <2>1, <2>2, <2>3 DEF Fresh
<1> QED
  BY <1>3, <1>4 DEF Fresh

-----------------------------------------------------------------------------
(***************************************************************************)
(* Who has a session with whom.                                            *)
(***************************************************************************)
LEMMA EmptyQueue == ASSUME NEW q \in Seq(Frames), Held(q) = {} PROVE q = <<>>
<1>1. Len(q) \in Nat /\ DOMAIN q = 1..Len(q)
  BY LenProperties
<1>2. Len(q) = 0
  <2>1. 1 \notin DOMAIN q
    BY DEF Held
  <2> QED
    BY <1>1, <2>1
<1> QED
  BY <1>2, EmptySeq

LEMMA StepNoSelf == ASSUME Base, Known, [Next]_vars PROVE NoSelf'
<1>1. RequestTraffic /\ ReplyTraffic /\ TypeInv'
  BY StepTraffic, StepKnown DEF Base
<1>2. req' \in Queues /\ rep' \in Queues
  BY <1>1 DEF TypeInv, TypeOK, Queues
<1>3. cli \in [Running -> [at : {"ready", "init", "mark"}, i : 0..MaxPeers]]
  BY NetTypesFact DEF Base, NetTypes
<1> SUFFICES ASSUME NEW n \in Running PROVE req'[n][n] = <<>> /\ rep'[n][n] = <<>>
  BY DEF NoSelf
<1>4. req[n][n] = <<>> /\ rep[n][n] = <<>>
  BY DEF Base, NoSelf
<1>5. OldOf(<<>>) = {}
  BY DEF OldOf, Held
<1>6. req'[n][n] \in Seq(Frames) /\ rep'[n][n] \in Seq(Frames) /\ n \in Node
  BY <1>2, PeerFacts DEF Queues
<1>7. ASSUME NEW f, NewRequest(n, n, f) PROVE FALSE
  <2>1. CASE f.type = "HANDSHAKE_REQUEST"
    <3>1. /\ cli[n].i >= 1 /\ cli[n].i < MaxPeers /\ cli[n].i \in 0..MaxPeers
          /\ n = PeerAt[n][cli[n].i]
      BY <1>3, <1>7, <2>1 DEF NewRequest, Base, Contacting
    <3>2. cli[n].i \in 1..(MaxPeers - 1)
      BY <3>1, PeerFacts
    <3> QED
      BY <3>1, <3>2, OthersAtOthers
  <2>2. CASE f.type = "CHUNK_REQUEST"
    <3>1. Node # {n} /\ n = PeerAt[n][1]
      BY <1>7, <2>2 DEF NewRequest, Base, NotAlone
    <3> QED
      BY <3>1, FirstPeer
  <2> QED
    BY <1>7, <2>1, <2>2 DEF NewRequest
<1>8. Held(req'[n][n]) = {}
  BY <1>1, <1>4, <1>5, <1>6, <1>7 DEF RequestTraffic
<1>9. Held(rep'[n][n]) = {}
  BY <1>1, <1>4, <1>5, <1>6 DEF ReplyTraffic, NewReply
<1> QED
  BY <1>6, <1>8, <1>9, EmptyQueue

\* Only what another node sent makes n queue a file.
LEMMA StepNotAlone == ASSUME Base, [Next]_vars PROVE NotAlone'
<1>1. UNCHANGED numReq => NotAlone'
  BY DEF Base, NotAlone
<1>2. CounterTypes /\ TypeInv /\ NotAlone
  BY TypeParts DEF Base
<1>3. ASSUME NEW n \in Running, NEW m \in Running,
             req[m][n] # <<>> \/ rep[n][m] # <<>>
      PROVE  Node # {n}
  BY <1>3, PeerFacts DEF Base, NoSelf
<1>4. ASSUME NEW n \in Running, Node # {n}, \A s \in Running \ {n} : numReq'[s] = numReq[s]
      PROVE  NotAlone'
  BY <1>2, <1>4 DEF NotAlone
<1>5. CASE UNCHANGED vars
  BY <1>1, <1>5 DEF vars
<1>6. CASE Next
  <2>1. PICK n \in Running :
           \/ Join(n) \/ Starting(n) \/ MarkFile(n) \/ Leave(n) \/ Quit(n) \/ StopServer(n)
           \/ Download(n)
           \/ \E f \in File : Insert(n, f)
           \/ \E m \in Running : HandleRequest(n, m) \/ HandleReply(n, m) \/ EndSession(n, m)
    BY <1>6 DEF Next
  <2>2. CASE \/ Join(n) \/ Starting(n) \/ MarkFile(n) \/ Leave(n) \/ Quit(n) \/ StopServer(n)
             \/ \E f \in File : Insert(n, f)
             \/ \E m \in Running : EndSession(n, m)
    BY <1>1, <2>2 DEF Join, Starting, InitRemotePeer, FinishInit, MarkNextPeer, ReturnFromJoin,
           MarkFile, Leave, Quit, StopServer, Insert, EndSession, fileVars
  <2>3. CASE Download(n)
    <3>1. CASE \E num \in DOMAIN numReq[n] : RequestChunk(n, num)
      BY <1>1, <3>1 DEF RequestChunk, fileVars
    <3>2. CASE CountRequest(n)
      <4>1. numReq' = [numReq EXCEPT ![n][pending[n]] = @ + 1]
        BY <3>2 DEF CountRequest
      <4>2. \A s \in Running : DOMAIN numReq'[s] = DOMAIN numReq[s]
        BY <1>2, <4>1 DEF CounterTypes
      <4> QED
        BY <1>2, <4>2 DEF NotAlone
    <3> QED
      BY <2>3, <3>1, <3>2 DEF Download
  <2>4. ASSUME NEW m \in Running, HandleRequest(n, m) PROVE NotAlone'
    <3>1. CASE OnNewFile(n, m)
      <4>1. req[m][n] # <<>>
        BY <3>1 DEF OnNewFile, Request
      <4>2. \A s \in Running \ {n} : numReq'[s] = numReq[s]
        BY <1>2, <3>1 DEF OnNewFile, CounterTypes
      <4> QED
        BY <1>3, <1>4, <4>1, <4>2
    <3>2. CASE ~OnNewFile(n, m)
      BY <1>1, <2>4, <3>2 DEF HandleRequest, OnHandshakeRequest, OnFileListRequest,
             OnChunkInfoRequest, OnNewChunk, OnChunkRequest, OnJoinNotification,
             OnLeaveNotification, fileVars
    <3> QED
      BY <3>1, <3>2
  <2>5. ASSUME NEW m \in Running, HandleReply(n, m) PROVE NotAlone'
    <3>1. rep[n][m] # <<>>
      BY <2>5 DEF HandleReply, OnHandshakeResponse, OnFileList, OnChunkInfo, OnChunk,
             OnChunkRequestDecline, Reply
    <3>2. CASE OnChunkInfo(n, m)
      <4>1. \A s \in Running \ {n} : numReq'[s] = numReq[s]
        BY <1>2, <3>2 DEF OnChunkInfo, CounterTypes
      <4> QED
        BY <1>3, <1>4, <3>1, <4>1
    <3>3. CASE OnChunk(n, m)
      <4>1. CountDown(n, Head(rep[n][m]).num)
        BY <3>3 DEF OnChunk
      <4>2. \A s \in Running : DOMAIN numReq'[s] = DOMAIN numReq[s]
        BY <1>2, <4>1, CountDownFacts
      <4> QED
        BY <1>2, <4>2 DEF NotAlone
    <3>4. CASE OnHandshakeResponse(n, m) \/ OnFileList(n, m) \/ OnChunkRequestDecline(n, m)
      BY <1>1, <3>4 DEF OnHandshakeResponse, OnFileList, OnChunkRequestDecline, fileVars
    <3> QED
      BY <2>5, <3>2, <3>3, <3>4 DEF HandleReply
  <2> QED
    BY <2>1, <2>2, <2>3, <2>4, <2>5
<1> QED
  BY <1>5, <1>6

-----------------------------------------------------------------------------
(***************************************************************************)
(* What the frames in transit say stays true.                              *)
(***************************************************************************)

\* A node that is ONLINE remains so for itself.
Steady == \A n \in Running : state[n][n] = "ONLINE" => state'[n][n] = "ONLINE"

LEMMA StepSteady == ASSUME Base, [Next]_vars PROVE Steady
<1> SUFFICES ASSUME NEW n \in Running, state[n][n] = "ONLINE" PROVE state'[n][n] = "ONLINE"
  BY DEF Steady
<1>1. life[n] # "off"
  BY PeerFacts DEF Base, Fresh
<1>2. ViewStep(n, n)
  BY StepView, PeerFacts DEF Views
<1> QED
  BY <1>1, <1>2 DEF ViewStep, Refused, Answered, Notified

\* A node that is not up, or no longer, will not be up again.
Leaving == \A n \in Running : life[n] \notin {"off", "serving"} => life'[n] \notin {"off", "serving"}

LEMMA StepLeaving == ASSUME TypeInv, [Next]_vars PROVE Leaving
BY StepLife DEF LifeSteps, Leaving

LEMMA StepNotices ==
    ASSUME Base, OnlineViewIsTrue, [Next]_vars PROVE TrueNotices'
<1>1. RequestTraffic /\ Steady /\ Leaving
  BY StepTraffic, StepSteady, StepLeaving DEF Base
<1> SUFFICES ASSUME NEW s \in Running, NEW m \in Node, NEW f \in Held(req'[s][m])
             PROVE  TrueNotice(s, m, f)'
  BY DEF TrueNotices, Held
<1>2. CASE f \in OldOf(req[s][m])
  <2>1. PICK g \in Held(req[s][m]) :
           /\ f.type = g.type
           /\ f.type \in {"PEER_JOIN_NOTIFICATION", "PEER_LEAVE_NOTIFICATION"} => f.src = g.src
    BY <1>2, HeldFrames, OldFields DEF Base
  <2>2. TrueNotice(s, m, g)
    BY DEF Base, TrueNotices
  <2> QED
    BY <1>1, <2>1, <2>2 DEF TrueNotice, Steady, Leaving
<1>3. CASE NewRequest(s, m, f)
  <2>1. ASSUME f.type = "PEER_JOIN_NOTIFICATION"
        PROVE  f.src = s /\ m \in Running /\ state'[s][s] = "ONLINE" /\ state'[m][m] = "ONLINE"
    <3>1. f.src = s /\ state[s][m] = "ONLINE" /\ state'[s][s] = "ONLINE"
      BY <1>3, <2>1 DEF NewRequest
    <3>2. m \in Running /\ state[m][m] = "ONLINE"
      BY <3>1 DEF OnlineViewIsTrue
    <3> QED
      BY <1>1, <3>1, <3>2 DEF Steady
  <2>2. f.type = "PEER_LEAVE_NOTIFICATION" => f.src = s /\ life'[s] = "stopping"
    BY <1>3 DEF NewRequest
  <2> QED
    BY <2>1, <2>2 DEF TrueNotice
<1> QED
  BY <1>1, <1>2, <1>3 DEF RequestTraffic

LEMMA StepAnswers == ASSUME Base, [Next]_vars PROVE TrueAnswers'
<1>1. ReplyTraffic /\ Steady
  BY StepTraffic, StepSteady DEF Base
<1> SUFFICES ASSUME NEW s \in Running, NEW m \in Node, NEW f \in Held(rep'[s][m]),
                    f.type = "HANDSHAKE_RESPONSE"
             PROVE  m \in Running /\ state'[m][m] = "ONLINE"
  BY DEF TrueAnswers, Held
<1>2. CASE f \in OldOf(rep[s][m])
  <2>1. PICK g \in Held(rep[s][m]) : f.type = g.type
    BY <1>2, HeldFrames, OldFields DEF Base
  <2> QED
    BY <1>1, <2>1 DEF Base, TrueAnswers, Steady
<1>3. CASE NewReply(s, m, f)
  BY <1>1, <1>3 DEF NewReply, Steady
<1> QED
  BY <1>1, <1>2, <1>3 DEF ReplyTraffic

-----------------------------------------------------------------------------
(***************************************************************************)
(* The three invariants.                                                   *)
(***************************************************************************)

\* Who is announced to n is ONLINE, and so is n.
LEMMA NoticeOfJoin ==
    ASSUME Base, NEW n \in Running, NEW p \in Node, Notified(n, p)
    PROVE  p \in Running /\ state[p][p] = "ONLINE" /\ state[n][n] = "ONLINE"
<1>1. PICK q \in Running : \E f \in Held(req[q][n]) :
         f.type = "PEER_JOIN_NOTIFICATION" /\ f.src = p
  BY DEF Notified
<1>2. PICK f \in Held(req[q][n]) : f.type = "PEER_JOIN_NOTIFICATION" /\ f.src = p
  BY <1>1
<1>3. TrueNotice(q, n, f)
  BY PeerFacts DEF Base, TrueNotices
<1> QED
  BY <1>2, <1>3 DEF TrueNotice

LEMMA StepOnline ==
    ASSUME Base, OnlineViewIsTrue, [Next]_vars PROVE OnlineViewIsTrue'
<1> SUFFICES ASSUME NEW n \in Running, NEW p \in Node, state'[n][p] = "ONLINE"
             PROVE  p \in Running /\ state'[p][p] = "ONLINE"
  BY DEF OnlineViewIsTrue
<1>1. ViewStep(n, p) /\ Steady
  BY StepView, StepSteady DEF Views
<1>2. CASE p = n
  BY <1>2
<1>3. CASE state'[n][p] = state[n][p]
  BY <1>1, <1>3 DEF OnlineViewIsTrue, Steady
<1>4. CASE Answered(n, p)
  BY <1>1, <1>4 DEF Answered, Base, TrueAnswers, Steady
<1>5. CASE Notified(n, p)
  BY <1>1, <1>5, NoticeOfJoin DEF Steady
<1> QED
  BY <1>1, <1>2, <1>3, <1>4, <1>5 DEF ViewStep, Refused

LEMMA StepAsks ==
    ASSUME Base, AsksOnePeer, [Next]_vars PROVE AsksOnePeer'
<1> SUFFICES ASSUME NEW n \in Running, NEW p \in Node, state'[n][n] = "INITIALIZING"
             PROVE  state'[n][p] # "ONLINE"
  BY DEF AsksOnePeer
<1>1. n \in Node /\ ViewStep(n, n) /\ ViewStep(n, p)
  BY StepView, PeerFacts DEF Views
<1>2. CASE life[n] = "off"
  <2>1. state[n][p] = "UNKNOWN"
    BY <1>2 DEF Base, Fresh
  <2>2. state'[n][p] = state[n][p] \/ p = n
    BY <1>1, <1>2 DEF ViewStep
  <2> QED
    BY <2>1, <2>2
<1>3. CASE life[n] # "off"
  <2>1. state[n][n] = "INITIALIZING"
    BY <1>1, <1>3 DEF ViewStep, Refused, Answered, Notified
  <2>2. state[n][p] # "ONLINE"
    BY <2>1 DEF AsksOnePeer
  <2>3. ~Notified(n, p) /\ ~Answered(n, p)
    BY <2>1, NoticeOfJoin DEF Answered
  <2> QED
    BY <1>1, <1>3, <2>2, <2>3 DEF ViewStep, Refused
<1> QED
  BY <1>2, <1>3

\* Of two nodes that are up after the step, one is refused by the other only
\* if the other had not started.
LEMMA RefusedByTheAbsent ==
    ASSUME Base, [Next]_vars, NEW n \in Running, NEW m \in Running,
           life'[n] = "serving", life'[m] = "serving",
           state'[n][m] = "OFFLINE", n # m
    PROVE  life[n] = "serving" /\ (state[n][m] = "OFFLINE" \/ life[m] = "off")
<1>1. ViewStep(n, m) /\ LifeSteps /\ m \in Node
  BY StepView, StepLife, PeerFacts DEF Views, Base
<1>2. life[n] \in {"off", "serving"} /\ life[m] \in {"off", "serving"}
  BY <1>1 DEF LifeSteps
<1>3. life[n] # "off"
  <2> SUFFICES ASSUME life[n] = "off" PROVE FALSE
    OBVIOUS
  <2>1. state[n][m] = "UNKNOWN"
    BY <1>1 DEF Base, Fresh
  <2> QED
    BY <1>1, <2>1 DEF ViewStep
<1>4. ASSUME Refused(n, m) PROVE life[m] = "off"
  <2>1. ASSUME NEW q \in Running, NEW f \in Held(req[q][n]),
               f.type = "PEER_LEAVE_NOTIFICATION", f.src = m
        PROVE  FALSE
    <3>1. TrueNotice(q, n, f)
      BY PeerFacts DEF Base, TrueNotices
    <3> QED
      BY <1>2, <2>1, <3>1 DEF TrueNotice
  <2>2. ~Listening(m)
    BY <1>4, <2>1 DEF Refused
  <2> QED
    BY <1>2, <2>2 DEF Listening
<1>5. state[n][m] = "OFFLINE" \/ Refused(n, m)
  BY <1>1 DEF ViewStep, Answered, Notified
<1> QED
  BY <1>2, <1>3, <1>4, <1>5

LEMMA StepFinds ==
    ASSUME Base, OneFindsTheOther, [Next]_vars PROVE OneFindsTheOther'
<1> SUFFICES ASSUME NEW n \in Running, NEW m \in Running, n # m,
                    life'[n] = "serving", life'[m] = "serving",
                    state'[n][m] = "OFFLINE", state'[m][n] = "OFFLINE"
             PROVE  FALSE
  BY DEF OneFindsTheOther
<1>1. life[n] = "serving" /\ (state[n][m] = "OFFLINE" \/ life[m] = "off")
  BY RefusedByTheAbsent
<1>2. life[m] = "serving" /\ (state[m][n] = "OFFLINE" \/ life[n] = "off")
  BY RefusedByTheAbsent
<1> QED
  BY <1>1, <1>2 DEF OneFindsTheOther

LEMMA MembersInvHolds == Spec => []MembersInv
<1>1. Init => MembersInv
  <2> SUFFICES ASSUME Init
               PROVE  /\ FilesInv /\ Fresh /\ Contacting /\ NoSelf /\ NotAlone /\ TrueNotices
                      /\ TrueAnswers /\ OnlineViewIsTrue /\ AsksOnePeer /\ OneFindsTheOther
    BY DEF MembersInv, Base, FilesInv
  <2>1. \A n \in Running : /\ life[n] = "off" /\ cli[n].at = "ready" /\ numReq[n] = <<>>
                           /\ \A m \in Node : state[n][m] = "UNKNOWN"
                           /\ \A m \in Node : req[n][m] = <<>> /\ rep[n][m] = <<>>
    BY DEF Init
  <2>2. FilesInv
    <3>1. Carried
      BY <2>1 DEF Carried, Held
    <3> QED
      BY <3>1, InitKnown DEF FilesInv
  <2>3. Held(<<>>) = {}
    BY HeldOne
  <2>4. Fresh /\ Contacting
    BY <2>1 DEF Fresh, Contacting
  <2>5. TrueNotices /\ TrueAnswers
    BY <2>1, <2>3 DEF TrueNotices, TrueAnswers
  <2>6. NoSelf /\ NotAlone
    BY <2>1, PeerFacts DEF NoSelf, NotAlone
  <2>7. OnlineViewIsTrue /\ AsksOnePeer /\ OneFindsTheOther
    BY <2>1 DEF OnlineViewIsTrue, AsksOnePeer, OneFindsTheOther
  <2> QED
    BY <2>2, <2>4, <2>5, <2>6, <2>7
<1>2. MembersInv /\ [Next]_vars => MembersInv'
  <2> SUFFICES ASSUME MembersInv, [Next]_vars PROVE MembersInv'
    OBVIOUS
  <2>1. Base /\ Known /\ Carried /\ OnlineViewIsTrue /\ AsksOnePeer /\ OneFindsTheOther
    BY DEF MembersInv, FilesInv
  <2>2. TypeInv' /\ Known' /\ Carried'
    BY <2>1, StepKnown, StepCarried DEF Base
  <2>3. Fresh' /\ Contacting' /\ NoSelf' /\ NotAlone'
    BY <2>1, StepFresh, StepNoSelf, StepNotAlone
  <2>4. TrueNotices' /\ TrueAnswers'
    BY <2>1, StepNotices, StepAnswers
  <2>5. OnlineViewIsTrue' /\ AsksOnePeer' /\ OneFindsTheOther'
    BY <2>1, StepOnline, StepAsks, StepFinds
  <2> QED
    BY <2>2, <2>3, <2>4, <2>5 DEF MembersInv, FilesInv, Base
<1> QED
  BY <1>1, <1>2, PTL DEF Spec

\* Whoever a node takes to be ONLINE has completed its join: files and chunks
\* are announced, and lists asked for, only where they are understood.
THEOREM OnlineMeansJoined == Spec => []OnlineViewIsTrue
BY MembersInvHolds, PTL DEF MembersInv

\* A node that waits for its first handshake takes nobody to be ONLINE, so the
\* one FILE_LIST_REQUEST object that handleRequest() makes on the answer goes
\* into one send queue, and is deleted once.
THEOREM OneListRequest == Spec => []AsksOnePeer
BY MembersInvHolds, PTL DEF MembersInv

\* The server starts before the first peer is contacted: of two nodes that are
\* up, never does each take the other to be OFFLINE.
THEOREM NobodyMissesEachOther == Spec => []OneFindsTheOther
BY MembersInvHolds, PTL DEF MembersInv

-----------------------------------------------------------------------------
(***************************************************************************)
(* A step after which nobody has left or died, from where no session is    *)
(* closing.                                                                *)
(***************************************************************************)
Unbroken == \A n \in Running, m \in Node : link[n][m] # "closing"

\* Frames are sent by n, and nothing else happens to those in transit.
Posts ==
    \E n \in Running, out \in [Node -> Seq(Frames)], views \in [Node -> State] :
        SendFrames(n, out, views, req)

LEMMA GoOnlinePosts ==
    ASSUME TypeInv, NEW n \in Running, GoOnline(n, state[n])
    PROVE  Posts
<1>1. PICK old \in [Node -> State] : old = state[n]
  BY NetTypesFact DEF NetTypes, States
<1>2. PICK g \in Frames : g = [type |-> "PEER_JOIN_NOTIFICATION", orphan |-> FALSE, src |-> n]
  BY DEF Frames
<1>3. PICK out \in [Node -> Seq(Frames)] : out = Broadcast(n, g, old)
  BY BroadcastTypes
<1>4. PICK views \in [Node -> State] : views = [old EXCEPT ![n] = "ONLINE"]
  BY DEF State
<1>5. SendFrames(n, out, views, req)
  BY <1>1, <1>2, <1>3, <1>4 DEF GoOnline
<1> QED
  BY <1>5 DEF Posts

LEMMA CommandPosts ==
    ASSUME TypeInv, NEW n \in Running,
           \/ InitRemotePeer(n) \/ (\E f \in File : Insert(n, f))
           \/ \E num \in DOMAIN numReq[n] : RequestChunk(n, num)
    PROVE  Posts
<1>1. PICK old \in [Node -> State] : old = state[n]
  BY NetTypesFact DEF NetTypes, States
<1>2. CASE InitRemotePeer(n)
  <2>1. PICK m : m = PeerAt[n][cli[n].i]
    OBVIOUS
  <2>2. PICK f \in Frames : f = Frame("HANDSHAKE_REQUEST")
    BY PlainFrames
  <2>3. PICK out \in [Node -> Seq(Frames)] : out = [NoFrames EXCEPT ![m] = <<f>>]
    BY OneFrameTypes
  <2>4. PICK views \in [Node -> State] : views = [old EXCEPT ![m] = "WAITING_FOR_HANDSHAKE"]
    BY DEF State
  <2>5. SendFrames(n, out, views, req)
    BY <1>1, <1>2, <2>1, <2>2, <2>3, <2>4 DEF InitRemotePeer
  <2> QED
    BY <2>5 DEF Posts
<1>3. ASSUME NEW f \in File, Insert(n, f) PROVE Posts
  <2>1. PICK num \in Nat : num = NextNum(n)
    BY NextNumIsNew
  <2>2. PICK g \in Frames : g = [type |-> "NEW_FILE_AVAILABLE", orphan |-> FALSE, num |-> num,
                                 name |-> f, src |-> n]
    BY DEF Frames
  <2>3. PICK out \in [Node -> Seq(Frames)] : out = Broadcast(n, g, old)
    BY BroadcastTypes
  <2>4. SendFrames(n, out, old, req)
    BY <1>1, <1>3, <2>1, <2>2, <2>3 DEF Insert
  <2> QED
    BY <2>4 DEF Posts
<1>4. ASSUME NEW num \in DOMAIN numReq[n], RequestChunk(n, num) PROVE Posts
  <2>1. PICK missing \in SUBSET Chunk : /\ missing = Chunk \ heap[n][FileOf(n, n, num)].has
                                        /\ missing # {}
    BY <1>4, PeerFacts DEF RequestChunk
  <2>2. Min(missing) \in Chunk
    BY <2>1, LeastNumber DEF Min, Chunk
  <2>3. num \in Nat
    BY TypeParts DEF CounterTypes
  <2>4. PICK f \in Frames : f = ChunkFrame("CHUNK_REQUEST", num, Min(missing))
    BY <2>2, <2>3 DEF ChunkFrame, Frames
  <2>5. PICK m : m = PeerAt[n][1]
    OBVIOUS
  <2>6. PICK out \in [Node -> Seq(Frames)] : out = [NoFrames EXCEPT ![m] = <<f>>]
    BY OneFrameTypes
  <2>7. SendFrames(n, out, old, req)
    BY <1>1, <1>4, <2>1, <2>4, <2>5, <2>6 DEF RequestChunk
  <2> QED
    BY <2>7 DEF Posts
<1> QED
  BY <1>2, <1>3, <1>4

LEMMA ReplyPosts ==
    ASSUME TypeInv, NEW n \in Running, NEW m \in Running, HandleReply(n, m)
    PROVE  UNCHANGED <<link, req>> \/ Posts
<1>1. PICK old \in [Node -> State] : old = state[n]
  BY NetTypesFact DEF NetTypes, States
<1>2. rep[n][m] # <<>>
  BY DEF HandleReply, OnHandshakeResponse, OnFileList, OnChunkInfo, OnChunk,
         OnChunkRequestDecline, Reply
<1>3. CASE OnHandshakeResponse(n, m)
  <2>1. PICK views \in [Node -> State] : views = [old EXCEPT ![m] = "ONLINE"]
    BY DEF State
  <2>2. PICK f \in Frames : f = Frame("FILE_LIST_REQUEST")
    BY PlainFrames
  <2>3. PICK out \in [Node -> Seq(Frames)] : out = Broadcast(n, f, views)
    BY BroadcastTypes
  <2>4. PICK views2 \in [Node -> State] : views2 = [views EXCEPT ![n] = "WAITING_FOR_FILE_LIST"]
    BY DEF State
  <2>5. UNCHANGED <<link, req>> \/ SendFrames(n, out, views2, req)
    BY <1>1, <1>3, <2>1, <2>2, <2>3, <2>4 DEF OnHandshakeResponse
  <2> QED
    BY <2>5 DEF Posts
<1>4. CASE OnFileList(n, m)
  <2>1. PICK list : list = Head(rep[n][m]).list
    OBVIOUS
  <2> DEFINE ask == [p \in Node |->
                       IF p # n /\ state[n][p] = "ONLINE" /\ list[1].num \notin info[n][p]
                       THEN <<Frame("CHUNK_INFO_REQUEST")>> ELSE <<>>]
  <2>2. PICK g \in Frames : g = Frame("CHUNK_INFO_REQUEST")
    BY PlainFrames
  <2>3. ask \in [Node -> Seq(Frames)]
    <3>1. <<g>> \in Seq(Frames) /\ <<>> \in Seq(Frames)
      OBVIOUS
    <3> QED
      BY <2>2, <3>1
  <2>4. PICK out \in [Node -> Seq(Frames)] : out = ask
    BY <2>3
  <2>5. PICK views \in [Node -> State] : views = [old EXCEPT ![n] = "WAITING_FOR_CHUNK_INFO"]
    BY DEF State
  <2>6. UNCHANGED <<link, req>> \/ GoOnline(n, state[n]) \/ SendFrames(n, out, views, req)
    BY <1>1, <1>4, <2>1, <2>4, <2>5 DEF OnFileList, linkVars
  <2> HIDE DEF ask
  <2> QED
    BY <2>6, GoOnlinePosts DEF Posts
<1>5. CASE OnChunkInfo(n, m)
  <2>1. UNCHANGED <<link, req>> \/ GoOnline(n, state[n])
    BY <1>5 DEF OnChunkInfo, linkVars
  <2> QED
    BY <2>1, GoOnlinePosts
<1>6. CASE OnChunk(n, m)
  <2>1. PICK f \in Frames : f = Head(rep[n][m]) /\ f.type = "CHUNK"
    BY <1>2, <1>6, QueueTypes, PeerFacts DEF OnChunk, Reply
  <2>2. PICK g \in Frames : g = NewChunkFrame(n, f.num, f.chunk)
    <3>1. f.num \in Nat /\ f.chunk \in Chunk
      BY <2>1, FrameFields
    <3> QED
      BY <3>1 DEF NewChunkFrame, Frames
  <2>3. PICK out \in [Node -> Seq(Frames)] : out = Broadcast(n, g, old)
    BY BroadcastTypes
  <2>4. SendFrames(n, out, old, req)
    BY <1>1, <1>6, <2>1, <2>2, <2>3 DEF OnChunk
  <2> QED
    BY <2>4 DEF Posts
<1>7. CASE OnChunkRequestDecline(n, m)
  BY <1>7 DEF OnChunkRequestDecline
<1> QED
  BY <1>3, <1>4, <1>5, <1>6, <1>7 DEF HandleReply

\* A session is opened to a node that listens, and none ends.
LinkSteps ==
    \A s \in Running, m \in Node :
        link'[s][m] = link[s][m] \/ (link'[s][m] = "open" /\ Listening(m))

\* A request stays in its queue until it is handled.
RequestsKept ==
    \A s \in Running, m \in Node : \A f \in Held(req[s][m]) :
        \/ f \in Held(req'[s][m])
        \/ m \in Running /\ req[s][m] # <<>> /\ f = Head(req[s][m]) /\ HandleRequest(m, s)

LEMMA PostsKeep ==
    ASSUME TypeInv, Posts
    PROVE  LinkSteps /\ RequestsKept
<1>1. PICK n \in Running, out \in [Node -> Seq(Frames)], views \in [Node -> State] :
         SendFrames(n, out, views, req)
  BY DEF Posts
<1>2. Sent(n, out, views, req)
  BY <1>1, SentFact
<1>3. LinkSteps
  BY <1>2 DEF Sent, LinkSteps
<1>4. ASSUME NEW s \in Running, NEW m \in Node PROVE Held(req[s][m]) \subseteq Held(req'[s][m])
  <2>1. req'[s][m] = req[s][m] \/ req'[s][m] = req[s][m] \o out[m]
    BY <1>2 DEF Sent
  <2> QED
    BY <2>1, QueueTypes, HeldBoth
<1>5. RequestsKept
  BY <1>4 DEF RequestsKept
<1> QED
  BY <1>3, <1>5

\* A handler that does not end its process finds all it looks up.
LEMMA HandlersEnd ==
    ASSUME TypeInv, AllStay', NEW n \in Running, NEW m \in Running, HandleRequest(n, m)
    PROVE  UNCHANGED <<life, link>> /\ req[m][n] # <<>> /\ req' = Handled(n, m)
<1>1. req[m][n] # <<>> /\ req' = Handled(n, m)
  BY DEF HandleRequest, OnHandshakeRequest, OnFileListRequest, OnChunkInfoRequest, OnNewFile,
         OnNewChunk, OnChunkRequest, OnJoinNotification, OnLeaveNotification, Request
<1>2. UNCHANGED <<life, link>> \/ Die(n)
  BY DEF HandleRequest, OnHandshakeRequest, OnFileListRequest, OnChunkInfoRequest, OnNewFile,
         OnNewChunk, OnChunkRequest, OnJoinNotification, OnLeaveNotification
<1>3. ~Die(n)
  BY NetTypesFact DEF AllStay, Die, NetTypes
<1> QED
  BY <1>1, <1>2, <1>3

\* A step sends frames, takes a request, or leaves both sessions and requests
\* alone.
LEMMA WhoSends ==
    ASSUME TypeInv, AllStay, AllStay', Unbroken, [Next]_vars
    PROVE  \/ UNCHANGED <<link, req>> \/ Posts
           \/ \E n, m \in Running : HandleRequest(n, m)
<1>1. CASE UNCHANGED vars
  BY <1>1 DEF vars
<1>2. CASE Next
  <2>1. PICK n \in Running :
           \/ Join(n) \/ Starting(n) \/ MarkFile(n) \/ Leave(n) \/ Quit(n) \/ StopServer(n)
           \/ Download(n)
           \/ \E f \in File : Insert(n, f)
           \/ \E m \in Running : HandleRequest(n, m) \/ HandleReply(n, m) \/ EndSession(n, m)
    BY <1>2 DEF Next
  <2>2. life \in [Running -> Life] /\ n \in Node
    BY NetTypesFact, PeerFacts DEF NetTypes
  <2>3. ~Leave(n) /\ ~Quit(n) /\ ~StopServer(n)
    BY <2>2 DEF AllStay, Leave, Quit, Die, StopServer
  <2>4. \A m \in Running : ~EndSession(n, m)
    BY PeerFacts DEF Unbroken, EndSession
  <2>5. CASE Join(n) \/ MarkFile(n) \/ CountRequest(n)
             \/ FinishInit(n) \/ MarkNextPeer(n) \/ ReturnFromJoin(n)
    BY <2>5 DEF Join, MarkFile, CountRequest, FinishInit, MarkNextPeer, ReturnFromJoin
  <2>6. CASE \/ InitRemotePeer(n) \/ (\E f \in File : Insert(n, f))
             \/ \E num \in DOMAIN numReq[n] : RequestChunk(n, num)
    BY <2>6, CommandPosts
  <2>7. CASE \E m \in Running : HandleRequest(n, m) \/ HandleReply(n, m)
    BY <2>7, ReplyPosts
  <2> QED
    BY <2>1, <2>3, <2>4, <2>5, <2>6, <2>7 DEF Starting, Download
<1> QED
  BY <1>1, <1>2

LEMMA StayersKeep ==
    ASSUME TypeInv, AllStay, AllStay', Unbroken, [Next]_vars
    PROVE  LinkSteps /\ RequestsKept
<1>1. TypeInv
  OBVIOUS
<1>2. CASE UNCHANGED <<link, req>>
  BY <1>2 DEF LinkSteps, RequestsKept
<1>3. CASE Posts
  BY <1>1, <1>3, PostsKeep
<1>4. ASSUME NEW n \in Running, NEW m \in Running, HandleRequest(n, m)
      PROVE  LinkSteps /\ RequestsKept
  <2>1. UNCHANGED link /\ req[m][n] # <<>> /\ req' = Handled(n, m) /\ n \in Node
    BY <1>4, HandlersEnd, PeerFacts
  <2>2. \A s \in Running, p \in Node :
          req'[s][p] = IF s = m /\ p = n THEN Tail(req[m][n]) ELSE req[s][p]
    BY <1>1, <2>1, NetTypesFact DEF Handled, NetTypes, Queues
  <2>3. \A f \in Held(req[m][n]) : f = Head(req[m][n]) \/ f \in Held(Tail(req[m][n]))
    BY <1>1, <2>1, QueueTypes, HeldRest
  <2>4. RequestsKept
    BY <1>4, <2>1, <2>2, <2>3 DEF RequestsKept
  <2> QED
    BY <2>1, <2>4 DEF LinkSteps
<1> QED
  BY <1>2, <1>3, <1>4, WhoSends

-----------------------------------------------------------------------------
(***************************************************************************)
(* Two nodes whose users neither leave nor quit.  With a third node a      *)
(* chunk can be announced to who has not heard of its file, and who joins  *)
(* can be missed for good: what follows holds of two nodes only, but for   *)
(* any files.  First, that no process dies.                                *)
(***************************************************************************)
TwoStay ==
    /\ \A x, y, z \in Node : x = y \/ y = z \/ x = z
    /\ Leavers = {} /\ Quitters = {}

\* No session is closing, so no frame loses its sender; a session is one with
\* a node that is up.
Sessions ==
    \A n \in Running, m \in Node :
        /\ link[n][m] # "closing"
        /\ link[n][m] # "none" \/ Held(req[n][m]) # {} \/ Held(rep[n][m]) # {} => Listening(m)
        /\ \A f \in Held(req[n][m]) : f.orphan = FALSE

\* Who is told that n has a chunk, and who sent it, knows the file.
Understood ==
    \A n, m \in Running :
        /\ \A f \in Held(req[n][m]) : f.type = "NEW_CHUNK_AVAILABLE" => f.num \in NumsOf(m, m)
        /\ \A f \in Held(rep[n][m]) : f.type = "CHUNK" => f.num \in NumsOf(m, m)

StayInv == TwoStay /\ MembersInv /\ AllStay /\ Sessions /\ Understood

\* Where no frame is an orphan, and every chunk that is announced is one of a
\* file that is known, a handler finds all it looks up.
LEMMA HandlersSurvive ==
    ASSUME StayInv, NEW n \in Running, NEW m \in Running, HandleRequest(n, m)
    PROVE  UNCHANGED <<life, link>> /\ req[m][n] # <<>> /\ req' = Handled(n, m)
<1>1. req[m][n] # <<>> /\ req' = Handled(n, m)
  BY DEF HandleRequest, OnHandshakeRequest, OnFileListRequest, OnChunkInfoRequest, OnNewFile,
         OnNewChunk, OnChunkRequest, OnJoinNotification, OnLeaveNotification, Request
<1>2. n \in Node /\ m \in Node /\ TypeInv
  BY PeerFacts DEF StayInv, MembersInv, Base
<1>3. PICK f \in Held(req[m][n]) : f = Head(req[m][n])
  BY <1>1, <1>2, QueueTypes, HeldTail
<1>4. f.orphan = FALSE /\ (f.type = "NEW_CHUNK_AVAILABLE" => f.num \in NumsOf(n, n))
  BY <1>2, <1>3 DEF StayInv, Sessions, Understood
<1>5. UNCHANGED <<life, link>>
  <2>1. CASE OnChunkInfoRequest(n, m)
    BY <1>3, <1>4, <2>1 DEF OnChunkInfoRequest
  <2>2. CASE OnNewChunk(n, m)
    <3>1. f.num \in NumsOf(n, n)
      BY <1>3, <1>4, <2>2 DEF OnNewChunk, Request
    <3> QED
      BY <1>3, <2>2, <3>1 DEF OnNewChunk
  <2>3. CASE OnChunkRequest(n, m)
    BY <1>3, <1>4, <2>3 DEF OnChunkRequest
  <2>4. CASE \/ OnHandshakeRequest(n, m) \/ OnFileListRequest(n, m) \/ OnNewFile(n, m)
             \/ OnJoinNotification(n, m) \/ OnLeaveNotification(n, m)
    BY <2>4 DEF OnHandshakeRequest, OnFileListRequest, OnNewFile, OnJoinNotification,
                OnLeaveNotification
  <2> QED
    BY <2>1, <2>2, <2>3, <2>4 DEF HandleRequest
<1> QED
  BY <1>1, <1>5

\* So a step ends no process,
LEMMA StayersStay == ASSUME StayInv, [Next]_vars PROVE AllStay'
<1>1. CASE UNCHANGED vars
  BY <1>1 DEF vars, StayInv, AllStay
<1>2. CASE Next
  <2>1. PICK n \in Running :
           \/ Join(n) \/ Starting(n) \/ MarkFile(n) \/ Leave(n) \/ Quit(n) \/ StopServer(n)
           \/ Download(n)
           \/ \E f \in File : Insert(n, f)
           \/ \E m \in Running : HandleRequest(n, m) \/ HandleReply(n, m) \/ EndSession(n, m)
    BY <1>2 DEF Next
  <2>2. TypeInv /\ AllStay
    BY DEF StayInv, MembersInv, Base
  <2>3. ~Leave(n) /\ ~Quit(n) /\ ~StopServer(n)
    BY <2>2 DEF StayInv, TwoStay, AllStay, Leave, Quit, StopServer
  <2>4. CASE Join(n)
    BY <2>2, <2>4, NetTypesFact DEF Join, NetTypes, AllStay
  <2>5. CASE \/ Starting(n) \/ MarkFile(n) \/ Download(n) \/ (\E f \in File : Insert(n, f))
             \/ \E m \in Running : HandleReply(n, m) \/ EndSession(n, m)
    <3>1. UNCHANGED life
      BY <2>5 DEF Starting, InitRemotePeer, FinishInit, MarkNextPeer, ReturnFromJoin, MarkFile,
              Download, CountRequest, RequestChunk, Insert, HandleReply, OnHandshakeResponse,
              OnFileList, OnChunkInfo, OnChunk, OnChunkRequestDecline, EndSession
    <3> QED
      BY <2>2, <3>1 DEF AllStay
  <2>6. CASE \E m \in Running : HandleRequest(n, m)
    BY <2>2, <2>6, HandlersSurvive DEF AllStay
  <2> QED
    BY <2>1, <2>3, <2>4, <2>5, <2>6
<1> QED
  BY <1>1, <1>2

\* and frames and sessions stay until they are handled.
LEMMA StepKeeps ==
    ASSUME StayInv, [Next]_vars
    PROVE  LinkSteps /\ RequestsKept
<1>1. TypeInv /\ AllStay /\ Unbroken
  BY DEF StayInv, MembersInv, Base, Sessions, Unbroken
<1> QED
  BY <1>1, StayersStay, StayersKeep

\* Who listens goes on listening.
LEMMA StillListening ==
    ASSUME StayInv, [Next]_vars, NEW m \in Node, Listening(m)
    PROVE  Listening(m)'
<1>1. m \in Running /\ life[m] = "serving"
  BY DEF Listening, StayInv, AllStay
<1>2. life'[m] \in {"off", "serving"} /\ life'[m] # "off"
  BY <1>1, StayersStay, StepLife DEF StayInv, MembersInv, Base, AllStay, LifeSteps
<1> QED
  BY <1>1, <1>2 DEF Listening

LEMMA StepSessions == ASSUME StayInv, [Next]_vars PROVE Sessions'
<1>1. TypeInv /\ Sessions
  BY DEF StayInv, MembersInv, Base
<1>2. LinkSteps /\ RequestTraffic /\ ReplyTraffic
  BY <1>1, StepKeeps, StepTraffic
<1>3. ASSUME NEW n \in Running, NEW m \in Node PROVE link'[n][m] # "closing"
  BY <1>1, <1>2 DEF Sessions, LinkSteps
<1>4. ASSUME NEW n \in Running, NEW m \in Node, link'[n][m] # "none" PROVE Listening(m)
  BY <1>1, <1>2, <1>4 DEF Sessions, LinkSteps
<1>5. ASSUME NEW n \in Running, NEW m \in Node, NEW f \in Held(req'[n][m]) PROVE Listening(m)
  <2>1. CASE f \in OldOf(req[n][m])
    BY <1>1, <2>1 DEF OldOf, Sessions
  <2>2. CASE NewRequest(n, m, f)
    BY <1>1, <2>2 DEF NewRequest, Connects, Sessions
  <2> QED
    BY <1>2, <2>1, <2>2 DEF RequestTraffic
<1>6. ASSUME NEW n \in Running, NEW m \in Node, NEW f \in Held(rep'[n][m]) PROVE Listening(m)
  <2>1. CASE f \in OldOf(rep[n][m])
    BY <1>1, <2>1 DEF OldOf, Sessions
  <2>2. CASE NewReply(n, m, f)
    BY <1>1, <2>2 DEF NewReply, Sessions
  <2> QED
    BY <1>2, <2>1, <2>2 DEF ReplyTraffic
<1>7. ASSUME NEW n \in Running, NEW m \in Node, NEW f \in Held(req'[n][m]) PROVE f.orphan = FALSE
  BY <1>1, <1>2 DEF RequestTraffic, Sessions
<1>8. \A m \in Node : Listening(m) => Listening(m)'
  BY StillListening
<1>9. \A n \in Running, m \in Node :
        link'[n][m] # "none" \/ Held(req'[n][m]) # {} \/ Held(rep'[n][m]) # {} => Listening(m)'
  BY <1>4, <1>5, <1>6, <1>8
<1>10. \A n \in Running, m \in Node : link'[n][m] # "closing"
  BY <1>3
<1>11. \A n \in Running, m \in Node : \A f \in Held(req'[n][m]) : f.orphan = FALSE
  BY <1>7
<1> QED
  BY <1>9, <1>10, <1>11 DEF Sessions, Held

\* The chunk that n announces it had from the node that it tells: there is no
\* third one.
LEMMA StepUnderstood == ASSUME StayInv, [Next]_vars PROVE Understood'
<1>1. TypeInv /\ Known /\ NoSelf /\ Understood
  BY DEF StayInv, MembersInv, FilesInv, Base
<1>2. RequestTraffic /\ ReplyTraffic /\ NumsGrow
  BY <1>1, StepTraffic, StepKnown
<1>3. ASSUME NEW n \in Running, NEW m \in Running, NEW f \in Held(req'[n][m]),
             f.type = "NEW_CHUNK_AVAILABLE"
      PROVE  f.num \in NumsOf(m, m)
  <2>1. n \in Node /\ m \in Node
    BY PeerFacts
  <2>2. CASE f \in OldOf(req[n][m])
    <3>1. PICK g \in Held(req[n][m]) : g.type = "NEW_CHUNK_AVAILABLE" /\ f.num = g.num
      BY <1>1, <1>3, <2>1, <2>2, HeldFrames, OldFields
    <3> QED
      BY <1>1, <3>1 DEF Understood
  <2>3. CASE NewRequest(n, m, f)
    <3>1. m # n
      BY <1>3, <2>3 DEF NewRequest
    <3>2. PICK p \in Running : OnChunk(n, p) /\ f.num = Head(rep[n][p]).num
      BY <1>3, <2>3 DEF NewRequest, Announces
    <3>3. rep[n][p] # <<>> /\ Head(rep[n][p]).type = "CHUNK"
      BY <3>2 DEF OnChunk, Reply
    <3>4. p \in Node /\ p = m
      BY <1>1, <2>1, <3>1, <3>3, PeerFacts DEF NoSelf, StayInv, TwoStay
    <3>5. Head(rep[n][p]) \in Held(rep[n][p])
      BY <1>1, <3>3, <3>4, QueueTypes, HeldTail
    <3> QED
      BY <1>1, <3>2, <3>3, <3>4, <3>5 DEF Understood
  <2> QED
    BY <1>2, <2>1, <2>2, <2>3 DEF RequestTraffic
<1>4. ASSUME NEW n \in Running, NEW m \in Running, NEW f \in Held(rep'[n][m]), f.type = "CHUNK"
      PROVE  f.num \in NumsOf(m, m)
  <2>1. n \in Node /\ m \in Node
    BY PeerFacts
  <2>2. CASE f \in OldOf(rep[n][m])
    <3>1. PICK g \in Held(rep[n][m]) : g.type = "CHUNK" /\ f.num = g.num
      BY <1>1, <1>4, <2>1, <2>2, HeldFrames, OldFields
    <3> QED
      BY <1>1, <3>1 DEF Understood
  <2>3. CASE NewReply(n, m, f)
    BY <1>4, <2>3 DEF NewReply, Served
  <2> QED
    BY <1>2, <2>1, <2>2, <2>3 DEF ReplyTraffic
<1>5. \A m \in Running : NumsOf(m, m) \subseteq NumsOf(m, m)'
  BY <1>2 DEF NumsGrow
<1>6. \A n, m \in Running : \A f \in Held(req'[n][m]) :
        f.type = "NEW_CHUNK_AVAILABLE" => f.num \in NumsOf(m, m)'
  BY <1>3, <1>5
<1>7. \A n, m \in Running : \A f \in Held(rep'[n][m]) :
        f.type = "CHUNK" => f.num \in NumsOf(m, m)'
  BY <1>4, <1>5
<1> QED
  BY <1>6, <1>7 DEF Understood, Held

LEMMA StayInvHolds == TwoStay /\ Spec => []StayInv
<1>1. Init /\ TwoStay /\ MembersInv => StayInv
  <2> SUFFICES ASSUME Init PROVE AllStay /\ Sessions /\ Understood
    BY DEF StayInv
  <2>1. \A n \in Running, m \in Node :
           link[n][m] = "none" /\ Held(req[n][m]) = {} /\ Held(rep[n][m]) = {}
    BY HeldOne DEF Init
  <2>2. \A n \in Running : n \in Node /\ life[n] = "off"
    BY PeerFacts DEF Init
  <2> QED
    BY <2>1, <2>2 DEF AllStay, Sessions, Understood
<1>2. StayInv /\ [Next]_vars /\ MembersInv' => StayInv'
  <2> SUFFICES ASSUME StayInv, [Next]_vars, MembersInv' PROVE StayInv'
    OBVIOUS
  <2>1. AllStay' /\ Sessions' /\ Understood'
    BY StayersStay, StepSessions, StepUnderstood
  <2>2. TwoStay'
    BY DEF StayInv, TwoStay
  <2> QED
    BY <2>1, <2>2 DEF StayInv
<1> QED
  BY <1>1, <1>2, MembersInvHolds, PTL DEF Spec

\* Where two nodes keep to each other, no handler meets a null pointer: every
\* chunk is announced to the node it came from, which knows its file, and no
\* peer hangs up before it is answered.
THEOREM PairSurvives == TwoStay /\ Spec => []NoCrash
<1>1. StayInv => NoCrash
  BY DEF StayInv, AllStay, NoCrash
<1> QED
  BY <1>1, StayInvHolds, PTL

(***************************************************************************)
(* That each comes to take the other to be ONLINE.  The one that is asked  *)
(* first knows by then that the other is up, or is told of its join; what  *)
(* a node asks for, or is answered, it asked a peer it does not take to be *)
(* OFFLINE.                                                                *)
(***************************************************************************)

\* n has joined and contacted nobody yet.
Greeting(n) == cli[n].at = "init" /\ cli[n].i = 1

Begun == \A n \in Running : Greeting(n) => state[n][n] = "INITIALIZING"

\* What lies between n and m says how n takes m to be.
Asked ==
    \A n \in Running, m \in Node :
        /\ \A f \in Held(req[n][m]) :
             /\ f.type = "HANDSHAKE_REQUEST" =>
                  state[n][m] \notin {"OFFLINE", "UNKNOWN"} /\ ~Greeting(n)
             /\ f.type \in {"FILE_LIST_REQUEST", "CHUNK_INFO_REQUEST", "PEER_JOIN_NOTIFICATION"} =>
                  state[n][m] = "ONLINE"
        /\ \A f \in Held(rep[n][m]) :
             /\ f.type = "HANDSHAKE_RESPONSE" =>
                  state[n][m] \notin {"OFFLINE", "UNKNOWN"} /\ ~Greeting(n)
             /\ f.type \in {"FILE_LIST", "CHUNK_INFO"} => state[n][m] = "ONLINE"

\* Who waits for files or chunks waits for the other.
Waits ==
    \A n \in Running, m \in Node :
        n # m /\ state[n][n] \in {"WAITING_FOR_FILE_LIST", "WAITING_FOR_CHUNK_INFO"} =>
            state[n][m] = "ONLINE"

\* Whom m does not take to be OFFLINE, m has told, or is telling, that it joined.
ToldBy(m, n) ==
    \/ state[n][m] = "ONLINE"
    \/ \E f \in Held(req[m][n]) : f.type = "PEER_JOIN_NOTIFICATION"

Told ==
    \A n, m \in Running :
        n # m /\ state[m][m] = "ONLINE" /\ state[m][n] # "OFFLINE" => ToldBy(m, n)

AgreeInv == StayInv /\ Begun /\ Asked /\ Waits /\ Told

LEMMA PairCount == ASSUME TwoStay, NEW n \in Running PROVE MaxPeers <= 2
<1>1. n \in Node /\ IsFiniteSet(Node)
  BY PeerAssumption
<1>2. CASE Node = {n}
  <2>1. Cardinality(Node) = 1
    BY <1>2, FS_Singleton
  <2> QED
    BY <2>1 DEF MaxPeers
<1>3. CASE Node # {n}
  <2>1. PICK m \in Node : m # n
    BY <1>1, <1>3
  <2>2. Node = {n} \cup {m}
    BY <1>1, <2>1 DEF TwoStay
  <2>3. IsFiniteSet({n}) /\ Cardinality({n}) = 1
    BY FS_Singleton
  <2>4. Cardinality({n} \cup {m}) = 2
    BY <2>1, <2>3, FS_AddElement
  <2> QED
    BY <2>2, <2>4 DEF MaxPeers
<1> QED
  BY <1>2, <1>3

\* A node has one peer to contact, and that is the first thing it does.
LEMMA ContactsOnce ==
    ASSUME StayInv, NEW n \in Running, InitRemotePeer(n)
    PROVE  Greeting(n) /\ ~Greeting(n)'
<1>1. cli[n].at = "init" /\ cli[n].i < MaxPeers /\ cli' = [cli EXCEPT ![n].i = @ + 1]
  BY DEF InitRemotePeer
<1>2. cli[n].i >= 1 /\ MaxPeers <= 2
  BY <1>1, PairCount DEF StayInv, MembersInv, Base, Contacting
<1>3. cli \in [Running -> [at : {"ready", "init", "mark"}, i : 0..MaxPeers]]
  BY NetTypesFact DEF StayInv, MembersInv, Base, NetTypes
<1>4. MaxPeers \in Nat /\ cli[n].i \in Nat
  BY <1>3, PeerFacts
<1>5. cli[n].i = 1 /\ cli'[n].i = 2
  BY <1>1, <1>2, <1>3, <1>4
<1> QED
  BY <1>1, <1>5 DEF Greeting

LEMMA GreetingBegins ==
    ASSUME StayInv, [Next]_vars, NEW n \in Running, Greeting(n)'
    PROVE  Greeting(n) \/ Join(n)
<1>1. Base
  BY DEF StayInv, MembersInv
<1>2. cli'[n].at = "init" /\ cli'[n].i = 1
  BY DEF Greeting
<1>3. \/ cli'[n] = cli[n]
      \/ Join(n)
      \/ InitRemotePeer(n) /\ cli'[n].i >= 2
  BY <1>1, <1>2, StepCli DEF CliSteps
<1> QED
  BY <1>2, <1>3 DEF Greeting

LEMMA OnlineListens ==
    ASSUME StayInv, NEW m \in Running, state[m][m] = "ONLINE"
    PROVE  Listening(m)
<1>1. m \in Node /\ Fresh /\ AllStay
  BY PeerFacts DEF StayInv, MembersInv, Base
<1>2. life[m] # "off"
  BY <1>1 DEF Fresh
<1> QED
  BY <1>1, <1>2 DEF AllStay, Listening

\* A node that listens is not refused, and has not said that it leaves.
LEMMA NotRefused ==
    ASSUME StayInv, [Next]_vars, NEW n \in Running, NEW m \in Node, Listening(m)
    PROVE  ~Refused(n, m)
<1>1. life'[n] # "stopping"
  BY StayersStay DEF AllStay
<1>2. ASSUME NEW p \in Running, NEW f \in Held(req[p][n]),
             f.type = "PEER_LEAVE_NOTIFICATION", f.src = m
      PROVE  FALSE
  <2>1. TrueNotice(p, n, f)
    BY PeerFacts DEF StayInv, MembersInv, Base, TrueNotices
  <2>2. p = m /\ life[m] \notin {"off", "serving"}
    BY <1>2, <2>1 DEF TrueNotice
  <2> QED
    BY <2>2 DEF StayInv, AllStay
<1> QED
  BY <1>1, <1>2 DEF Refused

\* Whom n takes to be ONLINE it does for ever.
LEMMA OnlineStays ==
    ASSUME StayInv, Begun, [Next]_vars, NEW n \in Running, NEW m \in Node, n # m,
           state[n][m] = "ONLINE"
    PROVE  state'[n][m] = "ONLINE"
<1>1. Base /\ OnlineViewIsTrue /\ AsksOnePeer
  BY DEF StayInv, MembersInv
<1>2. ViewStep(n, m)
  BY <1>1, StepView DEF Views
<1>3. ~InitRemotePeer(n)
  BY <1>1, ContactsOnce DEF Begun, AsksOnePeer
<1>4. m \in Running /\ state[m][m] = "ONLINE"
  BY <1>1 DEF OnlineViewIsTrue
<1>5. ~Refused(n, m)
  BY <1>4, OnlineListens, NotRefused
<1> QED
  BY <1>2, <1>3, <1>5 DEF ViewStep, Answered, Notified

\* Whom n has contacted it does not take to be OFFLINE.
LEMMA ContactStays ==
    ASSUME StayInv, [Next]_vars, NEW n \in Running, NEW m \in Node, n # m, Listening(m),
           state[n][m] \notin {"OFFLINE", "UNKNOWN"}
    PROVE  state'[n][m] \notin {"OFFLINE", "UNKNOWN"}
<1>1. ViewStep(n, m)
  BY StepView DEF StayInv, MembersInv, Views
<1>2. ~Refused(n, m)
  BY NotRefused
<1> QED
  BY <1>1, <1>2 DEF ViewStep, Answered, Notified

\* Nor does it contact it again.
LEMMA NoNewGreeting ==
    ASSUME StayInv, [Next]_vars, NEW n \in Running, NEW m \in Node,
           state[n][m] # "UNKNOWN", ~Greeting(n)
    PROVE  ~Greeting(n)'
<1>1. ~Join(n)
  BY DEF StayInv, MembersInv, Base, Fresh, Join
<1> QED
  BY <1>1, GreetingBegins

LEMMA StepBegun ==
    ASSUME AgreeInv, [Next]_vars
    PROVE  Begun'
<1>1. StayInv /\ Begun /\ Asked /\ Base /\ AsksOnePeer
  BY DEF AgreeInv, StayInv, MembersInv
<1> SUFFICES ASSUME NEW n \in Running, Greeting(n)' PROVE state'[n][n] = "INITIALIZING"
  BY DEF Begun
<1>2. n \in Node /\ state \in States
  BY <1>1, PeerFacts, NetTypesFact DEF Base, NetTypes
<1>3. CASE Join(n)
  BY <1>2, <1>3 DEF Join, States
<1>4. CASE Greeting(n)
  <2>1. state[n][n] = "INITIALIZING" /\ \A m \in Node : state[n][m] # "ONLINE"
    BY <1>1, <1>4 DEF Begun, AsksOnePeer
  <2>2. ~FinishInit(n)
    <3>1. cli'[n].at = "init" /\ cli \in [Running -> [at : {"ready", "init", "mark"}, i : 0..MaxPeers]]
      BY <1>1, NetTypesFact DEF Greeting, Base, NetTypes
    <3> QED
      BY <3>1 DEF FinishInit
  <2>3. \A p \in Running : \A f \in Held(rep[n][p]) : f.type \notin {"HANDSHAKE_RESPONSE", "FILE_LIST"}
    BY <1>1, <1>4, <2>1, PeerFacts DEF Asked
  <2>4. ~Advances(n) \/ state'[n][n] = "INITIALIZING"
    BY <2>1, <2>2, <2>3 DEF Advances, Informed
  <2>5. ViewStep(n, n)
    BY <1>1, <1>2, StepView DEF Views
  <2>6. ~Join(n)
    BY <1>4 DEF Join, Ready, Greeting
  <2> QED
    BY <2>1, <2>4, <2>5, <2>6 DEF ViewStep, Refused, Answered, Notified
<1> QED
  BY <1>1, <1>3, <1>4, GreetingBegins

LEMMA StepAsked ==
    ASSUME AgreeInv, [Next]_vars, NoSelf'
    PROVE  Asked'
<1>1. StayInv /\ Begun /\ Asked /\ Base /\ Sessions
  BY DEF AgreeInv, StayInv, MembersInv
<1>2. RequestTraffic /\ ReplyTraffic
  BY <1>1, StepTraffic DEF Base
<1>3. ASSUME NEW n \in Running, NEW m \in Node, n # m, NEW g,
             \/ g \in Held(req[n][m]) /\ g.type = "HANDSHAKE_REQUEST"
             \/ g \in Held(rep[n][m]) /\ g.type = "HANDSHAKE_RESPONSE"
      PROVE  state'[n][m] \notin {"OFFLINE", "UNKNOWN"} /\ ~Greeting(n)'
  <2>1. Listening(m)
    BY <1>1, <1>3 DEF Sessions
  <2>2. state[n][m] \notin {"OFFLINE", "UNKNOWN"} /\ ~Greeting(n)
    BY <1>1, <1>3 DEF Asked
  <2> QED
    BY <1>1, <1>3, <2>1, <2>2, ContactStays, NoNewGreeting
<1>4. ASSUME NEW n \in Running, NEW m \in Node, n # m, NEW g,
             \/ /\ g \in Held(req[n][m])
                /\ g.type \in {"FILE_LIST_REQUEST", "CHUNK_INFO_REQUEST", "PEER_JOIN_NOTIFICATION"}
             \/ g \in Held(rep[n][m]) /\ g.type \in {"FILE_LIST", "CHUNK_INFO"}
      PROVE  state'[n][m] = "ONLINE"
  <2>1. state[n][m] = "ONLINE"
    BY <1>1, <1>4 DEF Asked
  <2> QED
    BY <1>1, <1>4, <2>1, OnlineStays
<1>5. ASSUME NEW n \in Running, NEW m \in Node, n # m, NEW f \in Held(req'[n][m])
      PROVE  /\ f.type = "HANDSHAKE_REQUEST" =>
                  state'[n][m] \notin {"OFFLINE", "UNKNOWN"} /\ ~Greeting(n)'
             /\ f.type \in {"FILE_LIST_REQUEST", "CHUNK_INFO_REQUEST", "PEER_JOIN_NOTIFICATION"} =>
                  state'[n][m] = "ONLINE"
  <2>1. CASE f \in OldOf(req[n][m])
    <3>1. PICK g \in Held(req[n][m]) : g.type = f.type
      BY <1>1, <2>1, HeldFrames, OldFields DEF Base
    <3> QED
      BY <1>3, <1>4, <1>5, <3>1
  <2>2. CASE NewRequest(n, m, f)
    <3>1. ASSUME f.type = "HANDSHAKE_REQUEST"
          PROVE  state'[n][m] \notin {"OFFLINE", "UNKNOWN"} /\ ~Greeting(n)'
      <4>1. InitRemotePeer(n) /\ state'[n][m] = "WAITING_FOR_HANDSHAKE"
        BY <2>2, <3>1 DEF NewRequest
      <4> QED
        BY <1>1, <4>1, ContactsOnce
    <3>2. ASSUME f.type \in {"FILE_LIST_REQUEST", "CHUNK_INFO_REQUEST", "PEER_JOIN_NOTIFICATION"}
          PROVE  state'[n][m] = "ONLINE"
      <4>1. state[n][m] = "ONLINE" \/ state'[n][m] = "ONLINE"
        BY <2>2, <3>2 DEF NewRequest
      <4> QED
        BY <1>1, <1>5, <4>1, OnlineStays
    <3> QED
      BY <3>1, <3>2
  <2> QED
    BY <1>2, <2>1, <2>2 DEF RequestTraffic
<1>6. ASSUME NEW n \in Running, NEW m \in Node, n # m, NEW f \in Held(rep'[n][m])
      PROVE  /\ f.type = "HANDSHAKE_RESPONSE" =>
                  state'[n][m] \notin {"OFFLINE", "UNKNOWN"} /\ ~Greeting(n)'
             /\ f.type \in {"FILE_LIST", "CHUNK_INFO"} => state'[n][m] = "ONLINE"
  <2>1. CASE f \in OldOf(rep[n][m])
    <3>1. PICK g \in Held(rep[n][m]) : g.type = f.type
      BY <1>1, <2>1, HeldFrames, OldFields DEF Base
    <3> QED
      BY <1>3, <1>4, <1>6, <3>1
  <2>2. CASE NewReply(n, m, f)
    <3>1. PICK g \in Held(req[n][m]) : Answers(g, f)
      BY <2>2 DEF NewReply
    <3> QED
      BY <1>3, <1>4, <1>6, <3>1 DEF Answers
  <2> QED
    BY <1>2, <2>1, <2>2 DEF ReplyTraffic
<1>7. \A n \in Running : Held(req'[n][n]) = {} /\ Held(rep'[n][n]) = {}
  BY HeldOne DEF NoSelf
<1> QED
  BY ZenonT(40), <1>5, <1>6, <1>7 DEF Asked, Held

\* How m gets on with its join, of two nodes.
LEMMA OwnStep ==
    ASSUME AgreeInv, [Next]_vars, NEW n \in Running
    PROVE  \/ state'[n][n] = state[n][n]
           \/ state'[n][n] = "INITIALIZING"
           \/ state[n][n] # "ONLINE" /\ Advances(n)
<1>1. Base /\ n \in Node /\ state \in States
  BY PeerFacts, NetTypesFact DEF AgreeInv, StayInv, MembersInv, Base, NetTypes
<1>2. ViewStep(n, n)
  BY <1>1, StepView DEF Views
<1>3. Join(n) => state'[n][n] = "INITIALIZING"
  BY <1>1 DEF Join, States
<1> QED
  BY <1>2, <1>3 DEF ViewStep, Refused, Answered, Notified

LEMMA StepWaits ==
    ASSUME AgreeInv, [Next]_vars
    PROVE  Waits'
<1>1. StayInv /\ Begun /\ Waits /\ TwoStay /\ Sessions
  BY DEF AgreeInv, StayInv
<1> SUFFICES ASSUME NEW n \in Running, NEW m \in Node, n # m,
                    state'[n][n] \in {"WAITING_FOR_FILE_LIST", "WAITING_FOR_CHUNK_INFO"}
             PROVE  state'[n][m] = "ONLINE"
  BY DEF Waits
<1>2. state[n][m] = "ONLINE" => state'[n][m] = "ONLINE"
  BY <1>1, OnlineStays
<1>3. CASE state[n][n] \in {"WAITING_FOR_FILE_LIST", "WAITING_FOR_CHUNK_INFO"}
  BY <1>1, <1>2, <1>3 DEF Waits
<1>4. CASE Advances(n) /\ state[n][n] \notin {"WAITING_FOR_FILE_LIST", "WAITING_FOR_CHUNK_INFO"}
  <2>1. ~FinishInit(n)
    <3>1. state \in States /\ n \in Node
      BY <1>1, PeerFacts, NetTypesFact DEF StayInv, MembersInv, Base, NetTypes
    <3> QED
      BY <1>4, <3>1 DEF FinishInit, States
  <2>2. PICK p \in Running \ {n} : /\ \E f \in Held(rep[n][p]) : f.type = "HANDSHAKE_RESPONSE"
                                   /\ state'[n][p] = "ONLINE" \/ ~Listening(p)
    BY <1>4, <2>1 DEF Advances
  <2>3. p = m
    BY <1>1, <2>2, PeerFacts DEF TwoStay
  <2>4. Listening(m)
    BY <1>1, <2>2, <2>3 DEF Sessions
  <2> QED
    BY <2>2, <2>3, <2>4
<1> QED
  BY <1>3, <1>4, OwnStep

\* m, which is ONLINE, has told n of its join or knows that n knows.
LEMMA StaysTold ==
    ASSUME AgreeInv, [Next]_vars, NEW n \in Running, NEW m \in Running, n # m,
           state[m][m] = "ONLINE", state'[m][n] # "OFFLINE"
    PROVE  state'[n][m] = "ONLINE" \/ \E f \in Held(req'[m][n]) : f.type = "PEER_JOIN_NOTIFICATION"
<1>1. StayInv /\ Begun /\ Asked /\ Told /\ Base /\ n \in Node /\ m \in Node
  BY PeerFacts DEF AgreeInv, StayInv, MembersInv
<1>2. state \in States
  BY <1>1, NetTypesFact DEF Base, NetTypes
<1>3. state[n][m] = "ONLINE" => state'[n][m] = "ONLINE"
  BY <1>1, OnlineStays
<1>4. CASE state[m][n] # "OFFLINE"
  <2>1. ASSUME NEW f \in Held(req[m][n]), f.type = "PEER_JOIN_NOTIFICATION"
        PROVE  f \in Held(req'[m][n]) \/ state'[n][m] = "ONLINE"
    <3>1. CASE req[m][n] # <<>> /\ f = Head(req[m][n]) /\ HandleRequest(n, m)
      <4>1. f.src = m
        BY <1>1, <2>1 DEF Base, TrueNotices, TrueNotice
      <4>2. OnJoinNotification(n, m)
        BY <2>1, <3>1 DEF HandleRequest, OnHandshakeRequest, OnFileListRequest,
                  OnChunkInfoRequest, OnNewFile, OnNewChunk, OnChunkRequest,
                  OnLeaveNotification, Request
      <4> QED
        BY <1>1, <1>2, <3>1, <4>1, <4>2 DEF OnJoinNotification, States
    <3> QED
      BY <1>1, <3>1, StepKeeps DEF RequestsKept
  <2> QED
    BY <1>1, <1>3, <1>4, <2>1 DEF Told, ToldBy
<1>5. CASE state[m][n] = "OFFLINE"
  <2>1. ViewStep(m, n)
    BY <1>1, StepView DEF Views
  <2>2. ~InitRemotePeer(m)
    BY <1>1, ContactsOnce DEF Begun
  <2>3. ~Answered(m, n)
    BY <1>1, <1>5 DEF Asked, Answered
  <2>4. ASSUME Notified(m, n) PROVE state[n][m] = "ONLINE"
    <3>1. PICK p \in Running : \E f \in Held(req[p][m]) :
             f.type = "PEER_JOIN_NOTIFICATION" /\ f.src = n
      BY <2>4 DEF Notified
    <3>2. PICK f \in Held(req[p][m]) : f.type = "PEER_JOIN_NOTIFICATION" /\ f.src = n
      BY <3>1
    <3>3. p = n
      BY <1>1, <3>2 DEF Base, TrueNotices, TrueNotice
    <3> QED
      BY <1>1, <3>2, <3>3 DEF Asked
  <2> QED
    BY <1>3, <1>5, <2>1, <2>2, <2>3, <2>4 DEF ViewStep, Refused
<1> QED
  BY <1>4, <1>5

\* m goes ONLINE, and tells n, if it knows of it.
LEMMA BecomesTold ==
    ASSUME AgreeInv, [Next]_vars, NEW n \in Running, NEW m \in Running, n # m,
           state[m][m] # "ONLINE", state'[m][m] = "ONLINE", state'[m][n] # "OFFLINE"
    PROVE  \E f \in Held(req'[m][n]) : f.type = "PEER_JOIN_NOTIFICATION"
<1>1. /\ StayInv /\ Asked /\ Waits /\ TwoStay /\ Sessions /\ OnlineViewIsTrue
      /\ n \in Node /\ m \in Node
  BY PeerFacts DEF AgreeInv, StayInv, MembersInv
<1>2. state \in States
  BY <1>1, NetTypesFact DEF StayInv, MembersInv, Base, NetTypes
<1>3. Advances(m)
  BY OwnStep
<1>4. ~FinishInit(m)
  BY <1>1, <1>2 DEF FinishInit, States
<1>5. /\ Informed(m)
      /\ \A p \in Node \ {m} :
           state[m][p] = "ONLINE" /\ Connects(m, p) /\ link[m][p] # "closing" =>
             \E f \in Held(req'[m][p]) : f.type = "PEER_JOIN_NOTIFICATION"
  BY <1>3, <1>4 DEF Advances
<1>6. state[m][n] = "ONLINE"
  <2>1. CASE state[m][m] = "WAITING_FOR_CHUNK_INFO"
    BY <1>1, <2>1 DEF Waits
  <2>2. ASSUME NEW p \in Running \ {m}, NEW f \in Held(rep[m][p]), f.type = "FILE_LIST"
        PROVE  state[m][n] = "ONLINE"
    <3>1. p = n
      BY <1>1, <2>2, PeerFacts DEF TwoStay
    <3> QED
      BY <1>1, <2>2, <3>1 DEF Asked
  <2> QED
    BY <1>5, <2>1, <2>2 DEF Informed
<1>7. Listening(n)
  BY <1>1, <1>6, OnlineListens DEF OnlineViewIsTrue
<1>8. Connects(m, n) /\ link[m][n] # "closing"
  BY <1>1, <1>7 DEF Connects, Sessions
<1> QED
  BY <1>1, <1>5, <1>6, <1>8

LEMMA StepTold ==
    ASSUME AgreeInv, [Next]_vars
    PROVE  Told'
<1>1. ASSUME NEW n \in Running, NEW m \in Running, n # m,
             state'[m][m] = "ONLINE", state'[m][n] # "OFFLINE"
      PROVE  state'[n][m] = "ONLINE" \/ \E f \in Held(req'[m][n]) : f.type = "PEER_JOIN_NOTIFICATION"
  BY <1>1, StaysTold, BecomesTold
<1> QED
  BY <1>1 DEF Told, ToldBy, Held

LEMMA AgreeInvHolds == TwoStay /\ Spec => []AgreeInv
<1>1. Init /\ StayInv => AgreeInv
  <2> SUFFICES ASSUME Init PROVE Begun /\ Asked /\ Waits /\ Told
    BY DEF AgreeInv
  <2>1. \A n \in Running, m \in Node :
           /\ Held(req[n][m]) = {} /\ Held(rep[n][m]) = {}
           /\ state[n][m] = "UNKNOWN"
    BY HeldOne DEF Init
  <2>2. \A n \in Running : n \in Node /\ cli[n].at = "ready"
    BY PeerFacts DEF Init
  <2> QED
    BY <2>1, <2>2 DEF Begun, Greeting, Asked, Waits, Told
<1>2. AgreeInv /\ [Next]_vars /\ StayInv' => AgreeInv'
  <2> SUFFICES ASSUME AgreeInv, [Next]_vars, StayInv' PROVE AgreeInv'
    OBVIOUS
  <2>1. NoSelf'
    BY DEF StayInv, MembersInv, Base
  <2>2. Begun' /\ Asked' /\ Waits' /\ Told'
    BY <2>1, StepBegun, StepAsked, StepWaits, StepTold
  <2> QED
    BY <2>2 DEF AgreeInv
<1> QED
  BY <1>1, <1>2, StayInvHolds, PTL DEF Spec

\* Two nodes that are ONLINE come to take each other to be: whichever went
\* ONLINE while it knew of the other has told it, and one of them knew, since
\* each starts its server before it contacts the other.
THEOREM PairAgrees == TwoStay /\ Spec => []MembersAgree
<1>1. AgreeInv => MembersAgree
  <2> SUFFICES ASSUME AgreeInv, NEW n \in Running, NEW m \in Running,
                      state[n][n] = "ONLINE", state[m][m] = "ONLINE",
                      \A x, y \in {n, m} : req[x][y] = <<>> /\ rep[x][y] = <<>>
               PROVE  state[n][m] = "ONLINE"
    BY DEF MembersAgree
  <2>1. StayInv /\ Told /\ OneFindsTheOther
    BY DEF AgreeInv, StayInv, MembersInv
  <2>2. life[n] = "serving" /\ life[m] = "serving"
    BY <2>1, OnlineListens DEF Listening, StayInv, AllStay
  <2>3. Held(req[m][n]) = {} /\ Held(req[n][m]) = {}
    BY HeldOne
  <2>4. CASE n # m /\ state[m][n] # "OFFLINE"
    BY <2>1, <2>3, <2>4 DEF Told, ToldBy
  <2>5. CASE n # m /\ state[m][n] = "OFFLINE"
    <3>1. state[n][m] # "OFFLINE"
      BY <2>1, <2>2, <2>5 DEF OneFindsTheOther
    <3>2. state[m][n] = "ONLINE"
      BY <2>1, <2>3, <2>5, <3>1 DEF Told, ToldBy
    <3> QED
      BY <2>5, <3>2
  <2> QED
    BY <2>4, <2>5
<1> QED
  BY <1>1, AgreeInvHolds, PTL
=============================================================================
