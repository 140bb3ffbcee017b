----------------------------- MODULE Connection -----------------------------
(***************************************************************************)
(* Sessions, server and connection maps of src/src/Connection.cpp, with    *)
(* Peer::sendFrame(), connect() and stopConnection() of src/src/peer.cpp   *)
(* that use them: one node, the client, sends frames to another, the       *)
(* server, which answers some.  A frame passes a send queue, a write       *)
(* thread, the socket as bytes, the asio thread of the other node, which   *)
(* puts frames together again, and the receive queue there.                *)
(*                                                                         *)
(* A session has two ends, which run the same code.  The k-th send queue   *)
(* that connect() makes is that of session k, connected or refused.        *)
(* Queues are those of ThreadSafeQueue, with the window in which pop() has *)
(* seen "empty, not stopped" and does not sleep yet.                       *)
(***************************************************************************)
EXTENDS Integers, Sequences, FiniteSets

CONSTANTS Senders,     \* threads of the client that call sendFrame
          Nobody,      \* the owner of a free mutex
          FrameLength, \* FRAME_LENGTH, in bytes
          MaxSize,     \* maxSize_ of every queue
          Buffer,      \* bytes the kernel takes before a write has to wait
          MaxSessions, \* bound: queues that connect() makes
          MaxSends,    \* bound: calls of sendFrame
          Quitters     \* bound: the processes that may be ended

Side == {"client", "server"}
Session == 1..MaxSessions
End == Session \X Side
Null == <<0, "client">>
Acceptor == "accept"
Thread == Senders \cup {Acceptor}

ASSUME ConnectionAssumption ==
    /\ Nobody \notin Senders /\ Acceptor \notin Senders
    /\ FrameLength \in Nat \ {0} /\ MaxSize \in Nat \ {0}
    /\ Buffer \in Nat /\ MaxSessions \in Nat /\ MaxSends \in Nat
    /\ Quitters \subseteq Side

VARIABLES
    \* the Peer object at the client
    sendq,   \* sendq_, as the end it belongs to, or Null
    mutex,   \* connectionMutex_, while connect() waits for the network
    pc,      \* where each sending thread, and the server's accept thread, is
    ptr,     \* the queue that thread has in hand
    calls,   \* how often sendFrame() was called
    \* the processes
    gone,    \* those that have ended
    serving, \* the server: "off", "on", "stopping" (leave), "closed"
    inbox,   \* receiveq_ of each node: the sessions its frames came from
    asio,    \* the end whose frame the asio thread is blocked on, or Null
    \* each end of each session
    q, stopped, \* its send queue: numbers of frames, stopReading_
    freed,   \* ends whose queue is deleted
    life,    \* the Session object
    writer,  \* its chain of write threads and write handlers
    reader,  \* whether another read is outstanding
    index, frame, \* incomingFrameIndex_, incomingFrame_
    sock,    \* its socket
    wire,    \* bytes it wrote that are not yet read
    \* history
    sent,    \* how many frames were put in its queue
    got      \* how many of them were handed over at the other end

peerVars == <<sendq, mutex, pc, ptr, calls>>
queueVars == <<q, stopped, freed, sent>>
readVars == <<reader, index, frame, got, inbox, asio>>
netVars == <<sock, wire>>
vars == <<peerVars, gone, serving, queueVars, life, writer, readVars, netVars>>

Far(e) == <<e[1], IF e[2] = "client" THEN "server" ELSE "client">>
SideOf(t) == IF t = Acceptor THEN "server" ELSE "client"

\* Byte i of frame n.  Blank: not read yet.
Bytes(n) == [i \in 1..FrameLength |-> <<n, i>>]
Blank == [i \in 1..FrameLength |-> <<0, 0>>]

\* The number of the frame in buffer f, 0 if it is a mixture.
NumberOf(f) == IF f = Bytes(f[1][1]) THEN f[1][1] ELSE 0

Init ==
    /\ sendq = Null
    /\ mutex = Nobody
    /\ pc = [t \in Thread |-> "idle"]
    /\ ptr = [t \in Thread |-> Null]
    /\ calls = 0
    /\ gone = {}
    /\ serving \in {"off", "on"}
    /\ inbox = [s \in Side |-> <<>>]
    /\ asio = [s \in Side |-> Null]
    /\ q = [e \in End |-> <<>>]
    /\ stopped = [e \in End |-> FALSE]
    /\ freed = {}
    /\ life = [e \in End |-> "none"]
    /\ writer = [e \in End |-> "off"]
    /\ reader = [e \in End |-> "off"]
    /\ index = [e \in End |-> 0]
    /\ frame = [e \in End |-> Blank]
    /\ sock = [e \in End |-> "none"]
    /\ wire = [e \in End |-> <<>>]
    /\ sent = [e \in End |-> 0]
    /\ got = [e \in End |-> 0]

Running(s) == s \notin gone

\* The process ends, and its memory with it; what its sockets had accepted is
\* still delivered.
Die(s) ==
    LET Clear(f, x) == [e \in End |-> IF e[2] = s THEN x ELSE f[e]]
        Free(f, x) == [t \in Thread |-> IF SideOf(t) = s THEN x ELSE f[t]]
    IN  /\ gone' = gone \cup {s}
        /\ sock' = [e \in End |-> IF e[2] = s /\ sock[e] = "up" THEN "shut" ELSE sock[e]]
        /\ sendq' = IF s = "client" THEN Null ELSE sendq
        /\ mutex' = IF s = "client" THEN Nobody ELSE mutex
        /\ pc' = Free(pc, "idle") /\ ptr' = Free(ptr, Null)
        /\ inbox' = [inbox EXCEPT ![s] = <<>>] /\ asio' = [asio EXCEPT ![s] = Null]
        /\ q' = Clear(q, <<>>) /\ life' = Clear(life, "gone")
        /\ writer' = Clear(writer, "off") /\ reader' = Clear(reader, "off")
        /\ index' = Clear(index, 0) /\ frame' = Clear(frame, Blank)
        /\ UNCHANGED <<calls, serving, stopped, freed, sent, got, wire>>

-----------------------------------------------------------------------------
(***************************************************************************)
(* Peer::sendFrame() of the client.                                        *)
(***************************************************************************)
\* isConnected(): the session is in the map until its object is destroyed.
Connected == sendq # Null /\ life[sendq] = "live"

CallSendFrame(t) ==
    /\ Running("client")
    /\ pc[t] = "idle"
    /\ calls < MaxSends
    /\ calls' = calls + 1
    /\ pc' = [pc EXCEPT ![t] = "connect"]
    /\ UNCHANGED <<sendq, mutex, ptr, gone, serving, queueVars, life, writer, readVars, netVars>>

ConnectAlive(t) ==
    /\ Running("client")
    /\ pc[t] = "connect"
    /\ mutex = Nobody
    /\ Connected
    /\ pc' = [pc EXCEPT ![t] = "connected"]
    /\ UNCHANGED <<sendq, mutex, ptr, calls, gone, serving, queueVars, life, writer, readVars, netVars>>

NextSession == Cardinality({e \in End : e[2] = "client" /\ life[e] # "none"} \cup
                           {e \in freed : e[2] = "client"}) + 1

\* Mistake: the mutex is not taken for the time of the connect.
ConnectBeginUnlocked(t) ==
    /\ Running("client")
    /\ pc[t] = "connect"
    /\ ~Connected
    /\ NextSession <= MaxSessions
    /\ sendq' = <<NextSession, "client">>
    /\ life' = [life EXCEPT ![sendq'] = "connecting"]
    /\ pc' = [pc EXCEPT ![t] = "connecting"]
    /\ ptr' = [ptr EXCEPT ![t] = sendq']
    /\ UNCHANGED <<mutex, calls, gone, serving, queueVars, writer, readVars, netVars>>

\* A new queue is made, and the mutex is held while the network is asked.
ConnectBegin(t) ==
    /\ Running("client")
    /\ pc[t] = "connect"
    /\ mutex = Nobody
    /\ ~Connected
    /\ NextSession <= MaxSessions
    /\ mutex' = t
    /\ sendq' = <<NextSession, "client">>
    /\ life' = [life EXCEPT ![sendq'] = "connecting"]
    /\ pc' = [pc EXCEPT ![t] = "connecting"]
    /\ ptr' = [ptr EXCEPT ![t] = sendq']
    /\ UNCHANGED <<calls, gone, serving, queueVars, writer, readVars, netVars>>

\* The session starts to read and to write; the server may accept it later.
ConnectDone(t) ==
    /\ Running("client")
    /\ pc[t] = "connecting"
    /\ Running("server") /\ serving \in {"on", "stopping"}
    /\ LET e == ptr[t]
       IN  /\ life' = [life EXCEPT ![e] = "live"]
           /\ writer' = [writer EXCEPT ![e] = "pop"]
           /\ reader' = [reader EXCEPT ![e] = "reading"]
           /\ sock' = [sock EXCEPT ![e] = "up", ![Far(e)] = "up"]
    /\ mutex' = Nobody
    /\ pc' = [pc EXCEPT ![t] = "connected"]
    /\ ptr' = [ptr EXCEPT ![t] = Null]
    /\ UNCHANGED <<sendq, calls, gone, serving, queueVars, index, frame, got, inbox, asio, wire>>

\* Nobody listens: the new queue is deleted, and sendFrame() fails.
ConnectRefused(t) ==
    /\ Running("client")
    /\ pc[t] = "connecting"
    /\ ~Running("server") \/ serving \in {"off", "closed"}
    /\ freed' = freed \cup {ptr[t]}
    /\ life' = [life EXCEPT ![ptr[t]] = "gone"]
    /\ q' = [q EXCEPT ![ptr[t]] = <<>>]
    /\ sendq' = Null
    /\ mutex' = Nobody
    /\ pc' = [pc EXCEPT ![t] = "idle"]
    /\ ptr' = [ptr EXCEPT ![t] = Null]
    /\ UNCHANGED <<calls, gone, serving, stopped, sent, writer, readVars, netVars>>

\* connect() has returned, its lock is free again, and sendq_ is read.
LoadQueue(t) ==
    /\ Running("client")
    /\ pc[t] = "connected"
    /\ ptr' = [ptr EXCEPT ![t] = sendq]
    /\ pc' = [pc EXCEPT ![t] = "push"]
    /\ UNCHANGED <<sendq, mutex, calls, gone, serving, queueVars, life, writer, readVars, netVars>>

-----------------------------------------------------------------------------
(***************************************************************************)
(* push() of thread t on the queue it has in hand.                         *)
(***************************************************************************)
Return(t) ==
    /\ pc' = [pc EXCEPT ![t] = "idle"]
    /\ ptr' = [ptr EXCEPT ![t] = Null]

\* Null ends the process; a deleted queue may, or the frame is just lost.
PushOnNothing(t) ==
    /\ Running(SideOf(t))
    /\ pc[t] \in {"push", "full"}
    /\ ptr[t] \in freed \cup {Null}
    /\ \/ Die(SideOf(t))
       \/ /\ ptr[t] # Null
          /\ Return(t)
          /\ UNCHANGED <<sendq, mutex, calls, gone, serving, queueVars, life, writer,
                         readVars, netVars>>

CanPush(t) ==
    /\ Running(SideOf(t))
    /\ ptr[t] \notin freed \cup {Null}
    /\ writer[ptr[t]] # "blocking"

PushDropped(t) ==
    /\ CanPush(t)
    /\ pc[t] = "push"
    /\ stopped[ptr[t]]
    /\ Return(t)
    /\ UNCHANGED <<sendq, mutex, calls, gone, serving, queueVars, life, writer, readVars, netVars>>

\* A thread in "full" goes on where there is room, as notFull_ tells it or by a
\* spurious wakeup.  For a queue of one that is all there is to it, as each pop
\* is from a full queue; of a longer one, of which several wait, not all are told.
PushBlocks(t) ==
    /\ CanPush(t)
    /\ pc[t] = "push"
    /\ ~stopped[ptr[t]]
    /\ Len(q[ptr[t]]) = MaxSize
    /\ pc' = [pc EXCEPT ![t] = "full"]
    /\ UNCHANGED <<sendq, mutex, ptr, calls, gone, serving, queueVars, life, writer, readVars, netVars>>

\* notEmpty_ of an end's queue: a sleeping write thread wakes.
Woken(w) == IF w = "asleep" THEN "pop" ELSE w

\* Mistake: the size of the queue is not looked at.
PushFrameUnchecked(t) ==
    /\ CanPush(t)
    /\ pc[t] = "push"
    /\ ~stopped[ptr[t]]
    /\ LET e == ptr[t]
       IN  /\ q' = [q EXCEPT ![e] = Append(@, sent[e] + 1)]
           /\ sent' = [sent EXCEPT ![e] = @ + 1]
           /\ writer' = [writer EXCEPT ![e] = Woken(@)]
    /\ Return(t)
    /\ UNCHANGED <<sendq, mutex, calls, gone, serving, stopped, freed, life, readVars, netVars>>

\* Mistake: a sleeping write thread is not woken.
PushFrameSilent(t) ==
    /\ CanPush(t)
    /\ pc[t] = "full" \/ (pc[t] = "push" /\ ~stopped[ptr[t]])
    /\ Len(q[ptr[t]]) < MaxSize
    /\ LET e == ptr[t]
       IN  /\ q' = [q EXCEPT ![e] = Append(@, sent[e] + 1)]
           /\ sent' = [sent EXCEPT ![e] = @ + 1]
    /\ Return(t)
    /\ UNCHANGED <<sendq, mutex, calls, gone, serving, stopped, freed, life, writer, readVars, netVars>>

PushFrame(t) ==
    /\ CanPush(t)
    /\ pc[t] = "full" \/ (pc[t] = "push" /\ ~stopped[ptr[t]])
    /\ Len(q[ptr[t]]) < MaxSize
    /\ LET e == ptr[t]
       IN  /\ q' = [q EXCEPT ![e] = Append(@, sent[e] + 1)]
           /\ sent' = [sent EXCEPT ![e] = @ + 1]
           /\ writer' = [writer EXCEPT ![e] = Woken(@)]
    /\ Return(t)
    /\ UNCHANGED <<sendq, mutex, calls, gone, serving, stopped, freed, life, readVars, netVars>>

Push(t) == PushDropped(t) \/ PushBlocks(t) \/ PushFrame(t) \/ PushOnNothing(t)

-----------------------------------------------------------------------------
(***************************************************************************)
(* Writing: a thread pops one frame and starts to write it, and the write  *)
(* handler starts the next thread.                                         *)
(***************************************************************************)
Pop(e) == Running(e[2]) /\ writer[e] = "pop"

\* Mistake: pop() reads the front of the queue and leaves it there.
PopFrameKeeps(e) ==
    /\ Pop(e)
    /\ q[e] # <<>>
    /\ wire' = [wire EXCEPT ![e] = IF sock[e] = "up" THEN @ \o Bytes(Head(q[e])) ELSE @]
    /\ writer' = [writer EXCEPT ![e] = "writing"]
    /\ UNCHANGED <<peerVars, gone, serving, queueVars, life, readVars, sock>>

PopFrame(e) ==
    /\ Pop(e)
    /\ q[e] # <<>>
    /\ q' = [q EXCEPT ![e] = Tail(@)]
    /\ wire' = [wire EXCEPT ![e] = IF sock[e] = "up" THEN @ \o Bytes(Head(q[e])) ELSE @]
    /\ writer' = [writer EXCEPT ![e] = "writing"]
    /\ UNCHANGED <<peerVars, gone, serving, stopped, freed, sent, life, readVars, sock>>

\* Nothing more to send: the socket is shut down both ways, and a write that
\* must fail is started.  shutdown() throws on a socket that was reset.
PopStopped(e) ==
    /\ Pop(e)
    /\ q[e] = <<>> /\ stopped[e]
    /\ \/ sock[e] = "reset" /\ Die(e[2])
       \/ /\ sock[e] # "reset"
          /\ sock' = [sock EXCEPT ![e] = "shut"]
          /\ writer' = [writer EXCEPT ![e] = "closing"]
          /\ UNCHANGED <<peerVars, gone, serving, queueVars, life, readVars, wire>>

PopBlock(e) ==
    /\ Pop(e)
    /\ q[e] = <<>> /\ ~stopped[e]
    /\ writer' = [writer EXCEPT ![e] = "blocking"]
    /\ UNCHANGED <<peerVars, gone, serving, queueVars, life, readVars, netVars>>

PopWait(e) ==
    /\ Running(e[2])
    /\ writer[e] = "blocking"
    /\ writer' = [writer EXCEPT ![e] = "asleep"]
    /\ UNCHANGED <<peerVars, gone, serving, queueVars, life, readVars, netVars>>

\* Mistake: another thread runs the handlers while one of them blocks.
AsioFreeAlways(s) == Running(s)

AsioFree(s) == Running(s) /\ asio[s] = Null

\* handleWrite() after a write that went through.
HandleWriteOk(e) ==
    /\ AsioFree(e[2])
    /\ writer[e] = "writing"
    /\ sock[e] = "up" /\ Len(wire[e]) <= Buffer
    /\ writer' = [writer EXCEPT ![e] = "pop"]
    /\ UNCHANGED <<peerVars, gone, serving, queueVars, life, readVars, netVars>>

\* handleWrite() after one that failed: no other thread is started.
HandleWriteError(e) ==
    /\ AsioFree(e[2])
    /\ writer[e] \in {"writing", "closing"}
    /\ sock[e] # "up"
    /\ writer' = [writer EXCEPT ![e] = "done"]
    /\ UNCHANGED <<peerVars, gone, serving, queueVars, life, readVars, netVars>>

HandleWrite(e) == HandleWriteOk(e) \/ HandleWriteError(e)

-----------------------------------------------------------------------------
(***************************************************************************)
(* Reading.                                                                *)
(***************************************************************************)
Reading(e) == AsioFree(e[2]) /\ life[e] = "live" /\ reader[e] = "reading"

\* The bytes that one read may return.
Readable(e) ==
    IF sock[e] # "up" THEN {}
    ELSE {j \in 1..(FrameLength - index[e]) : j <= Len(wire[Far(e)])}

FilledBy(e, j) ==
    [i \in 1..FrameLength |-> IF i \in (index[e] + 1)..(index[e] + j)
                              THEN wire[Far(e)][i - index[e]] ELSE frame[e][i]]

Consumed(e, j) == [wire EXCEPT ![Far(e)] = SubSeq(@, j + 1, Len(@))]

\* handleRead(): part of a frame.
ReadPart(e) ==
    /\ Reading(e)
    /\ \E j \in Readable(e) :
         /\ index[e] + j < FrameLength
         /\ index' = [index EXCEPT ![e] = @ + j]
         /\ frame' = [frame EXCEPT ![e] = FilledBy(e, j)]
         /\ wire' = Consumed(e, j)
    /\ UNCHANGED <<peerVars, gone, serving, queueVars, life, writer, reader, got, inbox, asio, sock>>

ReceiveStopped(s) == s = "server" /\ serving \in {"stopping", "closed"}

\* Frame n of d is handed over.  One out of turn, or that is no frame of d at all,
\* makes the count skip a number, which no channel does.
Counted(d, n) == [got EXCEPT ![d] = IF n = @ + 1 THEN n ELSE @ + 2]

\* receiveQ_->push() of a frame of session e[1]: dropped, blocked on, or in.
Receive(e, n) ==
    \/ /\ ReceiveStopped(e[2])
       /\ UNCHANGED <<inbox, got, asio>>
    \/ /\ ~ReceiveStopped(e[2]) /\ Len(inbox[e[2]]) = MaxSize
       /\ asio' = [asio EXCEPT ![e[2]] = e]
       /\ UNCHANGED <<inbox, got>>
    \/ /\ ~ReceiveStopped(e[2]) /\ Len(inbox[e[2]]) < MaxSize
       /\ inbox' = [inbox EXCEPT ![e[2]] = Append(@, e[1])]
       /\ got' = Counted(Far(e), n)
       /\ UNCHANGED asio

\* Mistake: incomingFrameIndex_ is not reset.
ReadLastKeepsIndex(e) ==
    /\ Reading(e)
    /\ \E j \in Readable(e) :
         /\ index[e] + j = FrameLength
         /\ wire' = Consumed(e, j)
         /\ frame' = [frame EXCEPT ![e] = FilledBy(e, j)]
         /\ Receive(e, NumberOf(FilledBy(e, j)))
    /\ UNCHANGED <<peerVars, gone, serving, queueVars, life, writer, reader, index, sock>>

\* handleRead(): the last part.  Should the push block, the frame stays where
\* it is, and no handler of any session of this process runs.
ReadLast(e) ==
    /\ Reading(e)
    /\ \E j \in Readable(e) :
         /\ index[e] + j = FrameLength
         /\ index' = [index EXCEPT ![e] = 0]
         /\ wire' = Consumed(e, j)
         /\ frame' = [frame EXCEPT ![e] = FilledBy(e, j)]
         /\ Receive(e, NumberOf(FilledBy(e, j)))
    /\ UNCHANGED <<peerVars, gone, serving, queueVars, life, writer, reader, sock>>

\* A blocked push gets room; that the queue was stopped is not tested again.
ReceiveResume(s) ==
    /\ Running(s)
    /\ asio[s] # Null
    /\ Len(inbox[s]) < MaxSize
    /\ inbox' = [inbox EXCEPT ![s] = Append(@, asio[s][1])]
    /\ got' = Counted(Far(asio[s]), NumberOf(frame[asio[s]]))
    /\ asio' = [asio EXCEPT ![s] = Null]
    /\ UNCHANGED <<peerVars, gone, serving, queueVars, life, writer, reader, index, frame, netVars>>

\* The connection is reset between a read and its handler: remote_endpoint()
\* throws on the asio thread.
ReadThrows(e) ==
    /\ Reading(e)
    /\ FrameLength - index[e] \in Readable(e)
    /\ sock[Far(e)] = "shut" /\ wire[e] # <<>>
    /\ Die(e[2])

\* Mistake: the write thread is not told of the read error.
ReadFailsSilently(e) ==
    /\ Reading(e)
    /\ sock[e] # "up" \/ (sock[Far(e)] # "up" /\ wire[Far(e)] = <<>>)
    /\ reader' = [reader EXCEPT ![e] = "failed"]
    /\ UNCHANGED <<peerVars, gone, serving, queueVars, life, writer, index, frame, got, inbox, asio, netVars>>

\* handleRead() with an error, or the end of the stream.
ReadFails(e) ==
    /\ Reading(e)
    /\ sock[e] # "up" \/ (sock[Far(e)] # "up" /\ wire[Far(e)] = <<>>)
    /\ reader' = [reader EXCEPT ![e] = "failed"]
    /\ stopped' = [stopped EXCEPT ![e] = TRUE]
    /\ writer' = [writer EXCEPT ![e] = Woken(@)]
    /\ UNCHANGED <<peerVars, gone, serving, q, freed, sent, life, index, frame, got, inbox, asio, netVars>>

HandleRead(e) == ReadPart(e) \/ ReadLast(e) \/ ReadFails(e) \/ ReadThrows(e)

\* Mistake: the write thread does not keep the session alive.
EndSessionEarly(e) ==
    /\ Running(e[2])
    /\ life[e] = "live"
    /\ reader[e] = "failed"
    /\ life' = [life EXCEPT ![e] = "gone"]
    /\ IF e[2] = "server"
       THEN freed' = freed \cup {e} /\ q' = [q EXCEPT ![e] = <<>>]
       ELSE UNCHANGED <<freed, q>>
    /\ index' = [index EXCEPT ![e] = 0]
    /\ frame' = [frame EXCEPT ![e] = Blank]
    /\ UNCHANGED <<peerVars, gone, serving, stopped, sent, writer, reader, got, inbox, asio, netVars>>

\* The last handler of a session is done: ~Session() and removeSession(), which
\* also deletes the queue if it is one that the Connection made.
EndSession(e) ==
    /\ Running(e[2])
    /\ life[e] = "live"
    /\ reader[e] = "failed" /\ writer[e] = "done"
    /\ life' = [life EXCEPT ![e] = "gone"]
    /\ IF e[2] = "server"
       THEN freed' = freed \cup {e} /\ q' = [q EXCEPT ![e] = <<>>]
       ELSE UNCHANGED <<freed, q>>
    /\ index' = [index EXCEPT ![e] = 0]
    /\ frame' = [frame EXCEPT ![e] = Blank]
    /\ UNCHANGED <<peerVars, gone, serving, stopped, sent, writer, reader, got, inbox, asio, netVars>>

\* Bytes arrive at a socket that is shut down: it answers with a reset.
Reset(e) ==
    /\ sock[e] = "up" /\ sock[Far(e)] = "shut" /\ wire[e] # <<>>
    /\ sock' = [sock EXCEPT ![e] = "reset"]
    /\ wire' = [wire EXCEPT ![e] = <<>>, ![Far(e)] = <<>>]
    /\ UNCHANGED <<peerVars, gone, serving, queueVars, life, writer, readVars>>

-----------------------------------------------------------------------------
(***************************************************************************)
(* The server.                                                             *)
(***************************************************************************)
Unaccepted == {e \in End : e[2] = "server" /\ sock[e] = "up" /\ life[e] = "none"}

\* handleAccept(), with addSession().
HandleAccept(e) ==
    /\ AsioFree("server")
    /\ e \in Unaccepted
    /\ serving # "closed"
    /\ life' = [life EXCEPT ![e] = "live"]
    /\ writer' = [writer EXCEPT ![e] = "pop"]
    /\ reader' = [reader EXCEPT ![e] = "reading"]
    /\ UNCHANGED <<peerVars, gone, serving, queueVars, index, frame, got, inbox, asio, netVars>>

\* acceptConnections() takes a frame, which needs an answer or needs none.
TakeRequest ==
    /\ Running("server")
    /\ pc[Acceptor] = "idle"
    /\ inbox["server"] # <<>>
    /\ inbox' = [inbox EXCEPT !["server"] = Tail(@)]
    /\ \/ /\ pc' = [pc EXCEPT ![Acceptor] = "lookup"]
          /\ ptr' = [ptr EXCEPT ![Acceptor] = <<Head(inbox["server"]), "server">>]
       \/ UNCHANGED <<pc, ptr>>
    /\ UNCHANGED <<sendq, mutex, calls, gone, serving, queueVars, life, writer,
                   reader, index, frame, got, asio, netVars>>

\* getReplyQueue(): the session may have ended; not every handler tests that.
LookUpQueue ==
    /\ Running("server")
    /\ pc[Acceptor] = "lookup"
    /\ \/ life[ptr[Acceptor]] = "gone" /\ Die("server")
       \/ /\ IF life[ptr[Acceptor]] = "live"
             THEN pc' = [pc EXCEPT ![Acceptor] = "push"] /\ UNCHANGED ptr
             ELSE Return(Acceptor)
          /\ UNCHANGED <<sendq, mutex, calls, gone, serving, queueVars, life, writer,
                         readVars, netVars>>

\* The accept thread of the client takes a frame.
TakeReply ==
    /\ Running("client")
    /\ inbox["client"] # <<>>
    /\ inbox' = [inbox EXCEPT !["client"] = Tail(@)]
    /\ UNCHANGED <<peerVars, gone, serving, queueVars, life, writer,
                   reader, index, frame, got, asio, netVars>>

StartServer ==
    /\ Running("server")
    /\ serving = "off"
    /\ serving' = "on"
    /\ UNCHANGED <<peerVars, gone, queueVars, life, writer, readVars, netVars>>

\* leave() at the server stops its receive queue ...
LeaveServer ==
    /\ Running("server")
    /\ serving = "on"
    /\ serving' = "stopping"
    /\ UNCHANGED <<peerVars, gone, queueVars, life, writer, readVars, netVars>>

\* ... and acceptConnections() closes the acceptor when it is empty.  Of those
\* not accepted yet, some are turned away and some left as they are.
StopServer ==
    /\ Running("server")
    /\ serving = "stopping"
    /\ inbox["server"] = <<>> /\ pc[Acceptor] = "idle"
    /\ serving' = "closed"
    /\ \E turned \in SUBSET Unaccepted :
         sock' = [e \in End |-> IF e \in turned THEN "shut" ELSE sock[e]]
    /\ UNCHANGED <<peerVars, gone, queueVars, life, writer, readVars, wire>>

\* leave() at the client: stopConnection().
StopConnection ==
    /\ Running("client")
    /\ sendq # Null
    /\ ~stopped[sendq]
    /\ stopped' = [stopped EXCEPT ![sendq] = TRUE]
    /\ writer' = [writer EXCEPT ![sendq] = Woken(@)]
    /\ UNCHANGED <<peerVars, gone, serving, q, freed, sent, life, readVars, netVars>>

\* "quit", at any step.
Quit(s) ==
    /\ s \in Quitters
    /\ Running(s)
    /\ Die(s)

-----------------------------------------------------------------------------
SendFrame(t) ==
    \/ ConnectAlive(t) \/ ConnectBegin(t) \/ ConnectDone(t) \/ ConnectRefused(t)
    \/ LoadQueue(t) \/ Push(t)

AcceptConnections == TakeRequest \/ LookUpQueue \/ Push(Acceptor)

WriteThread(e) == PopFrame(e) \/ PopStopped(e) \/ PopBlock(e) \/ PopWait(e)

AsioThread(s) ==
    \/ ReceiveResume(s)
    \/ \E e \in End : e[2] = s /\ (HandleRead(e) \/ HandleWrite(e) \/ HandleAccept(e))

Next ==
    \/ \E t \in Senders : CallSendFrame(t) \/ SendFrame(t)
    \/ \E e \in End : WriteThread(e) \/ EndSession(e) \/ Reset(e)
    \/ \E s \in Side : AsioThread(s) \/ Quit(s)
    \/ AcceptConnections \/ TakeReply
    \/ StartServer \/ LeaveServer \/ StopServer \/ StopConnection

Spec == Init /\ [][Next]_vars

(***************************************************************************)
(* Every thread runs when it can, an object without references is          *)
(* destroyed, bytes arrive.  Nobody has to send, to leave or to quit, and  *)
(* a server that is off may stay off.                                      *)
(***************************************************************************)
Fairness ==
    /\ \A t \in Senders : WF_vars(SendFrame(t))
    /\ \A e \in End : WF_vars(WriteThread(e)) /\ WF_vars(EndSession(e)) /\ WF_vars(Reset(e))
    /\ \A s \in Side : WF_vars(AsioThread(s))
    /\ WF_vars(AcceptConnections) /\ WF_vars(TakeReply)

FairSpec == Spec /\ Fairness

-----------------------------------------------------------------------------
(***************************************************************************)
(* Safety.                                                                 *)
(***************************************************************************)
\* Types of the variables; queues keep their bound, and a frame is never left
\* with all its bytes read.
TypeOK ==
    /\ sendq \in End \cup {Null}
    /\ mutex \in Senders \cup {Nobody}
    /\ pc \in [Thread -> {"idle", "connect", "connecting", "connected", "lookup", "push", "full"}]
    /\ ptr \in [Thread -> End \cup {Null}]
    /\ calls \in 0..MaxSends
    /\ gone \subseteq Side
    /\ serving \in {"off", "on", "stopping", "closed"}
    /\ \A s \in Side : inbox[s] \in Seq(Session) /\ Len(inbox[s]) <= MaxSize
    /\ asio \in [Side -> End \cup {Null}]
    /\ \A e \in End : q[e] \in Seq(Nat) /\ Len(q[e]) <= MaxSize
    /\ stopped \in [End -> BOOLEAN]
    /\ freed \subseteq End
    /\ life \in [End -> {"none", "connecting", "live", "gone"}]
    /\ writer \in [End -> {"off", "pop", "blocking", "asleep", "writing", "closing", "done"}]
    /\ reader \in [End -> {"off", "reading", "failed"}]
    /\ index \in [End -> 0..(FrameLength - 1)]
    /\ sock \in [End -> {"none", "up", "shut", "reset"}]
    /\ sent \in [End -> Nat] /\ got \in [End -> Nat]

\* However many threads find the peer not connected at once, the client opens
\* one session to it at a time, and the queue it sends on is that session's.
OneSessionAtATime ==
    \A e \in End :
        (e[2] = "client" /\ life[e] \in {"connecting", "live"}) => sendq = e

\* A queue is deleted only when the write threads of its session are done: none
\* of them pops, or sleeps in, a queue that is no more.
DeletedQueueHasNoReader ==
    \A e \in freed : writer[e] \in {"off", "done"}

\* "need to protect sendq pointer": what a thread pushes on is a queue.
SendqIsProtected == \A t \in Senders : pc[t] = "push" => ptr[t] # Null

\* The server has blocked itself: its asio thread waits for room in the receive
\* queue, its accept thread for room in a reply queue, and the thread that would
\* make room there for a write handler of the asio thread; or it has ended, but
\* the session lasts as its read error has not been handled.
Gridlocked ==
    /\ asio["server"] # Null /\ Len(inbox["server"]) = MaxSize
    /\ pc[Acceptor] = "full"
    /\ LET e == ptr[Acceptor]
       IN  /\ Len(q[e]) = MaxSize /\ life[e] = "live"
           /\ writer[e] = "writing" \/ (writer[e] = "done" /\ reader[e] = "reading")

\* Nothing but the end of its process frees a server that has blocked itself.
GridlockLasts == [][Gridlocked => Gridlocked' \/ "server" \in gone']_vars

(***************************************************************************)
(* Sessions are frame channels.                                            *)
(***************************************************************************)
Disturbed(e) ==
    \/ Gridlocked \/ gone # {} \/ serving \in {"stopping", "closed"} \/ e \in freed
    \/ \E x \in {e, Far(e)} : stopped[x] \/ sock[x] \in {"shut", "reset"}

Channel == INSTANCE FrameChannel
    WITH Direction <- End,
         disturbed <- [e \in End |-> Disturbed(e)]

ImplementsFrameChannel == Channel!FairSpec

\* The safety of it, which needs no fairness: whatever ends and whenever, what
\* is handed over is what was sent, whole, in order and once.
SessionsAreChannels == Channel!Spec

\* A session whose read has failed comes to its end, unless its write thread
\* went to sleep on the stopped queue or its process has blocked itself.
BrokenSessionEnds ==
    \A e \in End :
        (reader[e] = "failed") ~>
            \/ life[e] = "gone" \/ ~Running(e[2])
            \/ writer[e] = "asleep" /\ stopped[e]
            \/ e[2] = "server" /\ Gridlocked

\* No frame will be taken from the queue of end e any more: its write thread has
\* ended, and stopReading() does not wake who waits for room; or the server has
\* closed without having accepted the session.
Unserved(e) == writer[e] = "done" \/ (life[Far(e)] = "none" /\ serving = "closed")

\* A thread blocked on a full queue goes on, unless the server has blocked itself
\* or, for a thread that sends, the queue has been left without a reader.  For
\* several that send this is said of queues of one, see PushBlocks.
BlockedThreadsGoOn ==
    /\ \A s \in Side : asio[s] # Null ~> (asio[s] = Null \/ (s = "server" /\ Gridlocked))
    /\ pc[Acceptor] = "full" ~> (pc[Acceptor] # "full" \/ Gridlocked)
    /\ \A t \in Senders :
         pc[t] = "full" ~> (pc[t] # "full" \/ Gridlocked \/ Unserved(ptr[t]))

\* "After this the session will be destructed": the same, without exception.
ReadErrorDestructsSession ==
    \A e \in End : (reader[e] = "failed") ~> (life[e] = "gone" \/ ~Running(e[2]))
=============================================================================
