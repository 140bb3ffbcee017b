-------------------------- MODULE ConnectionProofs --------------------------
(***************************************************************************)
(* Proofs about Connection, for any number of sending threads, sessions    *)
(* and calls, frames and queues of any length, and processes that may end  *)
(* at any step.                                                            *)
(***************************************************************************)
EXTENDS Connection, FiniteSetTheorems, SequenceTheorems, TLAPS

-----------------------------------------------------------------------------
(* Ends of sessions.                                                       *)

LEMMA EndFacts ==
    /\ Null \notin End
    /\ \A e \in End : e[1] \in Session /\ e[2] \in Side /\ e = <<e[1], e[2]>>
    /\ \A i \in Session, s \in Side : <<i, s>> \in End
<1>1. \A e \in End : e[1] \in Session /\ e[2] \in Side /\ e = <<e[1], e[2]>>
  BY DEF End
<1>2. \A i \in Session, s \in Side : <<i, s>> \in End
  BY DEF End
<1>3. Null \notin End
  BY <1>1, ConnectionAssumption DEF Null, Session
<1> QED
  BY <1>1, <1>2, <1>3

LEMMA FarFacts ==
    ASSUME NEW e \in End
    PROVE  /\ Far(e) \in End /\ Far(Far(e)) = e
           /\ Far(e)[1] = e[1] /\ Far(e)[2] # e[2] /\ Far(e)[2] \in Side
BY EndFacts DEF Far, Side

LEMMA SideFacts ==
    /\ Side = {"client", "server"} /\ "client" # "server"
    /\ Acceptor \notin Senders /\ Acceptor \in Thread /\ Senders \subseteq Thread
    /\ SideOf(Acceptor) = "server"
    /\ \A t \in Senders : SideOf(t) = "client"
    /\ \A t \in Thread : SideOf(t) \in Side
    /\ Nobody \notin Senders
BY ConnectionAssumption DEF Side, Thread, SideOf

-----------------------------------------------------------------------------
(* Type correctness.                                                       *)

ByteType == Nat \X Nat
FrameShape == [1..FrameLength -> ByteType]

\* TypeOK leaves open what bytes are, and that a queue is one for every end.
TypeInv ==
    /\ TypeOK
    /\ inbox \in [Side -> Seq(Session)]
    /\ q \in [End -> Seq(Nat)]
    /\ frame \in [End -> FrameShape]
    /\ wire \in [End -> Seq(ByteType)]

\* Who holds the mutex is asking the network about the queue in sendq_, which
\* stays the same meanwhile.
MutexInv ==
    /\ \A t \in Senders : pc[t] = "connecting" <=> mutex = t
    /\ mutex # Nobody => sendq # Null /\ ptr[mutex] = sendq /\ life[sendq] = "connecting"
    /\ \A e \in End : life[e] = "connecting" => mutex # Nobody /\ sendq = e
    /\ sendq # Null => sendq[2] = "client"
    /\ pc[Acceptor] \in {"idle", "lookup", "push", "full"}

\* Ends whose session connect() has begun to make.
Used == {e \in End : e[2] = "client" /\ life[e] # "none"}

\* Queues are made in the order of their numbers, and deleted after the session.
SessionInv ==
    /\ \A e \in End : life[e] \in {"none", "connecting"} => writer[e] = "off"
    /\ \A e \in End : life[e] = "gone" => writer[e] \in {"off", "done"}
    /\ \A e \in freed : life[e] = "gone"
    /\ Running("client") => \E k \in 0..MaxSessions : Used = (1..k) \X {"client"}

LEMMA BytesType == \A n \in Nat : Bytes(n) \in FrameShape /\ Bytes(n) \in Seq(ByteType)
<1> SUFFICES ASSUME NEW n \in Nat PROVE Bytes(n) \in FrameShape /\ Bytes(n) \in Seq(ByteType)
  OBVIOUS
<1>1. FrameLength \in Nat
  BY ConnectionAssumption
<1>2. Bytes(n) \in FrameShape
  BY <1>1 DEF Bytes, FrameShape, ByteType
<1>3. FrameShape \subseteq Seq(ByteType)
  BY <1>1 DEF FrameShape
<1> QED
  BY <1>2, <1>3

LEMMA BlankType == Blank \in FrameShape
BY DEF Blank, FrameShape, ByteType

LEMMA NumberOfType == \A f \in FrameShape : NumberOf(f) \in Nat
<1> SUFFICES ASSUME NEW f \in FrameShape PROVE NumberOf(f) \in Nat
  OBVIOUS
<1>1. 1 \in 1..FrameLength
  BY ConnectionAssumption
<1>2. f[1] \in Nat \X Nat
  BY <1>1 DEF FrameShape, ByteType
<1>3. f[1][1] \in Nat
  BY <1>2
<1> QED
  BY <1>3 DEF NumberOf

\* A process that ends.
LEMMA DieTypeInv ==
    ASSUME TypeInv, NEW s \in Side, Die(s)
    PROVE  TypeInv'
<1> USE DEF TypeInv, TypeOK, Die
<1>1. /\ gone' \subseteq Side /\ sendq' \in End \cup {Null}
      /\ mutex' \in Senders \cup {Nobody}
      /\ inbox' \in [Side -> Seq(Session)] /\ \A x \in Side : Len(inbox'[x]) <= MaxSize
      /\ asio' \in [Side -> End \cup {Null}]
  BY ConnectionAssumption, EmptySeq
<1>2. /\ pc' \in [Thread -> {"idle", "connect", "connecting", "connected", "lookup", "push", "full"}]
      /\ ptr' \in [Thread -> End \cup {Null}]
  OBVIOUS
<1>3. /\ sock' \in [End -> {"none", "up", "shut", "reset"}]
      /\ life' \in [End -> {"none", "connecting", "live", "gone"}]
      /\ writer' \in [End -> {"off", "pop", "blocking", "asleep", "writing", "closing", "done"}]
      /\ reader' \in [End -> {"off", "reading", "failed"}]
  OBVIOUS
<1>4. /\ q' \in [End -> Seq(Nat)] /\ \A e \in End : Len(q'[e]) <= MaxSize
      /\ index' \in [End -> 0..(FrameLength - 1)]
      /\ frame' \in [End -> FrameShape]
  BY ConnectionAssumption, BlankType
<1> QED
  BY <1>1, <1>2, <1>3, <1>4

LEMMA EndIsFinite == IsFiniteSet(End)
<1>1. IsFiniteSet(1..MaxSessions)
  BY FS_Interval, ConnectionAssumption
<1>2. IsFiniteSet({"client", "server"})
  <2>1. IsFiniteSet({}) /\ {"client"} = {} \cup {"client"} /\ {"client", "server"} = {"client"} \cup {"server"}
    BY FS_EmptySet
  <2>2. IsFiniteSet({"client"})
    BY <2>1, FS_AddElement
  <2> QED
    BY <2>1, <2>2, FS_AddElement
<1> QED
  BY <1>1, <1>2, FS_Product DEF End, Session, Side

LEMMA NextSessionType ==
    ASSUME freed \subseteq End
    PROVE  NextSession \in Nat \ {0}
<1> DEFINE U == {e \in End : e[2] = "client" /\ life[e] # "none"} \cup {e \in freed : e[2] = "client"}
<1>1. IsFiniteSet(U)
  BY EndIsFinite, FS_Subset
<1>2. Cardinality(U) \in Nat
  BY <1>1, FS_CardinalityType
<1> QED
  BY <1>2 DEF NextSession

LEMMA QueueTypeInv ==
    ASSUME TypeInv, NEW e \in End, NEW x \in Seq(Nat), Len(x) <= MaxSize,
           q' = [q EXCEPT ![e] = x]
    PROVE  q' \in [End -> Seq(Nat)] /\ \A d \in End : Len(q'[d]) <= MaxSize
<1>1. q \in [End -> Seq(Nat)] /\ \A d \in End : Len(q[d]) <= MaxSize
  BY DEF TypeInv, TypeOK
<1> QED
  BY <1>1

LEMMA SentType ==
    ASSUME sent \in [End -> Nat], NEW e \in End, sent' = [sent EXCEPT ![e] = @ + 1]
    PROVE  sent' \in [End -> Nat]
OBVIOUS

\* Calls of sendFrame(), up to the push.
LEMMA SendTypeInv ==
    ASSUME TypeInv, MutexInv, NEW t \in Senders,
           \/ CallSendFrame(t) \/ ConnectAlive(t) \/ ConnectBegin(t)
           \/ ConnectDone(t) \/ ConnectRefused(t) \/ LoadQueue(t)
    PROVE  TypeInv'
<1> USE SideFacts DEF TypeInv, TypeOK, queueVars, readVars, netVars
<1>1. CASE CallSendFrame(t)
  <2>1. calls' \in 0..MaxSends
    BY <1>1, ConnectionAssumption DEF CallSendFrame
  <2> QED
    BY <1>1, <2>1 DEF CallSendFrame
<1>2. CASE ConnectAlive(t)
  BY <1>2 DEF ConnectAlive
<1>3. CASE ConnectBegin(t)
  <2>1. sendq' \in End
    <3>1. NextSession \in 1..MaxSessions
      BY <1>3, NextSessionType, ConnectionAssumption DEF ConnectBegin
    <3> QED
      BY <1>3, <3>1 DEF ConnectBegin, End, Session, Side
  <2> QED
    BY <1>3, <2>1 DEF ConnectBegin
<1>4. CASE ConnectDone(t)
  BY <1>4 DEF ConnectDone
<1>5. CASE ConnectRefused(t)
  <2>1. ptr[t] \in End
    BY <1>5, EndFacts DEF ConnectRefused, MutexInv
  <2> QED
    <3>1. <<>> \in Seq(Nat) /\ Len(<<>>) <= MaxSize
      BY ConnectionAssumption
    <3>2. q' \in [End -> Seq(Nat)] /\ \A d \in End : Len(q'[d]) <= MaxSize
      BY <1>5, <2>1, <3>1, QueueTypeInv DEF ConnectRefused
    <3> QED
      BY <1>5, <2>1, <3>2 DEF ConnectRefused
<1>6. CASE LoadQueue(t)
  BY <1>6 DEF LoadQueue
<1> QED
  BY <1>1, <1>2, <1>3, <1>4, <1>5, <1>6

LEMMA PushTypeInv ==
    ASSUME TypeInv, NEW t \in Thread, Push(t)
    PROVE  TypeInv'
<1> USE SideFacts DEF queueVars, readVars, netVars
<1>1. CASE PushDropped(t)
  BY <1>1 DEF PushDropped, Return, TypeInv, TypeOK
<1>2. CASE PushBlocks(t)
  BY <1>2 DEF PushBlocks, TypeInv, TypeOK
<1>3. CASE PushFrame(t)
  <2>1. ptr[t] \in End /\ Len(q[ptr[t]]) < MaxSize
    BY <1>3 DEF PushFrame, CanPush, TypeInv, TypeOK
  <2>2. /\ Append(q[ptr[t]], sent[ptr[t]] + 1) \in Seq(Nat)
        /\ Len(Append(q[ptr[t]], sent[ptr[t]] + 1)) <= MaxSize
    <3>1. q[ptr[t]] \in Seq(Nat) /\ sent[ptr[t]] + 1 \in Nat
      <4>1. q \in [End -> Seq(Nat)] /\ sent \in [End -> Nat]
        BY DEF TypeInv, TypeOK
      <4> QED
        BY <2>1, <4>1
    <3> QED
      BY <2>1, <3>1, AppendProperties, LenProperties, ConnectionAssumption
  <2>3. /\ q' \in [End -> Seq(Nat)] /\ \A e \in End : Len(q'[e]) <= MaxSize
        /\ sent' \in [End -> Nat]
    <3>1. q' \in [End -> Seq(Nat)] /\ \A e \in End : Len(q'[e]) <= MaxSize
      BY <1>3, <2>1, <2>2, QueueTypeInv DEF PushFrame
    <3>2. sent \in [End -> Nat] /\ sent' = [sent EXCEPT ![ptr[t]] = @ + 1]
      BY <1>3 DEF PushFrame, TypeInv, TypeOK
    <3>3. sent' \in [End -> Nat]
      BY <2>1, <3>2, SentType
    <3> QED
      BY <3>1, <3>3
  <2> QED
    BY <1>3, <2>1, <2>3 DEF PushFrame, Return, Woken, TypeInv, TypeOK
<1>4. CASE PushOnNothing(t)
  <2>1. CASE Die(SideOf(t))
    BY <2>1, DieTypeInv
  <2>2. CASE ~Die(SideOf(t))
    BY ZenonT(40), <1>4, <2>2 DEF PushOnNothing, Return, TypeInv, TypeOK
  <2> QED
    BY <2>1, <2>2
<1> QED
  BY <1>1, <1>2, <1>3, <1>4 DEF Push

LEMMA WriteTypeInv ==
    ASSUME TypeInv, NEW e \in End, WriteThread(e) \/ HandleWrite(e)
    PROVE  TypeInv'
<1> USE DEF peerVars, queueVars, readVars, netVars
<1>1. CASE PopFrame(e)
  <2>1. q[e] \in Seq(Nat) /\ q[e] # <<>> /\ wire[e] \in Seq(ByteType) /\ Len(q[e]) <= MaxSize
    BY <1>1 DEF PopFrame, TypeInv, TypeOK
  <2>2. Tail(q[e]) \in Seq(Nat) /\ Len(Tail(q[e])) <= MaxSize /\ Head(q[e]) \in Nat
    BY <2>1, HeadTailProperties, LenProperties, ConnectionAssumption
  <2>3. wire[e] \o Bytes(Head(q[e])) \in Seq(ByteType)
    BY <2>1, <2>2, BytesType, ConcatProperties
  <2>4. /\ q' \in [End -> Seq(Nat)] /\ \A x \in End : Len(q'[x]) <= MaxSize
        /\ wire' \in [End -> Seq(ByteType)]
    BY <1>1, <2>1, <2>2, <2>3 DEF PopFrame, TypeInv, TypeOK
  <2> QED
    BY <1>1, <2>4 DEF PopFrame, TypeInv, TypeOK
<1>2. CASE PopStopped(e)
  <2>1. CASE Die(e[2])
    BY <2>1, EndFacts, DieTypeInv
  <2>2. CASE ~Die(e[2])
    BY ZenonT(40), <1>2, <2>2 DEF PopStopped, TypeInv, TypeOK
  <2> QED
    BY <2>1, <2>2
<1>3. CASE PopBlock(e)
  BY <1>3 DEF PopBlock, TypeInv, TypeOK
<1>4. CASE PopWait(e)
  BY <1>4 DEF PopWait, TypeInv, TypeOK
<1>5. CASE HandleWrite(e)
  BY ZenonT(40), <1>5 DEF HandleWrite, HandleWriteOk, HandleWriteError, TypeInv, TypeOK
<1> QED
  BY <1>1, <1>2, <1>3, <1>4, <1>5 DEF WriteThread

\* What was handed over is counted, one by one as long as it comes in turn.
LEMMA CountedType ==
    ASSUME TypeInv, NEW d \in End, NEW n \in Nat
    PROVE  /\ Counted(d, n) \in [End -> Nat]
           /\ n = got[d] + 1 => Counted(d, n) = [got EXCEPT ![d] = got[d] + 1]
<1>1. got \in [End -> Nat] /\ got[d] \in Nat /\ got[d] + 2 \in Nat
  BY DEF TypeInv, TypeOK
<1>2. Counted(d, n) = [got EXCEPT ![d] = IF n = got[d] + 1 THEN n ELSE got[d] + 2]
  BY DEF Counted
<1>3. CASE n = got[d] + 1
  <2>1. Counted(d, n) = [got EXCEPT ![d] = got[d] + 1]
    BY <1>2, <1>3, Zenon
  <2> QED
    BY <1>1, <1>3, <2>1
<1>4. CASE n # got[d] + 1
  <2>1. Counted(d, n) = [got EXCEPT ![d] = got[d] + 2]
    BY <1>2, <1>4, Zenon
  <2> QED
    BY <1>1, <1>4, <2>1
<1> QED
  BY <1>3, <1>4

\* A frame of session e[1] is put in a receive queue.
LEMMA ReceiveTypeInv ==
    ASSUME TypeInv, NEW e \in End, NEW n \in Nat, Receive(e, n)
    PROVE  /\ inbox' \in [Side -> Seq(Session)] /\ \A s \in Side : Len(inbox'[s]) <= MaxSize
           /\ asio' \in [Side -> End \cup {Null}]
           /\ got' \in [End -> Nat]
<1>1. /\ e[1] \in Session /\ e[2] \in Side /\ Far(e) \in End
  BY EndFacts, FarFacts
<1>2. /\ inbox \in [Side -> Seq(Session)] /\ \A s \in Side : Len(inbox[s]) <= MaxSize
      /\ asio \in [Side -> End \cup {Null}] /\ got \in [End -> Nat]
  BY DEF TypeInv, TypeOK
<1>3. CASE Len(inbox[e[2]]) < MaxSize
  <2>1. Append(inbox[e[2]], e[1]) \in Seq(Session) /\ Len(Append(inbox[e[2]], e[1])) <= MaxSize
    BY <1>1, <1>2, <1>3, AppendProperties, LenProperties, ConnectionAssumption
  <2>2. Counted(Far(e), n) \in [End -> Nat]
    BY <1>1, CountedType
  <2> QED
    BY <1>1, <1>2, <2>1, <2>2 DEF Receive
<1>4. CASE ~(Len(inbox[e[2]]) < MaxSize)
  BY <1>1, <1>2, <1>4 DEF Receive
<1> QED
  BY <1>3, <1>4

LEMMA ReadableFacts ==
    ASSUME TypeInv, NEW e \in End, NEW j \in Readable(e)
    PROVE  /\ j \in Nat \ {0} /\ j <= Len(wire[Far(e)]) /\ index[e] + j <= FrameLength
           /\ sock[e] = "up"
           /\ FilledBy(e, j) \in FrameShape
           /\ Consumed(e, j) \in [End -> Seq(ByteType)]
<1>1. /\ FrameLength \in Nat \ {0} /\ index[e] \in 0..(FrameLength - 1) /\ Far(e) \in End
      /\ wire \in [End -> Seq(ByteType)] /\ frame[e] \in FrameShape
  BY ConnectionAssumption, FarFacts DEF TypeInv, TypeOK
<1>2. j \in 1..(FrameLength - index[e]) /\ j <= Len(wire[Far(e)]) /\ sock[e] = "up"
  BY DEF Readable
<1>3. Len(wire[Far(e)]) \in Nat /\ \A k \in 1..Len(wire[Far(e)]) : wire[Far(e)][k] \in ByteType
  BY <1>1, ElementOfSeq, LenProperties
<1>4. FilledBy(e, j) \in FrameShape
  <2>1. ASSUME NEW i \in (index[e] + 1)..(index[e] + j)
        PROVE  i - index[e] \in 1..Len(wire[Far(e)])
    BY <1>1, <1>2, <1>3
  <2> QED
    BY <1>1, <1>3, <2>1 DEF FilledBy, FrameShape
<1>5. SubSeq(wire[Far(e)], j + 1, Len(wire[Far(e)])) \in Seq(ByteType)
  BY <1>2, <1>3, SubSeqProperties
<1>6. Consumed(e, j) \in [End -> Seq(ByteType)]
  BY <1>1, <1>5 DEF Consumed
<1> QED
  BY <1>1, <1>2, <1>4, <1>6

LEMMA ReadTypeInv ==
    ASSUME TypeInv, NEW e \in End, HandleRead(e)
    PROVE  TypeInv'
<1> USE DEF peerVars, queueVars, netVars
<1>1. CASE ReadPart(e)
  <2>1. PICK j \in Readable(e) : /\ index[e] + j < FrameLength
                                 /\ index' = [index EXCEPT ![e] = @ + j]
                                 /\ frame' = [frame EXCEPT ![e] = FilledBy(e, j)]
                                 /\ wire' = Consumed(e, j)
    BY <1>1 DEF ReadPart
  <2>2. frame' \in [End -> FrameShape] /\ wire' \in [End -> Seq(ByteType)]
    BY <2>1, ReadableFacts DEF TypeInv
  <2>3. index' \in [End -> 0..(FrameLength - 1)]
    <3>1. index \in [End -> 0..(FrameLength - 1)] /\ j \in Nat /\ FrameLength \in Nat
      BY ReadableFacts, ConnectionAssumption DEF TypeInv, TypeOK
    <3>2. index[e] + j \in 0..(FrameLength - 1)
      BY <2>1, <3>1
    <3> QED
      BY <2>1, <3>1, <3>2
  <2> QED
    BY <1>1, <2>2, <2>3 DEF ReadPart, TypeInv, TypeOK
<1>2. CASE ReadLast(e)
  <2>1. PICK j \in Readable(e) : /\ index' = [index EXCEPT ![e] = 0]
                                 /\ wire' = Consumed(e, j)
                                 /\ frame' = [frame EXCEPT ![e] = FilledBy(e, j)]
                                 /\ Receive(e, NumberOf(FilledBy(e, j)))
    BY <1>2 DEF ReadLast
  <2>2. frame' \in [End -> FrameShape] /\ wire' \in [End -> Seq(ByteType)]
    BY <2>1, ReadableFacts DEF TypeInv
  <2>3. /\ inbox' \in [Side -> Seq(Session)] /\ \A s \in Side : Len(inbox'[s]) <= MaxSize
        /\ asio' \in [Side -> End \cup {Null}] /\ got' \in [End -> Nat]
    BY <2>1, ReadableFacts, NumberOfType, ReceiveTypeInv
  <2>4. index' \in [End -> 0..(FrameLength - 1)]
    BY <2>1, ConnectionAssumption DEF TypeInv, TypeOK
  <2> QED
    BY <1>2, <2>2, <2>3, <2>4 DEF ReadLast, TypeInv, TypeOK
<1>3. CASE ReadFails(e)
  BY <1>3 DEF ReadFails, Woken, TypeInv, TypeOK
<1>4. CASE ReadThrows(e)
  BY <1>4, EndFacts, DieTypeInv DEF ReadThrows
<1> QED
  BY <1>1, <1>2, <1>3, <1>4 DEF HandleRead

LEMMA ResumeTypeInv ==
    ASSUME TypeInv, NEW s \in Side, ReceiveResume(s)
    PROVE  TypeInv'
<1> USE DEF peerVars, queueVars, netVars
<1>1. /\ asio[s] \in End /\ asio[s][1] \in Session /\ Far(asio[s]) \in End
      /\ inbox[s] \in Seq(Session) /\ Len(inbox[s]) < MaxSize
  BY EndFacts, FarFacts DEF ReceiveResume, TypeInv, TypeOK
<1>2. Append(inbox[s], asio[s][1]) \in Seq(Session) /\ Len(Append(inbox[s], asio[s][1])) <= MaxSize
  BY <1>1, AppendProperties, LenProperties, ConnectionAssumption
<1>3. NumberOf(frame[asio[s]]) \in Nat
  BY <1>1, NumberOfType DEF TypeInv
<1>4. inbox' \in [Side -> Seq(Session)] /\ \A x \in Side : Len(inbox'[x]) <= MaxSize
  BY <1>2 DEF ReceiveResume, TypeInv, TypeOK
<1>5. got' \in [End -> Nat]
  BY <1>1, <1>3, CountedType DEF ReceiveResume
<1> QED
  BY <1>4, <1>5 DEF ReceiveResume, TypeInv, TypeOK

LEMMA ServerTypeInv ==
    ASSUME TypeInv,
           \/ TakeRequest \/ LookUpQueue \/ TakeReply
           \/ StartServer \/ LeaveServer \/ StopServer \/ StopConnection
    PROVE  TypeInv'
<1> USE DEF peerVars, queueVars, readVars, netVars
<1>1. \A s \in Side : inbox[s] # <<>> =>
         /\ Head(inbox[s]) \in Session /\ Tail(inbox[s]) \in Seq(Session)
         /\ Len(Tail(inbox[s])) <= MaxSize
  <2> SUFFICES ASSUME NEW s \in Side, inbox[s] # <<>>
               PROVE  /\ Head(inbox[s]) \in Session /\ Tail(inbox[s]) \in Seq(Session)
                      /\ Len(Tail(inbox[s])) <= MaxSize
    OBVIOUS
  <2>1. inbox[s] \in Seq(Session) /\ Len(inbox[s]) <= MaxSize /\ MaxSize \in Nat
    BY ConnectionAssumption DEF TypeInv, TypeOK
  <2> QED
    BY <2>1, HeadTailProperties, LenProperties
<1>2. CASE TakeRequest
  <2>1. <<Head(inbox["server"]), "server">> \in End
    BY <1>1, <1>2 DEF TakeRequest, End, Side
  <2>2. inbox' \in [Side -> Seq(Session)] /\ \A x \in Side : Len(inbox'[x]) <= MaxSize
    BY <1>1, <1>2, SideFacts DEF TakeRequest, TypeInv, TypeOK
  <2>3. /\ pc' \in [Thread -> {"idle", "connect", "connecting", "connected", "lookup", "push", "full"}]
        /\ ptr' \in [Thread -> End \cup {Null}]
    BY <1>2, <2>1 DEF TakeRequest, TypeInv, TypeOK
  <2> QED
    BY <1>2, <2>2, <2>3 DEF TakeRequest, TypeInv, TypeOK
<1>3. CASE LookUpQueue
  <2>1. CASE Die("server")
    BY <2>1, SideFacts, DieTypeInv
  <2>2. CASE ~Die("server")
    BY ZenonT(40), <1>3, <2>2 DEF LookUpQueue, Return, TypeInv, TypeOK
  <2> QED
    BY <2>1, <2>2
<1>4. CASE TakeReply
  <2>1. inbox' \in [Side -> Seq(Session)] /\ \A x \in Side : Len(inbox'[x]) <= MaxSize
    BY <1>1, <1>4, SideFacts DEF TakeReply, TypeInv, TypeOK
  <2> QED
    BY <1>4, <2>1 DEF TakeReply, TypeInv, TypeOK
<1>5. CASE StartServer \/ LeaveServer
  BY <1>5 DEF StartServer, LeaveServer, TypeInv, TypeOK
<1>6. CASE StopServer
  BY <1>6 DEF StopServer, TypeInv, TypeOK
<1>7. CASE StopConnection
  BY <1>7 DEF StopConnection, Woken, TypeInv, TypeOK
<1> QED
  BY <1>2, <1>3, <1>4, <1>5, <1>6, <1>7

LEMMA EndTypeInv ==
    ASSUME TypeInv, NEW e \in End, EndSession(e) \/ Reset(e) \/ HandleAccept(e)
    PROVE  TypeInv'
<1> USE DEF peerVars, queueVars, readVars, netVars
<1>1. CASE EndSession(e)
  <2>1. <<>> \in Seq(Nat) /\ Len(<<>>) <= MaxSize
    BY ConnectionAssumption
  <2>2. freed' \subseteq End /\ q' \in [End -> Seq(Nat)] /\ \A d \in End : Len(q'[d]) <= MaxSize
    <3>1. CASE e[2] = "server"
      <4>1. q' \in [End -> Seq(Nat)] /\ \A d \in End : Len(q'[d]) <= MaxSize
        BY <1>1, <2>1, <3>1, QueueTypeInv DEF EndSession
      <4>2. freed' \subseteq End
        BY <1>1, <3>1 DEF EndSession, TypeInv, TypeOK
      <4> QED
        BY <4>1, <4>2
    <3>2. CASE e[2] # "server"
      BY <1>1, <3>2 DEF EndSession, TypeInv, TypeOK
    <3> QED
      BY <3>1, <3>2
  <2>3. index' \in [End -> 0..(FrameLength - 1)] /\ frame' \in [End -> FrameShape]
    BY <1>1, BlankType, ConnectionAssumption DEF EndSession, TypeInv, TypeOK
  <2> QED
    BY <1>1, <2>2, <2>3 DEF EndSession, TypeInv, TypeOK
<1>2. CASE Reset(e)
  <2>1. <<>> \in Seq(ByteType)
    OBVIOUS
  <2> QED
    BY <1>2, <2>1 DEF Reset, TypeInv, TypeOK
<1>3. CASE HandleAccept(e)
  BY <1>3 DEF HandleAccept, TypeInv, TypeOK
<1> QED
  BY <1>1, <1>2, <1>3

\* The actions of Next, one by one.
LEMMA NextCases ==
    ASSUME Next
    PROVE  \/ \E t \in Senders : \/ CallSendFrame(t) \/ ConnectAlive(t) \/ ConnectBegin(t)
                                 \/ ConnectDone(t) \/ ConnectRefused(t) \/ LoadQueue(t)
           \/ \E t \in Thread : Push(t)
           \/ \E e \in End : WriteThread(e) \/ HandleWrite(e)
           \/ \E e \in End : HandleRead(e)
           \/ \E e \in End : EndSession(e) \/ Reset(e) \/ HandleAccept(e)
           \/ \E s \in Side : ReceiveResume(s)
           \/ \E s \in Side : Quit(s)
           \/ TakeRequest \/ LookUpQueue \/ TakeReply
           \/ StartServer \/ LeaveServer \/ StopServer \/ StopConnection
BY Zenon, SideFacts DEF Next, SendFrame, AsioThread, AcceptConnections, Thread

LEMMA TypeInvInductive == TypeInv /\ MutexInv /\ [Next]_vars => TypeInv'
<1> SUFFICES ASSUME TypeInv, MutexInv, [Next]_vars PROVE TypeInv'
  OBVIOUS
<1>1. CASE UNCHANGED vars
  BY <1>1 DEF vars, peerVars, queueVars, readVars, netVars, TypeInv, TypeOK
<1>2. ASSUME NEW s \in Side, Quit(s) PROVE TypeInv'
  BY <1>2, DieTypeInv DEF Quit
<1>3. CASE Next
  BY <1>2, <1>3, NextCases, SendTypeInv, PushTypeInv, WriteTypeInv, ReadTypeInv, EndTypeInv,
     ResumeTypeInv, ServerTypeInv
<1> QED
  BY <1>1, <1>3

-----------------------------------------------------------------------------
(* One session at a time, and the order in which queues are deleted.       *)

CoreInv == MutexInv /\ OneSessionAtATime /\ SessionInv

\* The queue that connect() is about to make is a new one.
LEMMA NextSessionIsNew ==
    ASSUME TypeInv, CoreInv, Running("client"), NextSession <= MaxSessions
    PROVE  /\ <<NextSession, "client">> \in End
           /\ life[<<NextSession, "client">>] = "none"
           /\ \E k \in 0..MaxSessions :
                Used \cup {<<NextSession, "client">>} = (1..k) \X {"client"}
<1>1. PICK k \in 0..MaxSessions : Used = (1..k) \X {"client"}
  BY DEF CoreInv, SessionInv
<1>2. Used \cup {e \in freed : e[2] = "client"} = Used
  BY DEF Used, CoreInv, SessionInv, TypeInv, TypeOK
<1>3. IsFiniteSet(1..k) /\ Cardinality(1..k) = k
  BY FS_Interval, ConnectionAssumption
<1>4. IsFiniteSet({"client"}) /\ Cardinality({"client"}) = 1
  BY FS_Singleton
<1>5. Cardinality(Used) = k
  <2>1. Cardinality((1..k) \X {"client"}) = Cardinality(1..k) * Cardinality({"client"})
    BY <1>3, <1>4, FS_Product
  <2>2. k \in Nat
    BY ConnectionAssumption
  <2> QED
    BY <1>1, <1>3, <1>4, <2>1, <2>2
<1>6. NextSession = k + 1
  BY <1>2, <1>5 DEF NextSession, Used
<1>7. k + 1 \in 1..MaxSessions
  BY <1>6, ConnectionAssumption
<1>8. <<k + 1, "client">> \in End
  BY <1>7 DEF End, Session, Side
<1>9. <<k + 1, "client">> \notin Used
  BY <1>1
<1>10. life[<<k + 1, "client">>] = "none"
  BY <1>8, <1>9 DEF Used
<1>11. (1..k) \X {"client"} \cup {<<k + 1, "client">>} = (1..(k + 1)) \X {"client"}
  BY <1>7
<1> QED
  BY <1>1, <1>6, <1>7, <1>8, <1>10, <1>11

LEMMA DieCoreInv ==
    ASSUME TypeInv, CoreInv, NEW s \in Side, Die(s)
    PROVE  CoreInv'
<1>1. /\ pc' = [t \in Thread |-> IF SideOf(t) = s THEN "idle" ELSE pc[t]]
      /\ ptr' = [t \in Thread |-> IF SideOf(t) = s THEN Null ELSE ptr[t]]
      /\ life' = [e \in End |-> IF e[2] = s THEN "gone" ELSE life[e]]
      /\ writer' = [e \in End |-> IF e[2] = s THEN "off" ELSE writer[e]]
      /\ freed' = freed /\ gone' = gone \cup {s}
      /\ sendq' = (IF s = "client" THEN Null ELSE sendq)
      /\ mutex' = (IF s = "client" THEN Nobody ELSE mutex)
  BY DEF Die
<1>2. MutexInv' /\ OneSessionAtATime'
  <2>1. CASE s = "client"
    <3>1. \A e \in End : life'[e] \notin {"connecting", "live"} \/ e[2] = "server"
      BY <1>1, <2>1, EndFacts, SideFacts
    <3>2. \A e \in End : e[2] = "server" => life[e] # "connecting"
      BY SideFacts DEF CoreInv, MutexInv, TypeInv, TypeOK
    <3>3. \A e \in End : life'[e] # "connecting"
      BY <1>1, <2>1, <3>1, <3>2, SideFacts
    <3>4. MutexInv'
      BY <1>1, <2>1, <3>3, SideFacts DEF CoreInv, MutexInv
    <3>5. OneSessionAtATime'
      BY <1>1, <2>1, SideFacts DEF OneSessionAtATime
    <3> QED
      BY <3>4, <3>5
  <2>2. CASE s = "server"
    <3>1. \A e \in End : e[2] = "client" => life'[e] = life[e]
      BY <1>1, <2>2, SideFacts
    <3>2. sendq \in End => life'[sendq] = life[sendq]
      BY <3>1 DEF CoreInv, MutexInv, TypeInv, TypeOK, Null
    <3>3. \A t \in Senders : pc'[t] = pc[t] /\ ptr'[t] = ptr[t]
      BY <1>1, <2>2, SideFacts
    <3>4. sendq' = sendq /\ mutex' = mutex /\ pc'[Acceptor] = "idle"
      BY <1>1, <2>2, SideFacts
    <3>5. MutexInv'
      <4>1. mutex # Nobody => mutex \in Senders /\ sendq \in End
        BY DEF CoreInv, MutexInv, TypeInv, TypeOK
      <4>2. \A e \in End : life'[e] = "connecting" => life[e] = "connecting"
        BY <1>1
      <4> QED
        BY <3>2, <3>3, <3>4, <4>1, <4>2 DEF CoreInv, MutexInv
    <3>6. OneSessionAtATime'
      BY <3>1, <3>4 DEF CoreInv, OneSessionAtATime
    <3> QED
      BY <3>5, <3>6
  <2> QED
    BY <2>1, <2>2, SideFacts
<1>3. SessionInv'
  <2>1. s = "server" => Used' = Used
    BY <1>1 DEF Used
  <2>2. Running("client")' => Running("client") /\ s = "server"
    BY <1>1, SideFacts DEF Running
  <2>3. \A e \in freed : e \in End
    BY DEF TypeInv, TypeOK
  <2> QED
    BY <1>1, <2>1, <2>2, <2>3 DEF CoreInv, SessionInv
<1> QED
  BY <1>2, <1>3 DEF CoreInv

\* Steps in which no session begins, is connected or ends, as most are.
LEMMA CoreStep ==
    ASSUME TypeInv, CoreInv, UNCHANGED <<sendq, mutex, gone, freed, life>>,
           \A e \in End : writer'[e] = writer[e] \/ writer[e] \notin {"off", "done"},
           \A t \in Senders : \/ pc'[t] = pc[t] /\ ptr'[t] = ptr[t]
                              \/ pc[t] # "connecting" /\ pc'[t] # "connecting",
           pc'[Acceptor] \in {"idle", "lookup", "push", "full"}
    PROVE  CoreInv'
<1>1. MutexInv'
  <2>1. mutex # Nobody => mutex \in Senders
    BY DEF TypeInv, TypeOK
  <2> QED
    BY <2>1 DEF CoreInv, MutexInv
<1>2. OneSessionAtATime'
  BY DEF CoreInv, OneSessionAtATime
<1>3. SessionInv'
  <2>1. Used' = Used
    BY DEF Used
  <2>2. \A e \in freed : e \in End
    BY DEF TypeInv, TypeOK
  <2> QED
    BY <2>1, <2>2, Zenon DEF CoreInv, SessionInv, Running
<1> QED
  BY <1>1, <1>2, <1>3 DEF CoreInv

LEMMA SendCoreInv ==
    ASSUME TypeInv, CoreInv, NEW t \in Senders,
           \/ CallSendFrame(t) \/ ConnectAlive(t) \/ ConnectBegin(t)
           \/ ConnectDone(t) \/ ConnectRefused(t) \/ LoadQueue(t)
    PROVE  CoreInv'
<1> USE SideFacts
<1>1. CASE CallSendFrame(t) \/ ConnectAlive(t) \/ LoadQueue(t)
  <2>1. /\ \A u \in Senders : \/ pc'[u] = pc[u] /\ ptr'[u] = ptr[u]
                              \/ pc[u] # "connecting" /\ pc'[u] # "connecting"
        /\ pc'[Acceptor] = pc[Acceptor]
    BY SMTT(30), <1>1 DEF CallSendFrame, ConnectAlive, LoadQueue, TypeInv, TypeOK
  <2>2. UNCHANGED <<sendq, mutex, gone, freed, life, writer>>
    BY <1>1 DEF CallSendFrame, ConnectAlive, LoadQueue, queueVars
  <2> QED
    BY <2>1, <2>2, CoreStep DEF CoreInv, MutexInv
<1>2. CASE ConnectBegin(t)
  <2> DEFINE n == <<NextSession, "client">>
  <2>1. /\ n \in End /\ life[n] = "none"
        /\ \E k \in 0..MaxSessions : Used \cup {n} = (1..k) \X {"client"}
    BY <1>2, NextSessionIsNew DEF ConnectBegin
  <2> HIDE DEF n
  <2>2. /\ mutex = Nobody /\ ~Connected /\ pc[t] = "connect"
        /\ mutex' = t /\ sendq' = n /\ life' = [life EXCEPT ![n] = "connecting"]
        /\ pc' = [pc EXCEPT ![t] = "connecting"] /\ ptr' = [ptr EXCEPT ![t] = n]
        /\ UNCHANGED <<gone, freed, writer>>
    BY <1>2 DEF ConnectBegin, queueVars, n
  <2>3. n[2] = "client" /\ n # Null
    BY <2>1, EndFacts DEF n
  <2>4. \A e \in End : life[e] # "connecting" /\ (e[2] = "client" => life[e] # "live")
    <3>1. Null \notin End
      BY EndFacts
    <3> QED
      BY <2>2, <3>1 DEF CoreInv, MutexInv, OneSessionAtATime, Connected
  <2>5. MutexInv'
    BY <2>1, <2>2, <2>3, <2>4 DEF CoreInv, MutexInv, TypeInv, TypeOK
  <2>6. OneSessionAtATime'
    BY <2>1, <2>2, <2>4 DEF OneSessionAtATime, TypeInv, TypeOK
  <2>7. Used' = Used \cup {n}
    BY SMTT(30), <2>1, <2>2, <2>3 DEF Used, TypeInv, TypeOK
  <2>8. SessionInv'
    BY ZenonT(40), <2>1, <2>2, <2>7 DEF CoreInv, SessionInv, Running, TypeInv, TypeOK
  <2> QED
    BY <2>5, <2>6, <2>8 DEF CoreInv
<1>3. CASE ConnectDone(t) \/ ConnectRefused(t)
  <2> DEFINE e == ptr[t]
  <2>1. /\ mutex = t /\ sendq = e /\ e \in End /\ e[2] = "client" /\ e # Null
        /\ life[e] = "connecting"
    BY <1>3, EndFacts DEF ConnectDone, ConnectRefused, CoreInv, MutexInv, TypeInv, TypeOK
  <2> HIDE DEF e
  <2>2. \A d \in End : d # e => life[d] # "connecting"
    BY <2>1 DEF CoreInv, MutexInv
  <2>3. /\ \A u \in Senders : pc'[u] # "connecting"
        /\ pc'[Acceptor] = pc[Acceptor] /\ mutex' = Nobody /\ gone' = gone
    <3>1. /\ mutex' = Nobody /\ gone' = gone
          /\ pc' \in {[pc EXCEPT ![t] = "connected"], [pc EXCEPT ![t] = "idle"]}
      BY <1>3 DEF ConnectDone, ConnectRefused
    <3>2. pc'[Acceptor] = pc[Acceptor] /\ pc'[t] # "connecting"
      BY <3>1 DEF TypeInv, TypeOK
    <3>3. \A u \in Senders : u # t => pc[u] # "connecting" /\ pc'[u] = pc[u]
      BY <2>1, <3>1 DEF CoreInv, MutexInv, TypeInv, TypeOK
    <3> QED
      BY <3>1, <3>2, <3>3
  <2>4. Used' = Used
    <3>1. \A d \in End : life'[d] # "none" <=> life[d] # "none"
      <4>1. \E x : x # "none" /\ life' = [life EXCEPT ![e] = x]
        BY <1>3 DEF ConnectDone, ConnectRefused, e
      <4> QED
        BY <2>1, <4>1 DEF TypeInv, TypeOK
    <3> QED
      BY <3>1 DEF Used
  <2>5. CASE ConnectDone(t)
    <3>1. /\ life' = [life EXCEPT ![e] = "live"] /\ writer' = [writer EXCEPT ![e] = "pop"]
          /\ UNCHANGED <<sendq, freed>>
      BY <2>5 DEF ConnectDone, queueVars, e
    <3>2. MutexInv'
      BY <2>1, <2>2, <2>3, <3>1 DEF CoreInv, MutexInv, TypeInv, TypeOK
    <3>3. OneSessionAtATime'
      BY <2>1, <3>1 DEF CoreInv, OneSessionAtATime, TypeInv, TypeOK
    <3>4. SessionInv'
      BY <2>1, <2>3, <2>4, <3>1 DEF CoreInv, SessionInv, Running, TypeInv, TypeOK
    <3> QED
      BY <3>2, <3>3, <3>4 DEF CoreInv
  <2>6. CASE ConnectRefused(t)
    <3>1. /\ life' = [life EXCEPT ![e] = "gone"] /\ writer' = writer
          /\ sendq' = Null /\ freed' = freed \cup {e}
      BY <2>6 DEF ConnectRefused, readVars, netVars, e
    <3>2. MutexInv'
      BY <2>1, <2>2, <2>3, <3>1 DEF CoreInv, MutexInv, TypeInv, TypeOK
    <3>3. OneSessionAtATime'
      BY <2>1, <3>1 DEF CoreInv, OneSessionAtATime, TypeInv, TypeOK
    <3>4. SessionInv'
      BY <2>1, <2>3, <2>4, <3>1 DEF CoreInv, SessionInv, Running, TypeInv, TypeOK
    <3> QED
      BY <3>2, <3>3, <3>4 DEF CoreInv
  <2> QED
    BY <1>3, <2>5, <2>6
<1> QED
  BY <1>1, <1>2, <1>3

LEMMA PushCoreInv ==
    ASSUME TypeInv, CoreInv, NEW t \in Thread, Push(t)
    PROVE  CoreInv'
<1> USE SideFacts
<1>1. CASE Die(SideOf(t))
  BY <1>1, DieCoreInv
<1>2. CASE ~Die(SideOf(t))
  <2>1. UNCHANGED <<sendq, mutex, gone, freed, life>>
    BY <1>2 DEF Push, PushDropped, PushBlocks, PushFrame, PushOnNothing, queueVars
  <2>2. pc[t] \in {"push", "full"} /\ pc' \in {[pc EXCEPT ![t] = "idle"], [pc EXCEPT ![t] = "full"]}
    BY <1>2 DEF Push, PushDropped, PushBlocks, PushFrame, PushOnNothing, Return
  <2>3. \A u \in Senders : u # t => ptr'[u] = ptr[u]
    BY <1>2 DEF Push, PushDropped, PushBlocks, PushFrame, PushOnNothing, Return, TypeInv, TypeOK
  <2>4. \A e \in End : writer'[e] = writer[e] \/ writer[e] \notin {"off", "done"}
    BY ZenonT(40), <1>2 DEF Push, PushDropped, PushBlocks, PushFrame, PushOnNothing, Woken,
       TypeInv, TypeOK
  <2>5. \A u \in Senders : \/ pc'[u] = pc[u] /\ ptr'[u] = ptr[u]
                           \/ pc[u] # "connecting" /\ pc'[u] # "connecting"
    BY SMTT(30), <2>2, <2>3 DEF TypeInv, TypeOK
  <2>6. pc'[Acceptor] \in {"idle", "lookup", "push", "full"}
    BY <2>2 DEF CoreInv, MutexInv, TypeInv, TypeOK
  <2> QED
    BY <2>1, <2>4, <2>5, <2>6, CoreStep
<1> QED
  BY <1>1, <1>2

LEMMA SessionStepCoreInv ==
    ASSUME TypeInv, CoreInv, NEW e \in End,
           WriteThread(e) \/ HandleWrite(e) \/ HandleRead(e) \/ Reset(e)
    PROVE  CoreInv'
<1>1. CASE Die(e[2])
  BY <1>1, EndFacts, DieCoreInv
<1>2. CASE ~Die(e[2])
  <2> USE <1>2 DEF peerVars, queueVars
  <2>1. UNCHANGED <<sendq, mutex, pc, ptr, gone, freed, life>>
    BY ZenonT(40)
       DEF WriteThread, PopFrame, PopStopped, PopBlock, PopWait, HandleWrite, HandleWriteOk,
           HandleWriteError, HandleRead, ReadPart, ReadLast, ReadFails, ReadThrows, Reset
  <2>2. \A d \in End : writer'[d] = writer[d] \/ writer[d] \notin {"off", "done"}
    BY DEF WriteThread, Pop, PopFrame, PopStopped, PopBlock, PopWait, HandleWrite, HandleWriteOk,
           HandleWriteError, HandleRead, ReadPart, ReadLast, ReadFails, ReadThrows, Reset,
           Woken, TypeInv, TypeOK
  <2> QED
    BY <2>1, <2>2, CoreStep DEF CoreInv, MutexInv
<1> QED
  BY <1>1, <1>2

LEMMA EndCoreInv ==
    ASSUME TypeInv, CoreInv, NEW e \in End, EndSession(e) \/ HandleAccept(e)
    PROVE  CoreInv'
<1> DEFINE x == IF EndSession(e) THEN "gone" ELSE "live"
<1>1. /\ life[e] \in {"live", "none"} /\ life' = [life EXCEPT ![e] = x]
      /\ (life[e] = "none" => e[2] = "server")
      /\ (e[2] = "client" => x = "gone")
      /\ UNCHANGED <<sendq, mutex, pc, ptr, gone>>
      /\ freed' = freed \/ (x = "gone" /\ freed' = freed \cup {e})
      /\ x = "gone" => writer[e] = "done" /\ writer' = writer
      /\ x = "live" => writer' = [writer EXCEPT ![e] = "pop"] /\ life[e] # "gone"
  <2>1. CASE EndSession(e)
    BY <2>1 DEF EndSession, peerVars
  <2>2. CASE ~EndSession(e)
    BY <2>2 DEF HandleAccept, Unaccepted, peerVars, queueVars, Side
  <2> QED
    BY <2>1, <2>2
<1>2. x \in {"gone", "live"}
  OBVIOUS
<1> HIDE DEF x
<1>3. MutexInv'
  <2>1. mutex # Nobody => mutex \in Senders
    BY DEF TypeInv, TypeOK
  <2> QED
    BY <1>1, <1>2, <2>1 DEF CoreInv, MutexInv, TypeInv, TypeOK
<1>4. OneSessionAtATime'
  BY <1>1, <1>2 DEF CoreInv, OneSessionAtATime, TypeInv, TypeOK
<1>5. SessionInv'
  <2>1. Used' = Used
    BY <1>1, <1>2, EndFacts, SideFacts DEF Used, TypeInv, TypeOK
  <2>2. \A d \in freed : d \in End
    BY DEF TypeInv, TypeOK
  <2> QED
    BY <1>1, <1>2, <2>1, <2>2 DEF CoreInv, SessionInv, Running, TypeInv, TypeOK
<1> QED
  BY <1>3, <1>4, <1>5 DEF CoreInv

LEMMA ServerCoreInv ==
    ASSUME TypeInv, CoreInv,
           \/ \E s \in Side : ReceiveResume(s)
           \/ TakeRequest \/ LookUpQueue \/ TakeReply
           \/ StartServer \/ LeaveServer \/ StopServer \/ StopConnection
    PROVE  CoreInv'
<1> USE SideFacts
<1>1. CASE Die("server")
  BY <1>1, DieCoreInv
<1>2. CASE ~Die("server")
  <2> USE <1>2 DEF peerVars, queueVars
  <2>1. UNCHANGED <<sendq, mutex, gone, freed, life>>
    BY DEF ReceiveResume, TakeRequest, LookUpQueue, TakeReply, StartServer, LeaveServer,
           StopServer, StopConnection
  <2>2. \A u \in Senders : pc'[u] = pc[u] /\ ptr'[u] = ptr[u]
    BY DEF ReceiveResume, TakeRequest, LookUpQueue, TakeReply, StartServer, LeaveServer,
           StopServer, StopConnection, Return, TypeInv, TypeOK
  <2>3. pc'[Acceptor] \in {"idle", "lookup", "push", "full"}
    BY DEF ReceiveResume, TakeRequest, LookUpQueue, TakeReply, StartServer, LeaveServer,
           StopServer, StopConnection, Return, CoreInv, MutexInv, TypeInv, TypeOK
  <2>4. \A d \in End : writer'[d] = writer[d] \/ writer[d] \notin {"off", "done"}
    BY DEF ReceiveResume, TakeRequest, LookUpQueue, TakeReply, StartServer, LeaveServer,
           StopServer, StopConnection, Woken, TypeInv, TypeOK
  <2> QED
    BY <2>1, <2>2, <2>3, <2>4, CoreStep
<1> QED
  BY <1>1, <1>2

LEMMA CoreInvInductive == TypeInv /\ CoreInv /\ [Next]_vars => CoreInv'
<1> SUFFICES ASSUME TypeInv, CoreInv, [Next]_vars PROVE CoreInv'
  OBVIOUS
<1>1. CASE UNCHANGED vars
  <2>1. UNCHANGED <<sendq, mutex, gone, freed, life, writer, pc, ptr>>
    BY <1>1 DEF vars, peerVars, queueVars
  <2> QED
    BY <2>1, CoreStep DEF CoreInv, MutexInv
<1>2. ASSUME NEW s \in Side, Quit(s) PROVE CoreInv'
  BY <1>2, DieCoreInv DEF Quit
<1>3. CASE Next
  BY <1>2, <1>3, NextCases, SendCoreInv, PushCoreInv, SessionStepCoreInv, EndCoreInv,
     ServerCoreInv
<1> QED
  BY <1>1, <1>3

LEMMA InitSafe == Init => TypeInv /\ CoreInv
<1> SUFFICES ASSUME Init PROVE TypeInv /\ CoreInv
  OBVIOUS
<1>1. TypeInv
  BY ConnectionAssumption, BlankType DEF Init, TypeInv, TypeOK
<1>2. MutexInv /\ OneSessionAtATime
  BY SideFacts DEF Init, MutexInv, OneSessionAtATime
<1>3. SessionInv
  <2>1. Used = (1..0) \X {"client"} /\ 0 \in 0..MaxSessions
    BY ConnectionAssumption DEF Used, Init
  <2> QED
    BY <2>1 DEF Init, SessionInv
<1> QED
  BY <1>1, <1>2, <1>3 DEF CoreInv

THEOREM CoreSafe == Spec => [](TypeInv /\ CoreInv)
<1>1. TypeInv /\ CoreInv /\ [Next]_vars => (TypeInv /\ CoreInv)'
  BY TypeInvInductive, CoreInvInductive DEF CoreInv
<1> QED
  BY InitSafe, <1>1, PTL DEF Spec

\* Every variable keeps its type, every queue its bound, and a buffer in which
\* the bytes of a frame are put together is never left full.
THEOREM TypeCorrect == Spec => []TypeOK
BY CoreSafe, PTL DEF TypeInv

\* However many threads call sendFrame() at once, the client makes one session
\* to a peer at a time, and sendq_ is its queue.
THEOREM SessionsAreSerial == Spec => []OneSessionAtATime
BY CoreSafe, PTL DEF CoreInv

\* ~Session(), and a refused connect(), delete a queue only when no write
\* thread pops from it or sleeps in it.
THEOREM DeletedSafely == Spec => []DeletedQueueHasNoReader
<1>1. TypeInv /\ CoreInv => DeletedQueueHasNoReader
  BY DEF TypeInv, TypeOK, CoreInv, SessionInv, DeletedQueueHasNoReader
<1> QED
  BY CoreSafe, <1>1, PTL

-----------------------------------------------------------------------------
(***************************************************************************)
(* The sessions of Connection are the channels of FrameChannel: each       *)
(* direction hands over the frames that were put in its queue, whole, in   *)
(* order and each once, whatever reads and writes the bytes are cut into,  *)
(* and whichever processes, sessions and servers end meanwhile.            *)
(***************************************************************************)

(* The bytes of a direction, in the order of the frames.                   *)

Byte(p) == CHOOSE x \in (Nat \ {0}) \X (1..FrameLength) : p = (x[1] - 1) * FrameLength + x[2]

LEMMA NextMultiple == \A k, m \in Nat : k < m => k * FrameLength + FrameLength <= m * FrameLength
<1>1. FrameLength \in Nat
  BY ConnectionAssumption
<1> SUFFICES ASSUME NEW k \in Nat, NEW m \in Nat, k < m
             PROVE  k * FrameLength + FrameLength <= m * FrameLength
  OBVIOUS
<1>2. PICK c \in Nat : m = k + 1 + c
  <2>1. m - k - 1 \in Nat /\ m = k + 1 + (m - k - 1)
    OBVIOUS
  <2> QED
    BY <2>1
<1>3. (k + 1 + c) * FrameLength = k * FrameLength + FrameLength + c * FrameLength
  BY <1>1
<1>4. c * FrameLength \in Nat
  BY <1>1
<1>5. k * FrameLength \in Nat
  BY <1>1
<1>6. m * FrameLength = k * FrameLength + FrameLength + c * FrameLength
  BY <1>2, <1>3
<1> QED
  BY <1>1, <1>4, <1>5, <1>6

LEMMA MultipleFacts ==
    \A k \in Nat : /\ k * FrameLength \in Nat
                   /\ (k + 1) * FrameLength = k * FrameLength + FrameLength
BY ConnectionAssumption

LEMMA MultipleGrows == \A k, m \in Nat : k <= m => k * FrameLength <= m * FrameLength
<1> SUFFICES ASSUME NEW k \in Nat, NEW m \in Nat, k <= m
             PROVE  k * FrameLength <= m * FrameLength
  OBVIOUS
<1>1. FrameLength \in Nat /\ k * FrameLength \in Nat /\ m * FrameLength \in Nat
  BY MultipleFacts, ConnectionAssumption
<1>2. CASE k = m
  BY <1>1, <1>2
<1>3. CASE k < m
  BY <1>1, <1>3, NextMultiple
<1> QED
  BY <1>2, <1>3

\* The place of a byte says which byte of which frame it is.
LEMMA ByteFacts ==
    \A n \in Nat, i \in 1..FrameLength : Byte(n * FrameLength + i) = <<n + 1, i>>
<1> SUFFICES ASSUME NEW n \in Nat, NEW i \in 1..FrameLength
             PROVE  Byte(n * FrameLength + i) = <<n + 1, i>>
  OBVIOUS
<1> DEFINE B == (Nat \ {0}) \X (1..FrameLength)
           p == n * FrameLength + i
<1>1. FrameLength \in Nat /\ n * FrameLength \in Nat
  BY MultipleFacts, ConnectionAssumption
<1>2. <<n + 1, i>> \in B /\ p = (<<n + 1, i>>[1] - 1) * FrameLength + <<n + 1, i>>[2]
  <2>1. n + 1 - 1 = n /\ n + 1 \in Nat \ {0}
    OBVIOUS
  <2> QED
    BY <2>1
<1>3. ASSUME NEW x \in B, p = (x[1] - 1) * FrameLength + x[2]
      PROVE  x = <<n + 1, i>>
  <2>1. /\ x = <<x[1], x[2]>> /\ x[1] - 1 \in Nat /\ x[2] \in 1..FrameLength
    OBVIOUS
  <2> DEFINE m == x[1] - 1
  <2>2. m \in Nat /\ x[1] = m + 1 /\ n * FrameLength + i = m * FrameLength + x[2]
    BY <1>3, <2>1
  <2> HIDE DEF m
  <2>3. m * FrameLength \in Nat
    BY <2>2, MultipleFacts
  <2>4. ~(m < n)
    BY <1>1, <2>1, <2>2, <2>3, NextMultiple
  <2>5. ~(n < m)
    BY <1>1, <2>1, <2>2, <2>3, NextMultiple
  <2>6. m = n
    BY <2>2, <2>4, <2>5
  <2>7. x[2] = i
    BY <1>1, <2>1, <2>2, <2>6
  <2> QED
    BY <2>1, <2>2, <2>6, <2>7
<1> QED
  BY <1>2, <1>3 DEF Byte

LEMMA BytesAreInPlace ==
    \A n \in Nat : Bytes(n + 1) = [i \in 1..FrameLength |-> Byte(n * FrameLength + i)]
BY ByteFacts DEF Bytes

LEMMA NumberOfBytes == \A n \in Nat : NumberOf(Bytes(n)) = n
<1> SUFFICES ASSUME NEW n \in Nat PROVE NumberOf(Bytes(n)) = n
  OBVIOUS
<1>1. 1 \in 1..FrameLength
  BY ConnectionAssumption
<1>2. Bytes(n)[1] = <<n, 1>>
  BY <1>1 DEF Bytes
<1>3. Bytes(n)[1][1] = n
  BY <1>2
<1> QED
  BY <1>3 DEF NumberOf

-----------------------------------------------------------------------------
(***************************************************************************)
(* The invariant.  The bytes of a direction that are under way lie, in     *)
(* this order, in the buffer of the reader and on the wire; the frames     *)
(* that follow them are in the queue.                                      *)
(***************************************************************************)
\* A socket is there from the time the network has answered connect().
SockInv ==
    /\ \A e \in End : sock[e] # "none" => life[<<e[1], "client">>] \in {"live", "gone"}
    /\ \A e \in End : life[e] = "live" => sock[e] # "none"

Blocked(r) == asio[r[2]] = r

\* Frames that left the queue of d; frames that reader r has put together.
Popped(d) == sent[d] - Len(q[d])
Taken(r) == got[Far(r)] + (IF Blocked(r) THEN 1 ELSE 0)

\* Once the receive queue is stopped only a frame that waits for it arrives.
Receiving(r) == life[r] # "gone" /\ ~ReceiveStopped(r[2])

QueueInv(d) ==
    /\ Len(q[d]) <= sent[d] /\ got[d] <= sent[d]
    /\ life[d] # "gone" => \A i \in 1..Len(q[d]) : q[d][i] = Popped(d) + i

BlockInv(r) ==
    Blocked(r) => /\ life[r] = "live" /\ reader[r] = "reading"
                  /\ got[Far(r)] + 1 <= sent[Far(r)]
                  /\ frame[r] = Bytes(got[Far(r)] + 1)

InPlace(r, d, start) ==
    /\ \A i \in 1..index[r] : frame[r][i] = Byte(start + i)
    /\ \A k \in 1..Len(wire[d]) : wire[d][k] = Byte(start + index[r] + k)

Whole(d) == sock[d] \in {"none", "up"} /\ life[d] # "gone"

InOrder(r, d, start) ==
    /\ start + index[r] + Len(wire[d]) <= Popped(d) * FrameLength
    /\ Whole(d) => start + index[r] + Len(wire[d]) = Popped(d) * FrameLength

ReadInv(r) ==
    Receiving(r) => /\ InPlace(r, Far(r), Taken(r) * FrameLength)
                    /\ InOrder(r, Far(r), Taken(r) * FrameLength)

AsioInv == \A s \in Side : asio[s] # Null => asio[s][2] = s

ChannelInv ==
    /\ SockInv /\ AsioInv
    /\ \A e \in End : QueueInv(e) /\ BlockInv(e) /\ ReadInv(e)

SafetyInv == TypeInv /\ CoreInv /\ ChannelInv

\* Types of what the invariant is about, at one end.
LEMMA EndTypes ==
    ASSUME TypeInv, NEW e \in End
    PROVE  /\ q[e] \in Seq(Nat) /\ Len(q[e]) \in Nat /\ sent[e] \in Nat /\ got[e] \in Nat
           /\ wire[e] \in Seq(ByteType) /\ Len(wire[e]) \in Nat
           /\ frame[e] \in FrameShape /\ index[e] \in 0..(FrameLength - 1) /\ index[e] \in Nat
           /\ e[2] \in Side /\ asio[e[2]] \in End \cup {Null}
           /\ Far(e) \in End /\ Far(Far(e)) = e /\ Far(e) # e
<1>1. Far(e) \in End /\ Far(Far(e)) = e /\ Far(e) # e /\ e[2] \in Side
  BY EndFacts, FarFacts
<1>2. q[e] \in Seq(Nat) /\ wire[e] \in Seq(ByteType)
  BY DEF TypeInv
<1>3. Len(q[e]) \in Nat /\ Len(wire[e]) \in Nat
  BY <1>2, LenProperties
<1>4. index[e] \in 0..(FrameLength - 1) /\ index[e] \in Nat
  BY ConnectionAssumption DEF TypeInv, TypeOK
<1> QED
  BY <1>1, <1>2, <1>3, <1>4 DEF TypeInv, TypeOK

LEMMA TakenType ==
    ASSUME TypeInv, NEW r \in End
    PROVE  Taken(r) \in Nat /\ Taken(r) * FrameLength \in Nat
<1>1. Taken(r) \in Nat
  BY EndTypes DEF Taken
<1> QED
  BY <1>1, MultipleFacts

LEMMA PoppedType ==
    ASSUME TypeInv, NEW d \in End, QueueInv(d)
    PROVE  Popped(d) \in Nat /\ Popped(d) <= sent[d] /\ Popped(d) * FrameLength \in Nat
<1>1. Popped(d) \in Nat /\ Popped(d) <= sent[d]
  BY EndTypes DEF Popped, QueueInv
<1> QED
  BY <1>1, MultipleFacts

\* A session, a socket or a server may end, and a queue be cleared, and what is
\* under way keeps its place.
LEMMA ReadInvKept ==
    ASSUME TypeInv, TypeInv', NEW r \in End, ReadInv(r), QueueInv(Far(r)), QueueInv(Far(r))',
           Receiving(r)' => /\ Receiving(r)
                            /\ UNCHANGED <<Taken(r), index[r], frame[r], wire[Far(r)]>>,
           Popped(Far(r)) <= Popped(Far(r))',
           Whole(Far(r))' => Whole(Far(r)) /\ Popped(Far(r))' = Popped(Far(r))
    PROVE  ReadInv(r)'
<1> SUFFICES ASSUME Receiving(r)'
             PROVE  /\ InPlace(r, Far(r), Taken(r) * FrameLength)'
                    /\ InOrder(r, Far(r), Taken(r) * FrameLength)'
  BY DEF ReadInv
<1>1. /\ InPlace(r, Far(r), Taken(r) * FrameLength)
      /\ InOrder(r, Far(r), Taken(r) * FrameLength)
  BY DEF ReadInv
<1>2. Far(r)' = Far(r)
  OBVIOUS
<1>3. InPlace(r, Far(r), Taken(r) * FrameLength)'
  BY <1>1, <1>2 DEF InPlace
<1>4. /\ Popped(Far(r)) \in Nat /\ Popped(Far(r))' \in Nat
      /\ Popped(Far(r)) * FrameLength <= Popped(Far(r))' * FrameLength
      /\ Popped(Far(r)) * FrameLength \in Nat /\ Popped(Far(r))' * FrameLength \in Nat
  <2>1. Popped(Far(r)) \in Nat
    BY EndTypes, PoppedType
  <2>2. Popped(Far(r))' \in Nat
    <3>1. q'[Far(r)] \in Seq(Nat) /\ sent'[Far(r)] \in Nat
      BY EndTypes DEF TypeInv, TypeOK
    <3>2. Len(q'[Far(r)]) \in Nat
      BY <3>1, LenProperties
    <3> QED
      BY <3>1, <3>2 DEF Popped, QueueInv
  <2> QED
    BY <2>1, <2>2, MultipleGrows, MultipleFacts
<1>5. Taken(r) * FrameLength + index[r] + Len(wire[Far(r)]) \in Nat
  BY EndTypes, TakenType
<1>6. InOrder(r, Far(r), Taken(r) * FrameLength)'
  BY <1>1, <1>2, <1>4, <1>5 DEF InOrder
<1> QED
  BY <1>3, <1>6

\* A calm step moves no byte and no frame, except that it may lose some.
Calm ==
    /\ UNCHANGED <<sent, got>>
    /\ \A e \in End :
         /\ \/ q'[e] = q[e] /\ (life[e] = "gone" => life'[e] = "gone")
            \/ q'[e] = <<>> /\ life'[e] = "gone"
         /\ Whole(e)' => Whole(e) /\ q'[e] = q[e]
         /\ Receiving(e)' => /\ Receiving(e)
                             /\ UNCHANGED <<asio[e[2]], index[e], frame[e], wire[Far(e)]>>
         /\ Blocked(e)' => /\ Blocked(e)
                           /\ UNCHANGED <<life[e], reader[e], frame[e]>>

LEMMA CalmStep ==
    ASSUME TypeInv, TypeInv', ChannelInv, Calm, NEW e \in End
    PROVE  QueueInv(e)' /\ BlockInv(e)' /\ ReadInv(e)'
<1>1. \A d \in End : QueueInv(d)' /\ Popped(d) <= Popped(d)' /\ (q'[d] = q[d] => Popped(d)' = Popped(d))
  <2> SUFFICES ASSUME NEW d \in End
               PROVE  QueueInv(d)' /\ Popped(d) <= Popped(d)' /\ (q'[d] = q[d] => Popped(d)' = Popped(d))
    OBVIOUS
  <2>1. Len(q[d]) \in Nat /\ sent[d] \in Nat /\ QueueInv(d)
    BY EndTypes DEF ChannelInv
  <2>2. CASE q'[d] = q[d] /\ (life[d] = "gone" => life'[d] = "gone")
    BY <2>1, <2>2 DEF Calm, QueueInv, Popped
  <2>3. CASE q'[d] = <<>> /\ life'[d] = "gone"
    <3>1. Len(q'[d]) = 0
      BY <2>3
    <3> QED
      BY <2>1, <2>3, <3>1 DEF Calm, QueueInv, Popped
  <2> QED
    BY <2>2, <2>3 DEF Calm
<1>2. BlockInv(e)'
  BY EndTypes DEF ChannelInv, Calm, BlockInv
<1>3. ReadInv(e)'
  <2>1. Far(e) \in End /\ ReadInv(e) /\ QueueInv(Far(e))
    BY EndTypes DEF ChannelInv
  <2>2. Receiving(e)' => /\ Receiving(e)
                         /\ UNCHANGED <<Taken(e), index[e], frame[e], wire[Far(e)]>>
    BY DEF Calm, Taken, Blocked
  <2>3. Whole(Far(e))' => Whole(Far(e)) /\ Popped(Far(e))' = Popped(Far(e))
    BY <1>1, <2>1 DEF Calm
  <2>4. QueueInv(Far(e))' /\ Popped(Far(e)) <= Popped(Far(e))'
    BY <1>1, <2>1
  <2> QED
    BY <2>1, <2>2, <2>3, <2>4, ReadInvKept
<1> QED
  BY <1>1, <1>2, <1>3

\* Sockets last, and so does what a session has become.
LEMMA SockStep ==
    ASSUME TypeInv, SockInv,
           \A e \in End : /\ sock'[e] # "none" <=> sock[e] # "none"
                          /\ life[e] \in {"live", "gone"} => life'[e] \in {"live", "gone"}
                          /\ life'[e] = "live" => life[e] = "live" \/ sock[e] # "none"
    PROVE  SockInv'
<1>1. \A e \in End : <<e[1], "client">> \in End
  BY EndFacts, SideFacts
<1> QED
  BY <1>1 DEF SockInv

\* Steps of a session that keep what is under way where it is.
LEMMA CalmLife ==
    ASSUME ChannelInv, UNCHANGED <<serving, q, sent, got, index, frame, asio, wire>>,
           \A e \in End : /\ life[e] = "gone" => life'[e] = "gone"
                          /\ Whole(e)' => Whole(e)
                          /\ \/ UNCHANGED <<life[e], reader[e]>>
                             \/ ~Blocked(e)
    PROVE  Calm
<1>1. UNCHANGED <<sent, got>>
  OBVIOUS
<1>2. ASSUME NEW e \in End
      PROVE  Receiving(e)' => /\ Receiving(e)
                              /\ UNCHANGED <<asio[e[2]], index[e], frame[e], wire[Far(e)]>>
  BY DEF Receiving, ReceiveStopped
<1>3. ASSUME NEW e \in End
      PROVE  Blocked(e)' => Blocked(e) /\ UNCHANGED <<life[e], reader[e], frame[e]>>
  BY DEF Blocked
<1> QED
  BY <1>1, <1>2, <1>3 DEF Calm

LEMMA CalmChannelInv ==
    ASSUME TypeInv, TypeInv', ChannelInv, Calm, SockInv',
           \A s \in Side : asio'[s] \in {Null, asio[s]}
    PROVE  ChannelInv'
<1>1. AsioInv'
  BY DEF ChannelInv, AsioInv
<1> QED
  BY <1>1, CalmStep DEF ChannelInv

LEMMA DieChannelInv ==
    ASSUME TypeInv, TypeInv', ChannelInv, NEW s \in Side, Die(s)
    PROVE  ChannelInv'
<1>1. /\ \A e \in End : e[2] = s => life'[e] = "gone" /\ q'[e] = <<>>
      /\ \A e \in End : e[2] # s =>
            UNCHANGED <<life[e], q[e], sock[e], index[e], frame[e], reader[e], asio[e[2]]>>
      /\ asio' = [asio EXCEPT ![s] = Null]
      /\ \A e \in End : sock'[e] = sock[e] \/ (sock[e] = "up" /\ sock'[e] = "shut")
      /\ UNCHANGED <<sent, got, wire, serving>>
  BY EndFacts DEF Die, TypeInv, TypeOK
<1>2. Null \notin End /\ \A e \in End : e[2] \in Side
  BY EndFacts
<1>3. Calm
  <2>1. \A e \in End : e[2] = s => asio'[e[2]] # e
    BY <1>1, <1>2 DEF TypeInv, TypeOK
  <2>2. ASSUME NEW e \in End, e[2] = s
        PROVE  q'[e] = <<>> /\ life'[e] = "gone" /\ ~Whole(e)' /\ ~Receiving(e)' /\ ~Blocked(e)'
    BY <1>1, <2>1, <2>2 DEF Whole, Receiving, Blocked
  <2>3. ASSUME NEW e \in End, e[2] # s
        PROVE  /\ UNCHANGED <<q[e], life[e], reader[e], index[e], frame[e], asio[e[2]], wire[Far(e)]>>
               /\ (Whole(e)' => Whole(e)) /\ (Receiving(e)' => Receiving(e))
               /\ (Blocked(e)' => Blocked(e))
    BY <1>1, <2>3 DEF Whole, Receiving, ReceiveStopped, Blocked
  <2> QED
    BY <1>1, <2>2, <2>3 DEF Calm
<1>4. SockInv'
  BY <1>1, SockStep DEF ChannelInv
<1>5. \A x \in Side : asio'[x] \in {Null, asio[x]}
  BY <1>1 DEF TypeInv, TypeOK
<1> QED
  BY <1>3, <1>4, <1>5, CalmChannelInv

LEMMA SendChannelInv ==
    ASSUME TypeInv, TypeInv', CoreInv, ChannelInv, NEW t \in Senders,
           \/ CallSendFrame(t) \/ ConnectAlive(t) \/ ConnectBegin(t)
           \/ ConnectDone(t) \/ ConnectRefused(t) \/ LoadQueue(t)
    PROVE  ChannelInv'
<1> USE SideFacts DEF queueVars, readVars, netVars
<1>1. asio' = asio
  BY DEF CallSendFrame, ConnectAlive, ConnectBegin, ConnectDone, ConnectRefused, LoadQueue
<1>2. CASE CallSendFrame(t) \/ ConnectAlive(t) \/ LoadQueue(t)
  <2>1. Calm
    BY <1>2 DEF CallSendFrame, ConnectAlive, LoadQueue, Calm, Whole, Receiving, ReceiveStopped, Blocked
  <2>2. SockInv'
    BY <1>2 DEF CallSendFrame, ConnectAlive, LoadQueue, ChannelInv, SockInv
  <2> QED
    BY <1>1, <2>1, <2>2, CalmChannelInv
<1>3. CASE ConnectBegin(t)
  <2> DEFINE n == <<NextSession, "client">>
  <2>1. n \in End /\ life[n] = "none" /\ life' = [life EXCEPT ![n] = "connecting"]
    BY <1>3, NextSessionIsNew DEF ConnectBegin
  <2> HIDE DEF n
  <2>2. /\ \A e \in End : life'[e] = (IF e = n THEN "connecting" ELSE life[e])
        /\ UNCHANGED <<serving, q, sent, got, reader, index, frame, asio, wire, sock>>
    <3>1. \A e \in End : life'[e] = (IF e = n THEN "connecting" ELSE life[e])
      BY <2>1 DEF TypeInv, TypeOK
    <3>2. UNCHANGED <<serving, q, sent, got, reader, index, frame, asio, wire, sock>>
      BY <1>3 DEF ConnectBegin
    <3> QED
      BY <3>1, <3>2
  <2>3. ~Blocked(n)
    BY <2>1 DEF ChannelInv, BlockInv
  <2>4. Calm
    BY <2>1, <2>2, <2>3, CalmLife DEF Whole
  <2>5. SockInv'
    BY <2>1, <2>2, SockStep DEF ChannelInv
  <2> QED
    BY <1>1, <2>4, <2>5, CalmChannelInv
<1>4. CASE ConnectDone(t) \/ ConnectRefused(t)
  <2> DEFINE e == ptr[t]
  <2>1. e \in End /\ Far(e) \in End /\ e[2] = "client" /\ life[e] = "connecting"
    BY SMTT(30), <1>4, EndFacts, FarFacts DEF ConnectDone, ConnectRefused, CoreInv, MutexInv,
       TypeInv, TypeOK
  <2>2. \A d \in {e, Far(e)} : <<d[1], "client">> = e
    BY <2>1, EndFacts, FarFacts
  <2>3. sock[e] = "none" /\ sock[Far(e)] = "none"
    BY <2>1, <2>2 DEF ChannelInv, SockInv
  <2> HIDE DEF e
  <2>4. CASE ConnectDone(t)
    <3>1. /\ life' = [life EXCEPT ![e] = "live"]
          /\ reader' = [reader EXCEPT ![e] = "reading"]
          /\ sock' = [sock EXCEPT ![e] = "up", ![Far(e)] = "up"]
          /\ UNCHANGED <<serving, q, sent, got, index, frame, asio, wire>>
      BY <2>4 DEF ConnectDone, e
    <3>2. /\ \A d \in End : /\ life'[d] = (IF d = e THEN "live" ELSE life[d])
                            /\ reader'[d] = (IF d = e THEN "reading" ELSE reader[d])
                            /\ sock'[d] = (IF d \in {e, Far(e)} THEN "up" ELSE sock[d])
      <4>1. \A d \in End : life'[d] = (IF d = e THEN "live" ELSE life[d])
        BY <2>1, <3>1 DEF TypeInv, TypeOK
      <4>2. \A d \in End : reader'[d] = (IF d = e THEN "reading" ELSE reader[d])
        BY <2>1, <3>1 DEF TypeInv, TypeOK
      <4>3. \A d \in End : sock'[d] = (IF d \in {e, Far(e)} THEN "up" ELSE sock[d])
        <5>1. sock \in [End -> {"none", "up", "shut", "reset"}]
          BY DEF TypeInv, TypeOK
        <5> DEFINE half == [sock EXCEPT ![e] = "up"]
        <5>2. half \in [End -> {"none", "up", "shut", "reset"}]
          BY <2>1, <5>1
        <5>3. sock' = [half EXCEPT ![Far(e)] = "up"]
          BY <3>1
        <5>4. \A d \in End : half[d] = (IF d = e THEN "up" ELSE sock[d])
          BY <2>1, <5>1
        <5> HIDE DEF half
        <5> QED
          BY <2>1, <5>2, <5>3, <5>4
      <4> QED
        BY <4>1, <4>2, <4>3
    <3>3. ~Blocked(e)
      BY <2>1 DEF ChannelInv, BlockInv
    <3>4. Calm
      BY <2>1, <2>3, <3>1, <3>2, <3>3, CalmLife DEF Whole
    <3>5. SockInv'
      <4>1. \A d \in End : <<d[1], "client">> \in End
        BY EndFacts
      <4> QED
        BY <2>1, <2>2, <2>3, <3>2, <4>1 DEF ChannelInv, SockInv
    <3> QED
      BY <1>1, <3>4, <3>5, CalmChannelInv
  <2>5. CASE ConnectRefused(t)
    <3>1. /\ life' = [life EXCEPT ![e] = "gone"] /\ q' = [q EXCEPT ![e] = <<>>]
          /\ UNCHANGED <<serving, sock, sent, got, reader, index, frame, asio, wire>>
      BY <2>5 DEF ConnectRefused, e
    <3>2. \A d \in End : /\ life'[d] = (IF d = e THEN "gone" ELSE life[d])
                         /\ q'[d] = (IF d = e THEN <<>> ELSE q[d])
      BY <2>1, <3>1 DEF TypeInv, TypeOK
    <3>3. ~Blocked(e)
      BY <2>1 DEF ChannelInv, BlockInv
    <3>4. Calm
      BY <2>1, <3>1, <3>2, <3>3 DEF Calm, Whole, Receiving, ReceiveStopped, Blocked
    <3>5. SockInv'
      BY <2>1, <3>1, <3>2, SockStep DEF ChannelInv
    <3> QED
      BY <1>1, <3>4, <3>5, CalmChannelInv
  <2> QED
    BY <1>4, <2>4, <2>5
<1> QED
  BY <1>2, <1>3, <1>4

\* Steps of threads and handlers that do not move a frame or a byte.
LEMMA QuietChannelInv ==
    ASSUME TypeInv, TypeInv', CoreInv, ChannelInv,
           \/ \E t \in Thread : PushDropped(t) \/ PushBlocks(t) \/ PushOnNothing(t)
           \/ \E e \in End : PopStopped(e) \/ PopBlock(e) \/ PopWait(e) \/ HandleWrite(e)
           \/ TakeRequest \/ LookUpQueue \/ TakeReply
           \/ StartServer \/ LeaveServer \/ StopServer \/ StopConnection
    PROVE  ChannelInv'
<1> USE SideFacts DEF peerVars, queueVars, readVars, netVars
<1>1. ASSUME NEW s \in Side, Die(s) PROVE ChannelInv'
  BY <1>1, DieChannelInv
<1>2. CASE \E e \in End : PopStopped(e) /\ ~Die(e[2])
  <2>1. PICK e \in End : PopStopped(e) /\ ~Die(e[2])
    BY <1>2
  <2>2. /\ sock' = [sock EXCEPT ![e] = "shut"] /\ asio' = asio
        /\ UNCHANGED <<serving, q, sent, got, life, reader, index, frame, wire>>
    BY <2>1 DEF PopStopped
  <2>3. sock[e] # "none"
    BY <2>1 DEF PopStopped, Pop, CoreInv, SessionInv, ChannelInv, SockInv, TypeInv, TypeOK
  <2>4. \A d \in End : sock'[d] = (IF d = e THEN "shut" ELSE sock[d])
    BY <2>2 DEF TypeInv, TypeOK
  <2>5. Calm
    BY <2>2, <2>4, CalmLife DEF Whole
  <2>6. SockInv'
    BY <2>2, <2>3, <2>4, SockStep DEF ChannelInv
  <2> QED
    BY <2>2, <2>5, <2>6, CalmChannelInv
<1>3. CASE \/ \E t \in Thread : \/ PushDropped(t) \/ PushBlocks(t)
                                \/ PushOnNothing(t) /\ ~Die(SideOf(t))
           \/ \E e \in End : PopBlock(e) \/ PopWait(e) \/ HandleWrite(e)
           \/ TakeRequest \/ (LookUpQueue /\ ~Die("server")) \/ TakeReply
           \/ StartServer \/ LeaveServer \/ StopConnection
  <2>1. UNCHANGED <<sent, got, q, life, sock, reader, index, frame, wire, asio>>
    BY <1>3 DEF PushDropped, PushBlocks, PushOnNothing, PopBlock, PopWait,
       HandleWrite, HandleWriteOk, HandleWriteError, TakeRequest, LookUpQueue, TakeReply,
       StartServer, LeaveServer, StopConnection
  <2>2. serving' = serving \/ serving \in {"off", "on"}
    BY <1>3 DEF PushDropped, PushBlocks, PushOnNothing, PopBlock, PopWait,
       HandleWrite, HandleWriteOk, HandleWriteError, TakeRequest, LookUpQueue, TakeReply,
       StartServer, LeaveServer, StopConnection
  <2>3. Calm
    BY <2>1, <2>2 DEF Calm, Whole, Receiving, ReceiveStopped, Blocked
  <2>4. SockInv'
    BY <2>1 DEF ChannelInv, SockInv
  <2> QED
    BY <2>1, <2>3, <2>4, CalmChannelInv
<1>4. CASE StopServer
  <2>1. /\ \A e \in End : sock'[e] = sock[e] \/ (sock[e] = "up" /\ sock'[e] = "shut")
        /\ UNCHANGED <<sent, got, q, life, reader, index, frame, wire, asio>>
        /\ serving = "stopping" /\ serving' = "closed"
    BY <1>4 DEF StopServer, Unaccepted
  <2>2. Calm
    BY <2>1 DEF Calm, Whole, Receiving, ReceiveStopped, Blocked
  <2>3. SockInv'
    BY <2>1, SockStep DEF ChannelInv
  <2> QED
    BY <2>1, <2>2, <2>3, CalmChannelInv
<1>5. ASSUME NEW e \in End PROVE e[2] \in Side
  BY EndFacts
<1> QED
  BY <1>1, <1>2, <1>3, <1>4, <1>5

LEMMA EndChannelInv ==
    ASSUME TypeInv, TypeInv', ChannelInv, NEW e \in End,
           ReadFails(e) \/ ReadThrows(e) \/ EndSession(e) \/ HandleAccept(e)
    PROVE  ChannelInv'
<1> USE DEF peerVars, queueVars, netVars
<1>1. e[2] \in Side /\ Null \notin End
  BY EndFacts
<1>2. CASE ReadThrows(e)
  BY <1>1, <1>2, DieChannelInv DEF ReadThrows
<1>3. CASE ReadFails(e)
  <2>1. /\ asio[e[2]] = Null /\ reader' = [reader EXCEPT ![e] = "failed"]
        /\ UNCHANGED <<serving, q, sent, got, life, index, frame, asio, sock, wire>>
    BY <1>3 DEF ReadFails, Reading, AsioFree
  <2>2. Calm
    BY <1>1, <2>1 DEF Calm, Whole, Receiving, ReceiveStopped, Blocked, TypeInv, TypeOK
  <2>3. SockInv'
    BY <2>1, SockStep DEF ChannelInv
  <2> QED
    BY <2>1, <2>2, <2>3, CalmChannelInv
<1>4. CASE EndSession(e)
  <2>1. /\ life[e] = "live" /\ life' = [life EXCEPT ![e] = "gone"]
        /\ reader[e] = "failed" /\ (q' = q \/ q' = [q EXCEPT ![e] = <<>>])
        /\ index' = [index EXCEPT ![e] = 0] /\ frame' = [frame EXCEPT ![e] = Blank]
        /\ UNCHANGED <<serving, sent, got, reader, asio, sock, wire>>
    BY <1>4 DEF EndSession
  <2>2. \A d \in End : /\ life'[d] = (IF d = e THEN "gone" ELSE life[d])
                       /\ d # e => UNCHANGED <<q[d], index[d], frame[d]>>
                       /\ q'[d] = q[d] \/ (d = e /\ q'[d] = <<>>)
    <3>1. /\ life = [d \in End |-> life[d]] /\ q = [d \in End |-> q[d]]
          /\ index = [d \in End |-> index[d]] /\ frame = [d \in End |-> frame[d]]
      BY DEF TypeInv, TypeOK
    <3>2. \A d \in End : life'[d] = (IF d = e THEN "gone" ELSE life[d])
      BY <2>1, <3>1
    <3>3. \A d \in End : d # e => index'[d] = index[d] /\ frame'[d] = frame[d]
      BY <2>1, <3>1
    <3>4. \A d \in End : q'[d] = q[d] \/ (d = e /\ q'[d] = <<>>)
      BY <2>1, <3>1
    <3> QED
      BY <3>2, <3>3, <3>4
  <2>3. ~Blocked(e)
    BY <2>1 DEF ChannelInv, BlockInv
  <2>4. Calm
    BY <2>1, <2>2, <2>3 DEF Calm, Whole, Receiving, ReceiveStopped, Blocked
  <2>5. SockInv'
    BY <2>1, <2>2, SockStep DEF ChannelInv
  <2> QED
    BY <2>1, <2>4, <2>5, CalmChannelInv
<1>5. CASE HandleAccept(e)
  <2>1. /\ asio[e[2]] = Null /\ life[e] = "none" /\ sock[e] = "up" /\ e[2] = "server"
        /\ life' = [life EXCEPT ![e] = "live"]
        /\ UNCHANGED <<serving, q, sent, got, index, frame, asio, sock, wire>>
        /\ reader' = [reader EXCEPT ![e] = "reading"]
    BY <1>5 DEF HandleAccept, AsioFree, Unaccepted
  <2>2. \A d \in End : /\ life'[d] = (IF d = e THEN "live" ELSE life[d])
                       /\ d # e => reader'[d] = reader[d]
    BY <2>1 DEF TypeInv, TypeOK
  <2>3. ~Blocked(e)
    BY <2>1 DEF ChannelInv, BlockInv
  <2>4. Calm
    BY <2>1, <2>2, <2>3, CalmLife DEF Whole
  <2>5. SockInv'
    BY <2>1, <2>2, SockStep DEF ChannelInv
  <2> QED
    BY <2>1, <2>4, <2>5, CalmChannelInv
<1> QED
  BY <1>2, <1>3, <1>4, <1>5

\* Steps that move frames or bytes do so in one direction of one session.
LEMMA OneDirection ==
    ASSUME TypeInv, ChannelInv, NEW d \in End,
           UNCHANGED <<life, sock, reader, serving>>,
           \A x \in End : x # d => UNCHANGED <<sent[x], q[x], got[x], wire[x], index[Far(x)],
                                               frame[Far(x)], Blocked(Far(x))>>,
           AsioInv', QueueInv(d)', BlockInv(Far(d))', ReadInv(Far(d))'
    PROVE  ChannelInv'
<1>1. SockInv'
  BY DEF ChannelInv, SockInv
<1>2. ASSUME NEW x \in End
      PROVE  QueueInv(x)' /\ BlockInv(Far(x))' /\ ReadInv(Far(x))'
  <2>1. CASE x # d
    <3>1. /\ UNCHANGED <<sent[x], q[x], got[x], wire[x], index[Far(x)], frame[Far(x)],
                         Blocked(Far(x))>>
          /\ UNCHANGED <<life[x], sock[x], life[Far(x)], reader[Far(x)], serving>>
      BY <2>1
    <3>2. /\ QueueInv(x) /\ BlockInv(Far(x)) /\ ReadInv(Far(x))
          /\ Far(Far(x)) = x
      BY EndTypes DEF ChannelInv
    <3>3. QueueInv(x)'
      BY <3>1, <3>2 DEF QueueInv, Popped
    <3>4. BlockInv(Far(x))'
      BY <3>1, <3>2 DEF BlockInv
    <3>5. ReadInv(Far(x))'
      <4>1. UNCHANGED <<Receiving(Far(x)), Taken(Far(x)), Popped(x), Whole(x)>>
        BY <3>1, <3>2 DEF Receiving, ReceiveStopped, Taken, Popped, Whole
      <4> QED
        BY <3>1, <3>2, <4>1 DEF ReadInv, InPlace, InOrder
    <3> QED
      BY <3>3, <3>4, <3>5
  <2> QED
    BY <2>1
<1>3. ASSUME NEW y \in End
      PROVE  QueueInv(y)' /\ BlockInv(y)' /\ ReadInv(y)'
  <2>1. Far(y) \in End /\ Far(Far(y)) = y
    BY EndTypes
  <2>2. QueueInv(y)' /\ BlockInv(Far(Far(y)))' /\ ReadInv(Far(Far(y)))'
    BY <1>2, <2>1
  <2> QED
    BY <2>1, <2>2
<1> QED
  BY <1>1, <1>3 DEF ChannelInv

LEMMA PushFrameChannelInv ==
    ASSUME TypeInv, TypeInv', ChannelInv, NEW t \in Thread, PushFrame(t)
    PROVE  ChannelInv'
<1>0. PICK e \in End : e = ptr[t]
  BY DEF PushFrame, CanPush, TypeInv, TypeOK
<1>1. /\ q' = [q EXCEPT ![e] = Append(q[e], sent[e] + 1)]
      /\ sent' = [sent EXCEPT ![e] = sent[e] + 1]
      /\ UNCHANGED <<life, sock, reader, serving, got, wire, index, frame, asio>>
  BY <1>0 DEF PushFrame, readVars, netVars
<1>2. /\ q[e] \in Seq(Nat) /\ Len(q[e]) \in Nat /\ sent[e] \in Nat /\ got[e] \in Nat
      /\ Far(e) \in End /\ Far(Far(e)) = e
  BY <1>1, EndTypes
<1>3. q'[e] = Append(q[e], sent[e] + 1) /\ sent'[e] = sent[e] + 1
  BY <1>1 DEF TypeInv, TypeOK
<1>4. /\ Len(q'[e]) = Len(q[e]) + 1
      /\ \A i \in 1..Len(q[e]) : q'[e][i] = q[e][i]
      /\ q'[e][Len(q[e]) + 1] = sent[e] + 1
  BY <1>2, <1>3, AppendProperties
<1>5. QueueInv(e) /\ BlockInv(Far(e)) /\ ReadInv(Far(e))
  BY <1>1, <1>2 DEF ChannelInv
<1>6. Popped(e)' = Popped(e)
  BY SMTT(30), <1>2, <1>3, <1>4 DEF Popped
<1>7. QueueInv(e)'
  <2>1. Len(q'[e]) <= sent'[e] /\ got'[e] <= sent'[e]
    BY <1>1, <1>2, <1>3, <1>4, <1>5 DEF QueueInv
  <2>2. ASSUME life[e] # "gone", NEW i \in 1..Len(q'[e])
        PROVE  q'[e][i] = Popped(e) + i
    <3>1. CASE i \in 1..Len(q[e])
      BY <1>4, <1>5, <2>2, <3>1 DEF QueueInv
    <3>2. CASE i = Len(q[e]) + 1
      BY <1>2, <1>4, <3>2 DEF Popped
    <3> QED
      BY <1>2, <1>4, <3>1, <3>2
  <2> QED
    BY <1>1, <1>6, <2>1, <2>2 DEF QueueInv
<1>8. BlockInv(Far(e))'
  BY <1>1, <1>2, <1>3, <1>5 DEF BlockInv, Blocked
<1>9. ReadInv(Far(e))'
  BY <1>1, <1>2, <1>5, <1>6
     DEF ReadInv, Receiving, ReceiveStopped, Taken, Blocked, InPlace, InOrder, Whole
<1>10. AsioInv'
  BY <1>1 DEF ChannelInv, AsioInv
<1>11. \A x \in End : x # e => UNCHANGED <<sent[x], q[x], got[x], wire[x], index[Far(x)],
                                           frame[Far(x)], Blocked(Far(x))>>
  BY <1>1 DEF Blocked, TypeInv, TypeOK
<1> QED
  BY <1>1, <1>7, <1>8, <1>9, <1>10, <1>11, OneDirection

LEMMA FirstOfSequence ==
    ASSUME NEW S, NEW s \in Seq(S), s # <<>>
    PROVE  /\ Len(s) \in Nat /\ 1 <= Len(s) /\ Head(s) = s[1]
           /\ Len(Tail(s)) = Len(s) - 1
           /\ \A i \in 1..(Len(s) - 1) : Tail(s)[i] = s[i + 1]
<1>1. Len(s) \in Nat /\ Len(s) # 0
  BY LenProperties, EmptySeq
<1>2. Head(s) = s[1]
  OBVIOUS
<1> QED
  BY <1>1, <1>2, HeadTailProperties

LEMMA PartsOfSequence ==
    ASSUME NEW S, NEW s \in Seq(S), NEW u \in Seq(S)
    PROVE  /\ Len(s) \in Nat /\ Len(u) \in Nat /\ Len(s \o u) = Len(s) + Len(u)
           /\ \A k \in 1..Len(s) : (s \o u)[k] = s[k]
           /\ \A k \in 1..Len(u) : (s \o u)[Len(s) + k] = u[k]
<1>1. Len(s) \in Nat /\ Len(u) \in Nat
  BY LenProperties
<1>2. \A k \in 1..(Len(s) + Len(u)) :
         (s \o u)[k] = IF k <= Len(s) THEN s[k] ELSE u[k - Len(s)]
  BY ConcatProperties
<1>3. \A k \in 1..Len(s) : (s \o u)[k] = s[k]
  BY <1>1, <1>2
<1>4. ASSUME NEW k \in 1..Len(u) PROVE (s \o u)[Len(s) + k] = u[k]
  <2>1. Len(s) + k \in 1..(Len(s) + Len(u)) /\ ~(Len(s) + k <= Len(s))
        /\ (Len(s) + k) - Len(s) = k
    BY <1>1
  <2> QED
    BY <1>2, <2>1
<1> QED
  BY <1>1, <1>3, <1>4, ConcatProperties

LEMMA PopFrameChannelInv ==
    ASSUME TypeInv, TypeInv', CoreInv, ChannelInv, NEW e \in End, PopFrame(e)
    PROVE  ChannelInv'
<1>1. /\ writer[e] = "pop" /\ q[e] # <<>> /\ q' = [q EXCEPT ![e] = Tail(@)]
      /\ wire' = [wire EXCEPT ![e] = IF sock[e] = "up" THEN @ \o Bytes(Head(q[e])) ELSE @]
      /\ UNCHANGED <<life, sock, reader, serving, sent, got, index, frame, asio>>
  BY DEF PopFrame, Pop, readVars
<1>2. /\ q[e] \in Seq(Nat) /\ Len(q[e]) \in Nat /\ sent[e] \in Nat /\ got[e] \in Nat
      /\ wire[e] \in Seq(ByteType) /\ Len(wire[e]) \in Nat
      /\ Far(e) \in End /\ Far(Far(e)) = e /\ index[Far(e)] \in Nat
  BY EndTypes
<1>3. /\ q'[e] = Tail(q[e])
      /\ wire'[e] = IF sock[e] = "up" THEN wire[e] \o Bytes(Head(q[e])) ELSE wire[e]
  BY <1>1 DEF TypeInv, TypeOK
<1>4. /\ 1 <= Len(q[e]) /\ Len(q'[e]) = Len(q[e]) - 1 /\ Head(q[e]) = q[e][1]
      /\ \A i \in 1..(Len(q[e]) - 1) : q'[e][i] = q[e][i + 1]
  BY <1>1, <1>2, <1>3, FirstOfSequence
<1>5. QueueInv(e) /\ BlockInv(Far(e)) /\ ReadInv(Far(e))
  BY <1>2 DEF ChannelInv
<1>6. life[e] = "live" /\ sock[e] # "none"
  BY <1>1 DEF CoreInv, SessionInv, ChannelInv, SockInv, TypeInv, TypeOK
<1>7. /\ Popped(e) \in Nat /\ Popped(e)' = Popped(e) + 1
      /\ Popped(e) * FrameLength \in Nat
      /\ Popped(e)' * FrameLength = Popped(e) * FrameLength + FrameLength
  <2>1. Popped(e) \in Nat /\ Popped(e)' = Popped(e) + 1
    BY <1>1, <1>2, <1>4, <1>5 DEF Popped, QueueInv
  <2> QED
    BY <2>1, MultipleFacts
<1>8. QueueInv(e)'
  <2>1. Len(q'[e]) <= sent'[e] /\ got'[e] <= sent'[e]
    BY <1>1, <1>2, <1>4, <1>5 DEF QueueInv
  <2>2. ASSUME NEW i \in 1..Len(q'[e])
        PROVE  q'[e][i] = Popped(e)' + i
    <3>1. i \in 1..(Len(q[e]) - 1) /\ i + 1 \in 1..Len(q[e])
      BY <1>2, <1>4
    <3>2. q'[e][i] = q[e][i + 1] /\ q[e][i + 1] = Popped(e) + (i + 1)
      BY <1>4, <1>5, <1>6, <3>1 DEF QueueInv
    <3> QED
      BY <1>7, <3>2
  <2> QED
    BY <2>1, <2>2 DEF QueueInv
<1>9. BlockInv(Far(e))'
  BY <1>1, <1>5 DEF BlockInv, Blocked
<1>10. ReadInv(Far(e))'
  <2> SUFFICES ASSUME Receiving(Far(e))
               PROVE  /\ InPlace(Far(e), e, Taken(Far(e)) * FrameLength)'
                      /\ InOrder(Far(e), e, Taken(Far(e)) * FrameLength)'
    BY <1>1, <1>2 DEF ReadInv, Receiving, ReceiveStopped
  <2>1. PICK start \in Nat : /\ start = Taken(Far(e)) * FrameLength
                             /\ start = (Taken(Far(e)) * FrameLength)'
    BY <1>1, <1>2, TakenType DEF Taken, Blocked
  <2>2. InPlace(Far(e), e, start) /\ InOrder(Far(e), e, start)
    BY <1>2, <1>5, <2>1 DEF ReadInv
  <2>3. /\ \A k \in 1..Len(wire'[e]) : wire'[e][k] = Byte(start + index[Far(e)] + k)
        /\ start + index[Far(e)] + Len(wire'[e]) <= Popped(e)' * FrameLength
        /\ Whole(e)' => start + index[Far(e)] + Len(wire'[e]) = Popped(e)' * FrameLength
    <3>1. FrameLength \in Nat
      BY ConnectionAssumption
    <3>2. CASE sock[e] = "up"
      <4>1. start + index[Far(e)] + Len(wire[e]) = Popped(e) * FrameLength
        BY <1>6, <2>2, <3>2 DEF InOrder, Whole
      <4>2. Head(q[e]) = Popped(e) + 1
        BY <1>2, <1>4, <1>5, <1>6 DEF QueueInv
      <4>3. PICK b \in Seq(ByteType) :
               /\ b = Bytes(Popped(e) + 1)
               /\ b = [i \in 1..FrameLength |-> Byte(Popped(e) * FrameLength + i)]
        <5>1. Popped(e) + 1 \in Nat
          BY <1>7
        <5>2. Bytes(Popped(e) + 1) \in Seq(ByteType)
          BY <5>1, BytesType
        <5>3. Bytes(Popped(e) + 1) = [i \in 1..FrameLength |-> Byte(Popped(e) * FrameLength + i)]
          BY <1>7, BytesAreInPlace
        <5> QED
          BY <5>2, <5>3
      <4>4. Len(b) = FrameLength
        BY <3>1, <4>3
      <4>5. wire'[e] = wire[e] \o b
        BY <1>3, <3>2, <4>2, <4>3
      <4>6. /\ Len(wire'[e]) = Len(wire[e]) + FrameLength
            /\ \A k \in 1..Len(wire[e]) : wire'[e][k] = wire[e][k]
            /\ \A k \in 1..FrameLength : wire'[e][Len(wire[e]) + k] = b[k]
        <5>1. /\ Len(wire[e] \o b) = Len(wire[e]) + Len(b)
              /\ \A k \in 1..Len(wire[e]) : (wire[e] \o b)[k] = wire[e][k]
              /\ \A k \in 1..Len(b) : (wire[e] \o b)[Len(wire[e]) + k] = b[k]
          BY <1>2, PartsOfSequence
        <5> QED
          BY <4>4, <4>5, <5>1
      <4>7. ASSUME NEW k \in 1..Len(wire'[e])
            PROVE  wire'[e][k] = Byte(start + index[Far(e)] + k)
        <5>1. CASE k \in 1..Len(wire[e])
          BY <2>2, <4>6, <5>1 DEF InPlace
        <5>2. CASE k \notin 1..Len(wire[e])
          <6> DEFINE i == k - Len(wire[e])
          <6>1. i \in 1..FrameLength /\ k = Len(wire[e]) + i
            BY <1>2, <3>1, <4>6, <5>2
          <6>2. wire'[e][k] = Byte(Popped(e) * FrameLength + i)
            BY <4>3, <4>6, <6>1
          <6>3. Popped(e) * FrameLength + i = start + index[Far(e)] + k
            BY SMTT(30), <1>2, <1>7, <4>1
          <6> QED
            BY <6>2, <6>3
        <5> QED
          BY <5>1, <5>2
      <4>8. start + index[Far(e)] + Len(wire'[e]) = Popped(e)' * FrameLength
        BY SMTT(30), <1>2, <1>7, <3>1, <4>1, <4>6
      <4>9. Popped(e)' * FrameLength \in Nat
        BY <1>7, <3>1
      <4> QED
        BY <4>7, <4>8, <4>9
    <3>3. CASE sock[e] # "up"
      <4>1. wire'[e] = wire[e] /\ ~Whole(e)'
        BY <1>1, <1>3, <1>6, <3>3 DEF Whole
      <4>2. start + index[Far(e)] + Len(wire[e]) <= Popped(e) * FrameLength
        BY <2>2 DEF InOrder
      <4>3. start + index[Far(e)] + Len(wire[e]) <= Popped(e)' * FrameLength
        BY SMTT(30), <1>2, <1>7, <3>1, <4>2
      <4> QED
        BY <2>2, <4>1, <4>3 DEF InPlace
    <3> QED
      BY <3>2, <3>3
  <2>4. index' = index /\ frame' = frame
    BY <1>1
  <2>5. InPlace(Far(e), e, Taken(Far(e)) * FrameLength)'
    BY <2>1, <2>2, <2>3, <2>4 DEF InPlace
  <2>6. InOrder(Far(e), e, Taken(Far(e)) * FrameLength)'
    BY <2>1, <2>3, <2>4 DEF InOrder
  <2> QED
    BY <2>5, <2>6
<1>11. AsioInv'
  BY <1>1 DEF ChannelInv, AsioInv
<1>12. \A x \in End : x # e => UNCHANGED <<sent[x], q[x], got[x], wire[x], index[Far(x)],
                                           frame[Far(x)], Blocked(Far(x))>>
  BY <1>1 DEF Blocked, TypeInv, TypeOK
<1> QED
  BY <1>1, <1>8, <1>9, <1>10, <1>11, <1>12, OneDirection

LEMMA ResetChannelInv ==
    ASSUME TypeInv, TypeInv', ChannelInv, NEW e \in End, Reset(e)
    PROVE  ChannelInv'
<1>1. /\ sock[e] = "up" /\ sock[Far(e)] = "shut"
      /\ sock' = [sock EXCEPT ![e] = "reset"]
      /\ wire' = [wire EXCEPT ![e] = <<>>, ![Far(e)] = <<>>]
      /\ UNCHANGED <<life, reader, serving, q, sent, got, index, frame, asio>>
  BY DEF Reset, queueVars, readVars
<1>2. \A d \in End : sock'[d] = (IF d = e THEN "reset" ELSE sock[d])
  BY <1>1 DEF TypeInv, TypeOK
<1>3. \A d \in End : wire'[d] = (IF d \in {e, Far(e)} THEN <<>> ELSE wire[d])
  <2>1. Far(e) \in End /\ wire \in [End -> Seq(ByteType)]
    BY EndTypes DEF TypeInv
  <2> QED
    BY <1>1, <2>1
<1>4. SockInv'
  BY <1>1, <1>2, SockStep DEF ChannelInv
<1>5. AsioInv'
  BY <1>1 DEF ChannelInv, AsioInv
<1>6. ASSUME NEW r \in End
      PROVE  QueueInv(r)' /\ BlockInv(r)' /\ ReadInv(r)'
  <2>1. Far(r) \in End /\ QueueInv(r) /\ BlockInv(r) /\ ReadInv(r) /\ QueueInv(Far(r))
    BY EndTypes DEF ChannelInv
  <2>2. QueueInv(r)' /\ BlockInv(r)'
    BY <1>1, <2>1 DEF QueueInv, Popped, BlockInv, Blocked
  <2>3. UNCHANGED <<Receiving(r), Taken(r), Popped(Far(r))>>
    BY <1>1 DEF Receiving, ReceiveStopped, Taken, Blocked, Popped
  <2>4. Whole(Far(r))' => Whole(Far(r)) /\ wire'[Far(r)] = wire[Far(r)]
    <3>1. Far(r) # e /\ Far(r) # Far(e) => wire'[Far(r)] = wire[Far(r)]
      BY <1>3, <2>1
    <3>2. Far(r) \in {e, Far(e)} => sock'[Far(r)] \in {"reset", "shut"}
      BY <1>1, <1>2, <2>1
    <3> QED
      BY <1>1, <1>2, <2>1, <3>1, <3>2 DEF Whole
  <2>5. Len(wire'[Far(r)]) <= Len(wire[Far(r)])
    BY <1>3, <2>1, EndTypes
  <2>6. /\ Taken(r) * FrameLength \in Nat /\ Popped(Far(r)) * FrameLength \in Nat
        /\ index[r] \in Nat /\ Len(wire[Far(r)]) \in Nat /\ Len(wire'[Far(r)]) \in Nat
    BY <1>3, <2>1, EndTypes, TakenType, PoppedType
  <2>7. ReadInv(r)'
    <3> SUFFICES ASSUME Receiving(r)
                 PROVE  /\ InPlace(r, Far(r), Taken(r) * FrameLength)'
                        /\ InOrder(r, Far(r), Taken(r) * FrameLength)'
      BY <2>3 DEF ReadInv
    <3>1. /\ InPlace(r, Far(r), Taken(r) * FrameLength)
          /\ InOrder(r, Far(r), Taken(r) * FrameLength)
      BY <2>1 DEF ReadInv
    <3>2. InPlace(r, Far(r), Taken(r) * FrameLength)'
      <4>1. \A k \in 1..Len(wire'[Far(r)]) : /\ k \in 1..Len(wire[Far(r)])
                                             /\ wire'[Far(r)][k] = wire[Far(r)][k]
        BY <1>3, <2>1, <2>6
      <4> QED
        BY <1>1, <2>3, <3>1, <4>1 DEF InPlace
    <3>3. InOrder(r, Far(r), Taken(r) * FrameLength)'
      BY <1>1, <2>3, <2>4, <2>5, <2>6, <3>1 DEF InOrder
    <3> QED
      BY <3>2, <3>3
  <2> QED
    BY <2>2, <2>7
<1> QED
  BY <1>4, <1>5, <1>6 DEF ChannelInv

\* What one read moves from the wire to the buffer stays in its place.
LEMMA ReadBytes ==
    ASSUME TypeInv, NEW r \in End, NEW j \in Readable(r)
    PROVE  /\ \A x \in End : x # Far(r) => Consumed(r, j)[x] = wire[x]
           /\ Len(Consumed(r, j)[Far(r)]) = Len(wire[Far(r)]) - j
           /\ \A start \in Nat : InPlace(r, Far(r), start) =>
                /\ \A i \in 1..(index[r] + j) : FilledBy(r, j)[i] = Byte(start + i)
                /\ \A k \in 1..Len(Consumed(r, j)[Far(r)]) :
                      Consumed(r, j)[Far(r)][k] = Byte(start + (index[r] + j) + k)
<1> DEFINE w == wire[Far(r)]
<1>1. /\ Far(r) \in End /\ wire \in [End -> Seq(ByteType)] /\ w \in Seq(ByteType)
      /\ Len(w) \in Nat /\ index[r] \in Nat /\ FrameLength \in Nat
  <2>1. Far(r) \in End
    BY EndTypes
  <2> QED
    BY <2>1, EndTypes, ConnectionAssumption DEF TypeInv
<1>2. j \in Nat \ {0} /\ j <= Len(w) /\ index[r] + j <= FrameLength
  BY ReadableFacts
<1>3. /\ Consumed(r, j)[Far(r)] = SubSeq(w, j + 1, Len(w))
      /\ \A x \in End : x # Far(r) => Consumed(r, j)[x] = wire[x]
  BY <1>1 DEF Consumed
<1>4. /\ Len(SubSeq(w, j + 1, Len(w))) = Len(w) - j
      /\ \A k \in 1..(Len(w) - j) : SubSeq(w, j + 1, Len(w))[k] = w[j + k]
  <2>1. \A i \in (j + 1)..Len(w) : w[i] \in ByteType
    BY <1>1, <1>2, ElementOfSeq
  <2>2. /\ Len(SubSeq(w, j + 1, Len(w))) = IF j + 1 <= Len(w) THEN Len(w) - (j + 1) + 1 ELSE 0
        /\ \A k \in 1..(Len(w) - (j + 1) + 1) :
              SubSeq(w, j + 1, Len(w))[k] = w[(j + 1) + k - 1]
    BY <1>1, <1>2, <2>1, SubSeqProperties
  <2>3. Len(w) - (j + 1) + 1 = Len(w) - j /\ \A k \in Nat : (j + 1) + k - 1 = j + k
    BY <1>1, <1>2
  <2> QED
    BY <1>1, <1>2, <2>2, <2>3
<1>5. ASSUME NEW start \in Nat, InPlace(r, Far(r), start)
      PROVE  /\ \A i \in 1..(index[r] + j) : FilledBy(r, j)[i] = Byte(start + i)
             /\ \A k \in 1..(Len(w) - j) : w[j + k] = Byte(start + (index[r] + j) + k)
  <2>1. /\ \A i \in 1..index[r] : frame[r][i] = Byte(start + i)
        /\ \A k \in 1..Len(w) : w[k] = Byte(start + index[r] + k)
    BY <1>5 DEF InPlace
  <2>2. ASSUME NEW i \in 1..(index[r] + j) PROVE FilledBy(r, j)[i] = Byte(start + i)
    <3>1. i \in 1..FrameLength
      BY <1>1, <1>2
    <3>2. CASE i \in 1..index[r]
      <4>1. i \notin (index[r] + 1)..(index[r] + j)
        BY <1>1, <1>2, <3>2
      <4> QED
        BY <2>1, <3>1, <3>2, <4>1 DEF FilledBy
    <3>3. CASE i \notin 1..index[r]
      <4>1. /\ i \in (index[r] + 1)..(index[r] + j) /\ i - index[r] \in 1..Len(w)
            /\ start + index[r] + (i - index[r]) = start + i
        BY <1>1, <1>2, <3>3
      <4>2. w[i - index[r]] = Byte(start + index[r] + (i - index[r]))
        BY <2>1, <4>1
      <4> QED
        BY <3>1, <4>1, <4>2 DEF FilledBy
    <3> QED
      BY <3>2, <3>3
  <2>3. ASSUME NEW k \in 1..(Len(w) - j) PROVE w[j + k] = Byte(start + (index[r] + j) + k)
    <3>1. j + k \in 1..Len(w) /\ start + index[r] + (j + k) = start + (index[r] + j) + k
      BY <1>1, <1>2
    <3>2. w[j + k] = Byte(start + index[r] + (j + k))
      BY <2>1, <3>1
    <3> QED
      BY <3>1, <3>2
  <2> QED
    BY <2>2, <2>3
<1> HIDE DEF w
<1>6. /\ Len(Consumed(r, j)[Far(r)]) = Len(w) - j
      /\ \A k \in 1..(Len(w) - j) : Consumed(r, j)[Far(r)][k] = w[j + k]
  BY <1>3, <1>4
<1>7. /\ Len(Consumed(r, j)[Far(r)]) = Len(wire[Far(r)]) - j
  BY <1>6 DEF w
<1>8. ASSUME NEW start \in Nat, InPlace(r, Far(r), start)
      PROVE  /\ \A i \in 1..(index[r] + j) : FilledBy(r, j)[i] = Byte(start + i)
             /\ \A k \in 1..Len(Consumed(r, j)[Far(r)]) :
                   Consumed(r, j)[Far(r)][k] = Byte(start + (index[r] + j) + k)
  BY <1>5, <1>6, <1>8
<1> QED
  BY <1>3, <1>7, <1>8

LEMMA ReadPartChannelInv ==
    ASSUME TypeInv, TypeInv', ChannelInv, NEW r \in End, ReadPart(r)
    PROVE  ChannelInv'
<1> DEFINE d == Far(r)
<1>1. d \in End /\ Far(d) = r /\ Null \notin End
  BY EndTypes, EndFacts
<1>2. PICK j \in Readable(r) : /\ index' = [index EXCEPT ![r] = @ + j]
                               /\ frame' = [frame EXCEPT ![r] = FilledBy(r, j)]
                               /\ wire' = Consumed(r, j)
  BY DEF ReadPart
<1>3. /\ asio[r[2]] = Null
      /\ UNCHANGED <<life, sock, reader, serving, q, sent, got, asio>>
  BY DEF ReadPart, Reading, AsioFree, queueVars
<1>4. /\ index'[r] = index[r] + j /\ frame'[r] = FilledBy(r, j)
      /\ \A x \in End : x # r => index'[x] = index[x] /\ frame'[x] = frame[x]
  BY <1>2 DEF TypeInv, TypeOK
<1>5. /\ index[r] \in Nat /\ j \in Nat /\ Len(wire[d]) \in Nat
      /\ Len(wire'[d]) = Len(wire[d]) - j
      /\ \A x \in End : x # d => wire'[x] = wire[x]
  BY <1>1, <1>2, EndTypes, ReadableFacts, ReadBytes
<1>6. QueueInv(d)' /\ BlockInv(r)' /\ AsioInv'
  BY <1>1, <1>3 DEF ChannelInv, QueueInv, Popped, BlockInv, Blocked, AsioInv
<1>7. ReadInv(r)'
  <2> SUFFICES ASSUME Receiving(r)
               PROVE  /\ InPlace(r, d, Taken(r) * FrameLength)'
                      /\ InOrder(r, d, Taken(r) * FrameLength)'
    BY <1>3 DEF ReadInv, Receiving, ReceiveStopped
  <2>1. PICK start \in Nat : /\ start = Taken(r) * FrameLength
                             /\ start = (Taken(r) * FrameLength)'
    BY <1>3, TakenType DEF Taken, Blocked
  <2>2. InPlace(r, d, start) /\ InOrder(r, d, start)
    BY <2>1 DEF ChannelInv, ReadInv
  <2>3. InPlace(r, d, Taken(r) * FrameLength)'
    <3>1. /\ \A i \in 1..(index[r] + j) : FilledBy(r, j)[i] = Byte(start + i)
          /\ \A k \in 1..Len(Consumed(r, j)[d]) :
                Consumed(r, j)[d][k] = Byte(start + (index[r] + j) + k)
      BY <2>2, ReadBytes
    <3> QED
      BY <1>2, <1>4, <2>1, <3>1 DEF InPlace
  <2>4. InOrder(r, d, Taken(r) * FrameLength)'
    <3>1. start + index'[r] + Len(wire'[d]) = start + index[r] + Len(wire[d])
      BY <1>4, <1>5
    <3>2. UNCHANGED <<Popped(d), Whole(d)>>
      BY <1>3 DEF Popped, Whole
    <3> QED
      BY <2>1, <2>2, <3>1, <3>2 DEF InOrder
  <2> QED
    BY <2>3, <2>4
<1>8. \A x \in End : x # d => UNCHANGED <<sent[x], q[x], got[x], wire[x], index[Far(x)],
                                          frame[Far(x)], Blocked(Far(x))>>
  BY <1>1, <1>3, <1>4, <1>5, EndTypes DEF Blocked
<1> QED
  BY <1>1, <1>3, <1>6, <1>7, <1>8, OneDirection

\* A frame of which all bytes have come is the one after the last.
LEMMA WholeFrame ==
    ASSUME TypeInv, ChannelInv, NEW r \in End, Reading(r), ~ReceiveStopped(r[2]),
           NEW j \in Readable(r), index[r] + j = FrameLength
    PROVE  /\ Taken(r) = got[Far(r)] /\ got[Far(r)] + 1 <= sent[Far(r)]
           /\ FilledBy(r, j) = Bytes(got[Far(r)] + 1)
           /\ NumberOf(FilledBy(r, j)) = got[Far(r)] + 1
<1> DEFINE d == Far(r)
<1>1. /\ d \in End /\ Null \notin End /\ got[d] \in Nat /\ sent[d] \in Nat /\ index[r] \in Nat
      /\ FrameLength \in Nat /\ Len(wire[d]) \in Nat /\ j \in Nat /\ j <= Len(wire[d])
  BY EndTypes, EndFacts, ReadableFacts, ConnectionAssumption
<1>2. asio[r[2]] = Null /\ life[r] = "live"
  BY DEF Reading, AsioFree
<1>3. Taken(r) = got[d]
  BY <1>1, <1>2 DEF Taken, Blocked
<1>4. PICK start \in Nat : start = got[d] * FrameLength
  BY <1>1, MultipleFacts
<1>5. InPlace(r, d, start) /\ InOrder(r, d, start)
  BY <1>2, <1>3, <1>4 DEF ChannelInv, ReadInv, Receiving
<1>6. FilledBy(r, j) = Bytes(got[d] + 1)
  <2>1. \A i \in 1..FrameLength : FilledBy(r, j)[i] = Byte(start + i)
    BY <1>5, ReadBytes
  <2>2. FilledBy(r, j) = [i \in 1..FrameLength |-> Byte(start + i)]
    BY <2>1 DEF FilledBy
  <2>3. Bytes(got[d] + 1) = [i \in 1..FrameLength |-> Byte(start + i)]
    BY <1>1, <1>4, BytesAreInPlace
  <2> QED
    BY <2>2, <2>3
<1>7. got[d] + 1 <= sent[d]
  <2>1. Popped(d) \in Nat /\ Popped(d) <= sent[d]
    BY <1>1, PoppedType DEF ChannelInv
  <2>2. start + FrameLength <= Popped(d) * FrameLength
    <3>1. Popped(d) * FrameLength \in Nat
      BY <2>1, MultipleFacts
    <3> QED
      BY <1>1, <1>5, <3>1 DEF InOrder
  <2>3. Popped(d) <= got[d] => Popped(d) * FrameLength <= start
    BY <1>1, <1>4, <2>1, MultipleGrows
  <2>4. FrameLength > 0 /\ Popped(d) * FrameLength \in Nat
    BY <2>1, MultipleFacts, ConnectionAssumption
  <2>5. ~(Popped(d) <= got[d])
    BY <1>1, <2>2, <2>3, <2>4
  <2> QED
    BY <1>1, <2>1, <2>5
<1>8. NumberOf(FilledBy(r, j)) = got[d] + 1
  BY <1>1, <1>6, NumberOfBytes
<1> QED
  BY <1>3, <1>6, <1>7, <1>8

LEMMA ReadLastChannelInv ==
    ASSUME TypeInv, TypeInv', ChannelInv, NEW r \in End, ReadLast(r)
    PROVE  ChannelInv'
<1> DEFINE d == Far(r)
<1>1. d \in End /\ Far(d) = r /\ Null \notin End /\ r[2] \in Side /\ r # Null
  BY EndTypes, EndFacts
<1>2. PICK j \in Readable(r) : /\ index[r] + j = FrameLength
                               /\ index' = [index EXCEPT ![r] = 0]
                               /\ frame' = [frame EXCEPT ![r] = FilledBy(r, j)]
                               /\ wire' = Consumed(r, j)
                               /\ Receive(r, NumberOf(FilledBy(r, j)))
  BY DEF ReadLast
<1>3. /\ Reading(r) /\ asio[r[2]] = Null /\ life[r] = "live" /\ reader[r] = "reading"
      /\ UNCHANGED <<life, sock, reader, serving, q, sent>>
  BY DEF ReadLast, Reading, AsioFree, queueVars
<1>4. /\ index'[r] = 0 /\ frame'[r] = FilledBy(r, j)
      /\ \A x \in End : x # r => index'[x] = index[x] /\ frame'[x] = frame[x]
  BY <1>2 DEF TypeInv, TypeOK
<1>5. /\ index[r] \in Nat /\ j \in Nat /\ Len(wire[d]) \in Nat /\ FrameLength \in Nat
      /\ Len(wire'[d]) = Len(wire[d]) - j
      /\ \A x \in End : x # d => wire'[x] = wire[x]
      /\ got[d] \in Nat /\ sent[d] \in Nat
  BY <1>1, <1>2, EndTypes, ReadableFacts, ReadBytes, ConnectionAssumption
<1>6. QueueInv(d) /\ AsioInv
  BY <1>1 DEF ChannelInv
<1>7. CASE ReceiveStopped(r[2])
  <2>1. UNCHANGED <<got, asio>>
    BY <1>2, <1>7 DEF Receive
  <2>2. QueueInv(d)' /\ BlockInv(r)' /\ AsioInv'
    BY <1>1, <1>3, <1>6, <2>1 DEF QueueInv, Popped, BlockInv, Blocked, AsioInv
  <2>3. ReadInv(r)'
    BY <1>3, <1>7 DEF ReadInv, Receiving, ReceiveStopped
  <2>4. \A x \in End : x # d => UNCHANGED <<sent[x], q[x], got[x], wire[x], index[Far(x)],
                                            frame[Far(x)], Blocked(Far(x))>>
    BY <1>1, <1>3, <1>4, <1>5, <2>1, EndTypes DEF Blocked
  <2> QED
    BY <1>1, <1>3, <2>2, <2>3, <2>4, OneDirection
<1>8. CASE ~ReceiveStopped(r[2])
  <2>1. /\ Taken(r) = got[d] /\ got[d] + 1 <= sent[d]
        /\ FilledBy(r, j) = Bytes(got[d] + 1) /\ NumberOf(FilledBy(r, j)) = got[d] + 1
    BY <1>2, <1>3, <1>8, WholeFrame
  <2>2. \/ asio' = [asio EXCEPT ![r[2]] = r] /\ got' = got
        \/ asio' = asio /\ got' = [got EXCEPT ![d] = got[d] + 1]
    <3>1. Counted(d, NumberOf(FilledBy(r, j))) = [got EXCEPT ![d] = got[d] + 1]
      <4>1. d \in End /\ got[d] + 1 \in Nat
        BY EndTypes
      <4> QED
        BY <2>1, <4>1, CountedType
    <3> QED
      BY <1>2, <1>8, <3>1 DEF Receive
  <2>3. /\ \A x \in End : x # d => got'[x] = got[x]
        /\ got'[d] = (IF Blocked(r)' THEN got[d] ELSE got[d] + 1)
        /\ \A x \in Side : x # r[2] => asio'[x] = asio[x]
        /\ asio'[r[2]] \in {r, Null}
    <3>1. got \in [End -> Nat] /\ asio \in [Side -> End \cup {Null}]
      BY DEF TypeInv, TypeOK
    <3>2. CASE asio' = [asio EXCEPT ![r[2]] = r] /\ got' = got
      BY <1>1, <3>1, <3>2 DEF Blocked
    <3>3. CASE asio' = asio /\ got' = [got EXCEPT ![d] = got[d] + 1]
      BY <1>1, <1>3, <3>1, <3>3 DEF Blocked
    <3> QED
      BY <2>2, <3>2, <3>3
  <2>4. Taken(r)' = got[d] + 1
    BY <1>1, <1>5, <2>3 DEF Taken
  <2>5. QueueInv(d)'
    BY <1>3, <1>5, <1>6, <2>1, <2>3 DEF QueueInv, Popped
  <2>6. BlockInv(r)'
    BY <1>3, <1>4, <2>1, <2>3 DEF BlockInv
  <2>7. AsioInv'
    BY <2>3, <1>6 DEF AsioInv
  <2>8. ReadInv(r)'
    <3>1. PICK start \in Nat : start = got[d] * FrameLength
      BY <1>5, MultipleFacts
    <3>2. InPlace(r, d, start) /\ InOrder(r, d, start)
      BY <1>3, <1>8, <2>1, <3>1 DEF ChannelInv, ReadInv, Receiving
    <3>3. (Taken(r) * FrameLength)' = start + FrameLength
      BY <1>5, <2>4, <3>1, MultipleFacts
    <3>4. InPlace(r, d, Taken(r) * FrameLength)'
      <4>1. \A k \in 1..Len(Consumed(r, j)[d]) :
               Consumed(r, j)[d][k] = Byte(start + (index[r] + j) + k)
        BY <3>2, ReadBytes
      <4>2. Len(wire'[d]) \in Nat
        BY <1>5, <1>2, ReadableFacts
      <4>3. ASSUME NEW k \in 1..Len(wire'[d])
            PROVE  wire'[d][k] = Byte((start + FrameLength) + index'[r] + k)
        <5>1. (start + FrameLength) + index'[r] + k = start + (index[r] + j) + k
          BY <1>2, <1>4, <1>5, <4>2
        <5> QED
          BY <1>2, <4>1, <5>1
      <4>4. 1..index'[r] = {}
        BY <1>4
      <4> QED
        BY <3>3, <4>3, <4>4 DEF InPlace
    <3>5. InOrder(r, d, Taken(r) * FrameLength)'
      <4>1. (start + FrameLength) + index'[r] + Len(wire'[d]) = start + index[r] + Len(wire[d])
        <5>1. PICK n \in Nat : n = Len(wire[d])
          BY <1>5
        <5>2. PICK i \in Nat : i = index[r]
          BY <1>5
        <5>3. Len(wire'[d]) = n - j /\ index'[r] = 0 /\ i + j = FrameLength /\ j \in Nat
          BY <1>2, <1>4, <1>5, <5>1, <5>2
        <5>4. (start + (i + j)) + 0 + (n - j) = start + i + n
          BY <5>3
        <5> QED
          BY <5>1, <5>2, <5>3, <5>4
      <4>2. UNCHANGED <<Popped(d), Whole(d)>>
        BY <1>3 DEF Popped, Whole
      <4> QED
        BY <3>2, <3>3, <4>1, <4>2 DEF InOrder
    <3> QED
      BY <3>4, <3>5 DEF ReadInv
  <2>9. \A x \in End : x # d => UNCHANGED <<sent[x], q[x], got[x], wire[x], index[Far(x)],
                                            frame[Far(x)], Blocked(Far(x))>>
    <3> SUFFICES ASSUME NEW x \in End, x # d
                 PROVE  UNCHANGED <<sent[x], q[x], got[x], wire[x], index[Far(x)],
                                    frame[Far(x)], Blocked(Far(x))>>
      OBVIOUS
    <3>1. Far(x) \in End /\ Far(x) # r /\ Far(x) # Null /\ Far(x)[2] \in Side
      BY <1>1, EndTypes
    <3>2. Blocked(Far(x))' = Blocked(Far(x))
      BY <1>3, <2>3, <3>1 DEF Blocked
    <3> QED
      BY <1>3, <1>4, <1>5, <2>3, <3>1, <3>2
  <2> QED
    BY <1>1, <1>3, <2>5, <2>6, <2>7, <2>8, <2>9, OneDirection
<1> QED
  BY <1>7, <1>8

LEMMA ResumeChannelInv ==
    ASSUME TypeInv, TypeInv', ChannelInv, NEW s \in Side, ReceiveResume(s)
    PROVE  ChannelInv'
<1>1. PICK r \in End : r = asio[s]
  BY DEF ReceiveResume, TypeInv, TypeOK
<1> DEFINE d == Far(r)
<1>2. r[2] = s /\ d \in End /\ Far(d) = r /\ Null \notin End /\ r # Null
  BY <1>1, EndTypes, EndFacts DEF ChannelInv, AsioInv
<1>3. Blocked(r) /\ QueueInv(d) /\ BlockInv(r) /\ ReadInv(r) /\ got[d] \in Nat /\ sent[d] \in Nat
  BY <1>1, <1>2, EndTypes DEF Blocked, ChannelInv
<1>4. NumberOf(frame[r]) = got[d] + 1 /\ got[d] + 1 <= sent[d]
  BY <1>3, NumberOfBytes DEF BlockInv
<1>5. /\ got' = [got EXCEPT ![d] = got[d] + 1] /\ asio' = [asio EXCEPT ![s] = Null]
      /\ UNCHANGED <<life, sock, reader, serving, q, sent, index, frame, wire>>
  <2>1. Counted(d, NumberOf(frame[r])) = [got EXCEPT ![d] = got[d] + 1]
    <3>1. got[d] + 1 \in Nat
      BY <1>3
    <3> QED
      BY <1>2, <1>4, <3>1, CountedType
  <2> QED
    BY <1>1, <2>1 DEF ReceiveResume, queueVars, netVars
<1>6. /\ got'[d] = got[d] + 1 /\ \A x \in End : x # d => got'[x] = got[x]
      /\ asio'[s] = Null /\ \A x \in Side : x # s => asio'[x] = asio[x]
  BY <1>2, <1>5 DEF TypeInv, TypeOK
<1>7. QueueInv(d)' /\ BlockInv(r)' /\ AsioInv'
  BY <1>2, <1>3, <1>4, <1>5, <1>6 DEF QueueInv, Popped, BlockInv, Blocked, ChannelInv, AsioInv
<1>8. UNCHANGED <<Taken(r), Receiving(r), Popped(d), Whole(d)>>
  BY <1>2, <1>3, <1>5, <1>6 DEF Taken, Blocked, Receiving, ReceiveStopped, Popped, Whole
<1>9. ReadInv(r)'
  BY <1>3, <1>5, <1>8 DEF ReadInv, InPlace, InOrder
<1>10. \A x \in End : x # d => UNCHANGED <<sent[x], q[x], got[x], wire[x], index[Far(x)],
                                           frame[Far(x)], Blocked(Far(x))>>
  <2> SUFFICES ASSUME NEW x \in End, x # d
               PROVE  UNCHANGED <<sent[x], q[x], got[x], wire[x], index[Far(x)],
                                  frame[Far(x)], Blocked(Far(x))>>
    OBVIOUS
  <2>1. Far(x) \in End /\ Far(x) # r /\ Far(x) # Null /\ Far(x)[2] \in Side
    BY <1>2, EndTypes, EndFacts
  <2>2. Blocked(Far(x))' = Blocked(Far(x))
    BY <1>1, <1>6, <2>1 DEF Blocked
  <2> QED
    BY <1>5, <1>6, <2>2
<1> QED
  BY <1>2, <1>5, <1>7, <1>9, <1>10, OneDirection

-----------------------------------------------------------------------------
(* The invariant holds.                                                    *)

LEMMA ChannelInvInductive == SafetyInv /\ [Next]_vars => ChannelInv'
<1> SUFFICES ASSUME SafetyInv, [Next]_vars PROVE ChannelInv'
  OBVIOUS
<1>1. TypeInv /\ CoreInv /\ ChannelInv /\ TypeInv'
  BY TypeInvInductive DEF SafetyInv, CoreInv
<1>2. CASE UNCHANGED vars
  <2>1. UNCHANGED <<sent, got, q, life, sock, reader, index, frame, wire, asio, serving>>
    BY <1>2 DEF vars, queueVars, readVars, netVars
  <2>2. Calm
    BY <2>1 DEF Calm, Whole, Receiving, ReceiveStopped, Blocked
  <2>3. SockInv'
    BY <1>1, <2>1 DEF ChannelInv, SockInv
  <2> QED
    BY <1>1, <2>1, <2>2, <2>3, CalmChannelInv
<1>3. ASSUME NEW t \in Thread, Push(t) PROVE ChannelInv'
  BY <1>1, <1>3, QuietChannelInv, PushFrameChannelInv DEF Push
<1>4. ASSUME NEW e \in End, WriteThread(e) \/ HandleWrite(e) PROVE ChannelInv'
  BY <1>1, <1>4, QuietChannelInv, PopFrameChannelInv DEF WriteThread
<1>5. ASSUME NEW e \in End, HandleRead(e) \/ EndSession(e) \/ Reset(e) \/ HandleAccept(e)
      PROVE  ChannelInv'
  BY <1>1, <1>5, ReadPartChannelInv, ReadLastChannelInv, EndChannelInv, ResetChannelInv
     DEF HandleRead
<1>6. ASSUME NEW s \in Side, Quit(s) PROVE ChannelInv'
  BY <1>1, <1>6, DieChannelInv DEF Quit
<1>7. CASE Next
  BY <1>1, <1>3, <1>4, <1>5, <1>6, <1>7, NextCases, SendChannelInv, QuietChannelInv,
     ResumeChannelInv
<1> QED
  BY <1>2, <1>7

LEMMA InitChannelInv == Init => ChannelInv
<1> SUFFICES ASSUME Init PROVE ChannelInv
  OBVIOUS
<1>1. Len(<<>>) = 0 /\ FrameLength \in Nat /\ Null \notin End
  BY EndFacts, ConnectionAssumption
<1>2. SockInv /\ AsioInv
  BY DEF Init, SockInv, AsioInv
<1>3. ASSUME NEW e \in End PROVE QueueInv(e) /\ BlockInv(e) /\ ReadInv(e)
  <2>1. /\ Far(e) \in End /\ e # Null /\ e[2] \in Side
    BY <1>1, EndFacts, FarFacts
  <2>2. /\ q[e] = <<>> /\ sent[e] = 0 /\ got[e] = 0 /\ asio[e[2]] = Null /\ index[e] = 0
        /\ got[Far(e)] = 0 /\ sent[Far(e)] = 0 /\ q[Far(e)] = <<>> /\ wire[Far(e)] = <<>>
    BY <2>1 DEF Init
  <2>3. QueueInv(e) /\ BlockInv(e)
    BY <1>1, <2>1, <2>2 DEF QueueInv, BlockInv, Blocked
  <2>4. Taken(e) * FrameLength = 0 /\ Popped(Far(e)) * FrameLength = 0
    BY <1>1, <2>1, <2>2 DEF Taken, Blocked, Popped
  <2>5. ReadInv(e)
    BY <1>1, <2>2, <2>4 DEF ReadInv, InPlace, InOrder
  <2> QED
    BY <2>3, <2>5
<1> QED
  BY <1>2, <1>3 DEF ChannelInv

THEOREM ChannelSafe == Spec => []SafetyInv
<1>1. Init => SafetyInv
  BY InitSafe, InitChannelInv DEF SafetyInv
<1>2. SafetyInv /\ [Next]_vars => SafetyInv'
  BY TypeInvInductive, CoreInvInductive, ChannelInvInductive DEF SafetyInv, CoreInv
<1> QED
  BY <1>1, <1>2, PTL DEF Spec

-----------------------------------------------------------------------------
(* A server that has blocked itself stays so.                              *)

\* Threads of the client push on queues of the client, the server's on its own.
HandInv ==
    /\ pc[Acceptor] # "idle" => ptr[Acceptor][2] = "server"
    /\ \A t \in Senders : ptr[t][2] = "client"

LEMMA HandStep ==
    ASSUME HandInv,
           \A t \in Senders : ptr'[t] = ptr[t] \/ ptr'[t][2] = "client",
           \/ pc'[Acceptor] = "idle"
           \/ pc[Acceptor] # "idle" /\ ptr'[Acceptor] = ptr[Acceptor]
           \/ ptr'[Acceptor][2] = "server"
    PROVE  HandInv'
BY DEF HandInv

LEMMA HandInvInductive == TypeInv /\ CoreInv /\ HandInv /\ [Next]_vars => HandInv'
<1> SUFFICES ASSUME TypeInv, CoreInv, HandInv, [Next]_vars PROVE HandInv'
  OBVIOUS
<1> USE SideFacts
<1>1. Null[2] = "client"
  BY DEF Null
<1>2. CASE UNCHANGED <<pc, ptr>>
  BY <1>2 DEF HandInv
<1>3. ASSUME NEW s \in Side, Die(s) PROVE HandInv'
  <2>1. /\ pc' = [t \in Thread |-> IF SideOf(t) = s THEN "idle" ELSE pc[t]]
        /\ ptr' = [t \in Thread |-> IF SideOf(t) = s THEN Null ELSE ptr[t]]
    BY <1>3 DEF Die
  <2> QED
    BY <1>1, <2>1 DEF HandInv
<1>4. ASSUME NEW t \in Senders,
             \/ CallSendFrame(t) \/ ConnectAlive(t) \/ ConnectBegin(t)
             \/ ConnectDone(t) \/ ConnectRefused(t) \/ LoadQueue(t)
      PROVE  HandInv'
  <2>1. sendq[2] = "client"
    BY <1>1 DEF CoreInv, MutexInv
  <2>2. ptr' = ptr \/ \E x \in {Null, sendq, <<NextSession, "client">>} : ptr' = [ptr EXCEPT ![t] = x]
    <3>1. CASE ConnectBegin(t)
      BY <3>1 DEF ConnectBegin
    <3>2. CASE ~ConnectBegin(t)
      BY <1>4, <3>2 DEF CallSendFrame, ConnectAlive, ConnectDone, ConnectRefused, LoadQueue
    <3> QED
      BY <3>1, <3>2
  <2>3. \A u \in Senders : ptr'[u] = ptr[u] \/ ptr'[u][2] = "client"
    BY <1>1, <2>1, <2>2 DEF TypeInv, TypeOK
  <2>4. ptr'[Acceptor] = ptr[Acceptor]
    BY <2>2 DEF TypeInv, TypeOK
  <2>5. pc'[Acceptor] = pc[Acceptor]
    BY <1>4 DEF CallSendFrame, ConnectAlive, ConnectBegin, ConnectDone, ConnectRefused, LoadQueue,
       TypeInv, TypeOK
  <2> QED
    BY <2>3, <2>4, <2>5, HandStep
<1>5. ASSUME NEW t \in Thread, Push(t) PROVE HandInv'
  <2>1. CASE Return(t)
    <3>1. /\ \A u \in Thread : u # t => pc'[u] = pc[u] /\ ptr'[u] = ptr[u]
          /\ pc'[t] = "idle" /\ ptr'[t] = Null
      BY <2>1 DEF Return, TypeInv, TypeOK
    <3> QED
      BY <1>1, <3>1 DEF HandInv
  <2>2. CASE PushBlocks(t)
    <3>1. ptr' = ptr /\ pc[t] # "idle" /\ pc' = [pc EXCEPT ![t] = "full"]
      BY <2>2 DEF PushBlocks
    <3> QED
      BY <3>1, HandStep DEF TypeInv, TypeOK
  <2> QED
    BY <1>3, <1>5, <2>1, <2>2 DEF Push, PushDropped, PushFrame, PushOnNothing
<1>6. ASSUME NEW e \in End,
             \/ WriteThread(e) \/ HandleWrite(e) \/ HandleRead(e)
             \/ EndSession(e) \/ Reset(e) \/ HandleAccept(e)
      PROVE  HandInv'
  <2>1. Die(e[2]) \/ UNCHANGED <<pc, ptr>>
    BY <1>6 DEF WriteThread, PopFrame, PopStopped, PopBlock, PopWait, HandleWrite, HandleWriteOk,
       HandleWriteError, HandleRead, ReadPart, ReadLast, ReadFails, ReadThrows, EndSession, Reset,
       HandleAccept, peerVars
  <2> QED
    BY <1>2, <1>3, <2>1, EndFacts
<1>7. CASE TakeRequest
  <2>1. \/ UNCHANGED <<pc, ptr>>
        \/ /\ pc' = [pc EXCEPT ![Acceptor] = "lookup"]
           /\ ptr' = [ptr EXCEPT ![Acceptor] = <<Head(inbox["server"]), "server">>]
    BY <1>7 DEF TakeRequest
  <2>2. CASE ptr' = [ptr EXCEPT ![Acceptor] = <<Head(inbox["server"]), "server">>]
    <3>1. /\ \A u \in Senders : ptr'[u] = ptr[u]
          /\ ptr'[Acceptor][2] = "server"
      BY <2>2 DEF TypeInv, TypeOK
    <3> QED
      BY <3>1, HandStep
  <2> QED
    BY <1>2, <2>1, <2>2
<1>8. CASE LookUpQueue
  <2>1. \/ Die("server")
        \/ Return(Acceptor)
        \/ ptr' = ptr /\ pc[Acceptor] = "lookup"
    BY <1>8 DEF LookUpQueue
  <2>2. CASE Return(Acceptor)
    <3>1. /\ \A u \in Senders : ptr'[u] = ptr[u]
          /\ pc'[Acceptor] = "idle"
      BY <2>2 DEF Return, TypeInv, TypeOK
    <3> QED
      BY <3>1, HandStep
  <2>3. CASE ptr' = ptr /\ pc[Acceptor] = "lookup"
    BY <2>3, HandStep
  <2> QED
    BY <1>3, <2>1, <2>2, <2>3
<1>9. CASE TakeReply \/ StartServer \/ LeaveServer \/ StopServer \/ StopConnection \/ UNCHANGED vars
  <2>1. UNCHANGED <<pc, ptr>>
    BY <1>9 DEF TakeReply, StartServer, LeaveServer, StopServer, StopConnection, vars, peerVars
  <2> QED
    BY <1>2, <2>1
<1>10. ASSUME NEW s \in Side, ReceiveResume(s) \/ Quit(s) PROVE HandInv'
  <2>1. Die(s) \/ UNCHANGED <<pc, ptr>>
    BY <1>10 DEF ReceiveResume, Quit, peerVars
  <2> QED
    BY <1>2, <1>3, <2>1
<1> QED
  BY <1>4, <1>5, <1>6, <1>7, <1>8, <1>9, <1>10, NextCases

\* What the blocked threads of the server wait for is as it was.
SameWait ==
    /\ asio'["server"] = asio["server"] /\ inbox'["server"] = inbox["server"]
    /\ pc'[Acceptor] = pc[Acceptor] /\ ptr'[Acceptor] = ptr[Acceptor]
    /\ LET e == ptr[Acceptor]
       IN  /\ q'[e] = q[e] /\ life'[e] = life[e]
           /\ writer'[e] = writer[e] /\ reader'[e] = reader[e]

LEMMA SameWaitKeeps == SameWait => (Gridlocked' <=> Gridlocked)
BY DEF SameWait, Gridlocked

\* The queue the accept thread waits for is one of the server, and no other
\* thread has it in hand.
LEMMA WaitFacts ==
    ASSUME TypeInv, HandInv, pc[Acceptor] = "full"
    PROVE  /\ ptr[Acceptor] \in End /\ ptr[Acceptor][2] = "server"
           /\ \A t \in Senders : ptr[t] # ptr[Acceptor]
<1>1. ptr[Acceptor][2] = "server"
  BY DEF HandInv
<1>2. ptr[Acceptor] # Null
  BY <1>1 DEF Null
<1> QED
  BY <1>1, <1>2, SideFacts DEF HandInv, TypeInv, TypeOK

\* push() does not make a server block itself, nor does it end that.
LEMMA PushKeepsWait ==
    ASSUME TypeInv, HandInv, NEW t \in Thread, PushFrame(t)
    PROVE  Gridlocked' <=> Gridlocked
<1> USE SideFacts
<1>1. CASE t = Acceptor
  <2>1. pc'[Acceptor] = "idle"
    BY <1>1 DEF PushFrame, Return, TypeInv, TypeOK
  <2>2. Len(q[ptr[Acceptor]]) < MaxSize
    BY <1>1 DEF PushFrame
  <2>3. ~Gridlocked'
    BY <2>1 DEF Gridlocked
  <2>4. ~Gridlocked
    <3>1. CASE pc[Acceptor] = "full"
      <4>1. Len(q[ptr[Acceptor]]) \in Nat /\ MaxSize \in Nat
        BY <3>1, WaitFacts, ConnectionAssumption DEF TypeInv
      <4> QED
        BY <2>2, <4>1 DEF Gridlocked
    <3> QED
      BY <3>1 DEF Gridlocked
  <2> QED
    BY <2>3, <2>4
<1>2. CASE t # Acceptor
  <2>1. /\ t \in Senders
        /\ pc' = [pc EXCEPT ![t] = "idle"] /\ ptr' = [ptr EXCEPT ![t] = Null]
        /\ UNCHANGED <<inbox, asio, life, reader>>
    BY <1>2 DEF PushFrame, Return, readVars, Thread
  <2>2. pc'[Acceptor] = pc[Acceptor] /\ ptr'[Acceptor] = ptr[Acceptor]
    BY <1>2, <2>1 DEF TypeInv, TypeOK
  <2>3. CASE pc[Acceptor] = "full"
    <3>1. ptr[Acceptor] \in End /\ ptr[Acceptor] # ptr[t]
      BY <2>1, <2>3, WaitFacts
    <3>2. q'[ptr[Acceptor]] = q[ptr[Acceptor]] /\ writer'[ptr[Acceptor]] = writer[ptr[Acceptor]]
      BY <3>1 DEF PushFrame, TypeInv, TypeOK
    <3> QED
      BY <2>1, <2>2, <3>2, SameWaitKeeps DEF SameWait
  <2> QED
    BY <2>2, <2>3 DEF Gridlocked
<1> QED
  BY <1>1, <1>2

\* Nor does a frame that is handed over: to do that, the asio thread of the
\* server must be free, or become so.
LEMMA ReadKeepsWait ==
    ASSUME TypeInv, NEW r \in End, ReadLast(r), got' # got
    PROVE  Gridlocked' <=> Gridlocked
<1> USE SideFacts
<1>1. /\ AsioFree(r[2]) /\ asio' = asio
      /\ UNCHANGED <<pc, ptr, q, life, writer, reader>>
      /\ \E s \in Session : inbox' = [inbox EXCEPT ![r[2]] = Append(@, s)]
  BY EndFacts DEF ReadLast, Reading, Receive, peerVars, queueVars
<1>2. CASE r[2] = "server"
  BY <1>1, <1>2 DEF AsioFree, Gridlocked
<1>3. CASE r[2] # "server"
  <2>1. inbox'["server"] = inbox["server"]
    BY <1>1, <1>3 DEF TypeInv
  <2> QED
    BY <1>1, <2>1, SameWaitKeeps DEF SameWait
<1> QED
  BY <1>2, <1>3

LEMMA ResumeKeepsWait ==
    ASSUME TypeInv, NEW s \in Side, ReceiveResume(s)
    PROVE  Gridlocked' <=> Gridlocked
<1> USE SideFacts
<1>1. /\ Len(inbox[s]) < MaxSize
      /\ asio' = [asio EXCEPT ![s] = Null]
      /\ UNCHANGED <<pc, ptr, q, life, writer, reader>>
  BY DEF ReceiveResume, peerVars, queueVars
<1>2. CASE s = "server"
  <2>1. asio'["server"] = Null
    BY <1>1, <1>2 DEF TypeInv, TypeOK
  <2>2. Len(inbox["server"]) \in Nat /\ MaxSize \in Nat
    BY ConnectionAssumption DEF TypeInv
  <2> QED
    BY <1>1, <1>2, <2>1, <2>2 DEF Gridlocked
<1>3. CASE s # "server"
  <2>1. inbox'["server"] = inbox["server"]
    BY <1>3 DEF ReceiveResume, TypeInv
  <2>2. asio'["server"] = asio["server"]
    BY <1>1, <1>3 DEF TypeInv, TypeOK
  <2> QED
    BY <1>1, <2>1, <2>2, SameWaitKeeps DEF SameWait
<1> QED
  BY <1>2, <1>3

\* The death of the client changes nothing at the server.
LEMMA DieKeepsWait ==
    ASSUME TypeInv, HandInv, Gridlocked, NEW s \in Side, Die(s)
    PROVE  Gridlocked' \/ "server" \in gone'
<1> USE SideFacts
<1>1. CASE s = "server"
  BY <1>1 DEF Die
<1>2. CASE s = "client"
  <2>1. ptr[Acceptor] \in End /\ ptr[Acceptor][2] = "server"
    BY WaitFacts DEF Gridlocked
  <2>2. pc'[Acceptor] = pc[Acceptor] /\ ptr'[Acceptor] = ptr[Acceptor]
    BY <1>2 DEF Die
  <2>3. inbox'["server"] = inbox["server"] /\ asio'["server"] = asio["server"]
    BY <1>2 DEF Die, TypeInv, TypeOK
  <2>4. /\ q'[ptr[Acceptor]] = q[ptr[Acceptor]]
        /\ life'[ptr[Acceptor]] = life[ptr[Acceptor]]
        /\ writer'[ptr[Acceptor]] = writer[ptr[Acceptor]]
        /\ reader'[ptr[Acceptor]] = reader[ptr[Acceptor]]
    BY <1>2, <2>1 DEF Die
  <2> QED
    BY <2>2, <2>3, <2>4, SameWaitKeeps DEF SameWait
<1> QED
  BY <1>1, <1>2

\* sendFrame() and leave() at the client.
LEMMA SendKeepsWait ==
    ASSUME TypeInv, CoreInv, HandInv, Gridlocked, NEW t \in Senders,
           \/ CallSendFrame(t) \/ ConnectAlive(t) \/ ConnectBegin(t)
           \/ ConnectDone(t) \/ ConnectRefused(t) \/ LoadQueue(t)
    PROVE  SameWait
<1> USE SideFacts
<1> DEFINE e == ptr[Acceptor]
<1>1. e \in End /\ e[2] = "server" /\ ptr[t] # e
  BY WaitFacts DEF Gridlocked
<1>2. sendq # e /\ t # Acceptor
  BY <1>1, EndFacts DEF CoreInv, MutexInv
<1>3. /\ UNCHANGED <<inbox, asio>>
      /\ pc'[Acceptor] = pc[Acceptor] /\ ptr'[Acceptor] = ptr[Acceptor]
  BY <1>2 DEF CallSendFrame, ConnectAlive, ConnectBegin, ConnectDone, ConnectRefused, LoadQueue,
     readVars, TypeInv, TypeOK
<1>4. /\ q'[e] = q[e] /\ life'[e] = life[e]
      /\ writer'[e] = writer[e] /\ reader'[e] = reader[e]
  <2>1. e # <<NextSession, "client">>
    BY <1>1
  <2>2. CASE ConnectBegin(t)
    BY <1>1, <2>1, <2>2 DEF ConnectBegin, queueVars, readVars, TypeInv, TypeOK
  <2>3. CASE ConnectDone(t)
    BY <1>1, <2>3 DEF ConnectDone, queueVars, readVars, TypeInv, TypeOK
  <2>4. CASE ConnectRefused(t)
    BY <1>1, <2>4 DEF ConnectRefused, queueVars, readVars, TypeInv, TypeOK
  <2>5. CASE CallSendFrame(t) \/ ConnectAlive(t) \/ LoadQueue(t)
    BY <2>5 DEF CallSendFrame, ConnectAlive, LoadQueue, queueVars, readVars
  <2> QED
    BY <2>2, <2>3, <2>4, <2>5
<1> QED
  BY <1>3, <1>4 DEF SameWait

\* While the asio thread of the server is blocked, no handler of a session of
\* the server runs, and its accept thread cannot push.
LEMMA SessionKeepsWait ==
    ASSUME TypeInv, HandInv, Gridlocked, NEW x \in End,
           \/ PopFrame(x) \/ PopBlock(x) \/ PopWait(x) \/ HandleWrite(x)
           \/ ReadPart(x) \/ ReadLast(x) \/ ReadFails(x)
           \/ EndSession(x) \/ Reset(x) \/ HandleAccept(x)
    PROVE  SameWait
<1> USE SideFacts
<1> DEFINE e == ptr[Acceptor]
<1>1. e \in End /\ e[2] = "server"
  BY WaitFacts DEF Gridlocked
<1>2. ~AsioFree("server")
  BY DEF Gridlocked, AsioFree
<1>3. /\ writer[e] \in {"writing", "done"}
      /\ ~(writer[e] = "done" /\ reader[e] = "failed")
  BY DEF Gridlocked
<1>4. UNCHANGED <<pc, ptr>>
  BY DEF PopFrame, PopBlock, PopWait, HandleWrite, HandleWriteOk, HandleWriteError,
     ReadPart, ReadLast, ReadFails, EndSession, Reset, HandleAccept, peerVars
<1>5. x[2] = "client" \/ x[2] = "server"
  BY EndFacts
<1>6. CASE PopFrame(x) \/ PopBlock(x) \/ PopWait(x)
  <2>1. x # e
    BY <1>3, <1>6 DEF PopFrame, PopBlock, PopWait, Pop
  <2>2. UNCHANGED <<life, reader, inbox, asio>>
    BY <1>6 DEF PopFrame, PopBlock, PopWait, readVars
  <2>3. q'[e] = q[e]
    BY <1>1, <1>6, <2>1 DEF PopFrame, PopBlock, PopWait, queueVars, TypeInv
  <2>4. writer'[e] = writer[e]
    BY <1>1, <1>6, <2>1 DEF PopFrame, PopBlock, PopWait, TypeInv, TypeOK
  <2> QED
    BY <1>4, <2>2, <2>3, <2>4 DEF SameWait
<1>7. CASE HandleWrite(x)
  <2>1. x # e
    BY <1>1, <1>2, <1>7 DEF HandleWrite, HandleWriteOk, HandleWriteError
  <2>2. /\ UNCHANGED <<q, life, reader, inbox, asio>>
        /\ \E w \in {"pop", "done"} : writer' = [writer EXCEPT ![x] = w]
    BY <1>7 DEF HandleWrite, HandleWriteOk, HandleWriteError, readVars, queueVars
  <2>3. writer'[e] = writer[e]
    BY <1>1, <2>1, <2>2 DEF TypeInv, TypeOK
  <2> QED
    BY <1>4, <2>2, <2>3 DEF SameWait
<1>8. CASE ReadPart(x)
  BY <1>4, <1>8 DEF ReadPart, SameWait, queueVars
<1>9. CASE ReadLast(x)
  <2>1. x[2] = "client"
    BY <1>2, <1>5, <1>9 DEF ReadLast, Reading
  <2>2. UNCHANGED <<q, life, writer, reader>>
    BY <1>9 DEF ReadLast, queueVars
  <2>3. asio' = asio \/ asio' = [asio EXCEPT !["client"] = x]
    BY <1>9, <2>1 DEF ReadLast, Receive
  <2>4. inbox' = inbox \/ \E b \in Seq(Session) : inbox' = [inbox EXCEPT !["client"] = b]
    <3>1. inbox["client"] \in Seq(Session) /\ x[1] \in Session
      BY EndFacts DEF TypeInv
    <3>2. Append(inbox["client"], x[1]) \in Seq(Session)
      BY <3>1
    <3>3. inbox' = inbox \/ inbox' = [inbox EXCEPT !["client"] = Append(inbox["client"], x[1])]
      BY <1>9, <2>1 DEF ReadLast, Receive
    <3> QED
      BY <3>2, <3>3
  <2>5. asio'["server"] = asio["server"]
    BY <2>3 DEF TypeInv, TypeOK
  <2>6. inbox'["server"] = inbox["server"]
    BY <2>4 DEF TypeInv
  <2> QED
    BY <1>4, <2>2, <2>5, <2>6 DEF SameWait
<1>10. CASE ReadFails(x)
  <2>1. x # e
    BY <1>1, <1>2, <1>10 DEF ReadFails, Reading
  <2> QED
    BY <1>1, <1>4, <1>10, <2>1 DEF ReadFails, SameWait, TypeInv, TypeOK
<1>11. CASE EndSession(x)
  <2>1. x # e
    BY <1>3, <1>11 DEF EndSession
  <2>2. q'[e] = q[e] /\ life'[e] = life[e] /\ UNCHANGED <<writer, reader, inbox, asio>>
    BY <1>1, <1>11, <2>1 DEF EndSession, TypeInv
  <2> QED
    BY <1>4, <2>2 DEF SameWait
<1>12. CASE Reset(x)
  BY <1>4, <1>12 DEF Reset, SameWait, queueVars, readVars
<1> QED
  BY <1>2, <1>6, <1>7, <1>8, <1>9, <1>10, <1>11, <1>12 DEF HandleAccept

LEMMA PopStoppedKeepsWait ==
    ASSUME TypeInv, HandInv, Gridlocked, NEW x \in End, PopStopped(x), ~Die(x[2])
    PROVE  SameWait
<1>1. ptr[Acceptor] \in End /\ writer[ptr[Acceptor]] \in {"writing", "done"}
  BY WaitFacts DEF Gridlocked
<1>2. ptr[Acceptor] # x
  BY <1>1 DEF PopStopped, Pop
<1> QED
  BY <1>1, <1>2 DEF PopStopped, SameWait, peerVars, queueVars, readVars, TypeInv, TypeOK

LEMMA ServerKeepsWait ==
    ASSUME TypeInv, HandInv, Gridlocked,
           TakeRequest \/ (LookUpQueue /\ ~Die("server")) \/ TakeReply \/ StartServer
             \/ LeaveServer \/ StopServer \/ StopConnection \/ UNCHANGED vars
    PROVE  SameWait
<1> USE SideFacts
<1>1. /\ ptr[Acceptor] \in End /\ writer[ptr[Acceptor]] \in {"writing", "done"}
      /\ pc[Acceptor] = "full"
  BY WaitFacts DEF Gridlocked
<1>2. CASE StopConnection
  <2>1. writer'[ptr[Acceptor]] = writer[ptr[Acceptor]]
    BY <1>1, <1>2 DEF StopConnection, Woken, TypeInv, TypeOK
  <2> QED
    BY <1>2, <2>1 DEF StopConnection, SameWait, peerVars, readVars
<1>3. CASE TakeReply
  <2>1. inbox'["server"] = inbox["server"]
    BY <1>3 DEF TakeReply, TypeInv
  <2> QED
    BY <1>3, <2>1 DEF TakeReply, SameWait, peerVars, queueVars
<1>4. CASE StartServer \/ LeaveServer \/ StopServer \/ UNCHANGED vars
  BY <1>4 DEF StartServer, LeaveServer, StopServer, vars, SameWait, peerVars, queueVars, readVars
<1> QED
  BY <1>1, <1>2, <1>3, <1>4 DEF TakeRequest, LookUpQueue

\* The other pushes: of the accept thread, none can be made.
LEMMA OtherPushKeepsWait ==
    ASSUME TypeInv, CoreInv, HandInv, Gridlocked, NEW t \in Thread,
           PushDropped(t) \/ PushBlocks(t) \/ (PushOnNothing(t) /\ ~Die(SideOf(t)))
    PROVE  SameWait
<1> USE SideFacts
<1>1. /\ ptr[Acceptor] \in End /\ pc[Acceptor] = "full" /\ ptr[Acceptor] # Null
  BY WaitFacts, EndFacts DEF Gridlocked
<1>2. ptr[Acceptor] \notin freed
  BY DEF Gridlocked, CoreInv, SessionInv
<1>3. t # Acceptor
  BY <1>1, <1>2 DEF PushDropped, PushBlocks, PushOnNothing
<1>4. /\ pc'[Acceptor] = pc[Acceptor] /\ ptr'[Acceptor] = ptr[Acceptor]
      /\ UNCHANGED <<q, life, writer, reader, inbox, asio>>
  BY <1>3 DEF PushDropped, PushBlocks, PushOnNothing, Return, queueVars, readVars, TypeInv, TypeOK
<1> QED
  BY <1>4 DEF SameWait

\* Nothing but the end of the process frees a server that has blocked itself.
LEMMA GridlockStays ==
    ASSUME TypeInv, CoreInv, HandInv, Gridlocked, [Next]_vars
    PROVE  Gridlocked' \/ "server" \in gone'
<1> USE SideFacts
<1>1. SameWait => Gridlocked'
  BY SameWaitKeeps
<1>2. ASSUME NEW s \in Side, Die(s)
      PROVE  Gridlocked' \/ "server" \in gone'
  BY <1>2, DieKeepsWait
<1>3. CASE \E s \in Side : Die(s)
  BY <1>2, <1>3
<1>4. CASE ~\E s \in Side : Die(s)
  <2>1. \A x \in End : ~Die(x[2])
    BY <1>4, EndFacts
  <2>2. CASE UNCHANGED vars
    BY <1>1, <2>2, ServerKeepsWait
  <2>3. ASSUME NEW t \in Thread, Push(t) PROVE Gridlocked'
    <3>1. ~Die(SideOf(t))
      BY <1>4
    <3> QED
      BY <1>1, <2>3, <3>1, PushKeepsWait, OtherPushKeepsWait DEF Push
  <2>4. ASSUME NEW x \in End,
               \/ WriteThread(x) \/ HandleWrite(x) \/ HandleRead(x)
               \/ EndSession(x) \/ Reset(x) \/ HandleAccept(x)
        PROVE  Gridlocked'
    BY <1>1, <2>1, <2>4, SessionKeepsWait, PopStoppedKeepsWait DEF WriteThread, HandleRead, ReadThrows
  <2>5. ASSUME NEW s \in Side, ReceiveResume(s) PROVE Gridlocked'
    BY <2>5, ResumeKeepsWait
  <2>6. ASSUME NEW t \in Senders,
               \/ CallSendFrame(t) \/ ConnectAlive(t) \/ ConnectBegin(t)
               \/ ConnectDone(t) \/ ConnectRefused(t) \/ LoadQueue(t)
        PROVE  Gridlocked'
    BY <1>1, <2>6, SendKeepsWait
  <2>7. CASE TakeRequest \/ LookUpQueue \/ TakeReply \/ StartServer \/ LeaveServer
               \/ StopServer \/ StopConnection
    <3>1. ~Die("server")
      BY <1>4
    <3> QED
      BY <1>1, <2>7, <3>1, ServerKeepsWait
  <2>8. CASE Next
    BY <1>4, <2>3, <2>4, <2>5, <2>6, <2>7, <2>8, NextCases DEF Quit
  <2> QED
    BY <2>2, <2>8
<1> QED
  BY <1>3, <1>4

LEMMA InitHandInv == Init => HandInv
BY SideFacts DEF Init, HandInv, Null

\* Each thread pushes on queues of its own process.
THEOREM HandsHold == Spec => []HandInv
<1>1. TypeInv /\ CoreInv /\ HandInv /\ [Next]_vars => HandInv'
  BY HandInvInductive
<1> QED
  BY InitHandInv, CoreSafe, <1>1, PTL DEF Spec

\* A server that has blocked itself on its full queues stays blocked until its
\* process ends, for any number of senders and sessions and any size of queues.
THEOREM GridlockIsForEver == Spec => GridlockLasts
<1>1. TypeInv /\ CoreInv /\ HandInv /\ [Next]_vars
        => [Gridlocked => Gridlocked' \/ "server" \in gone']_vars
  BY GridlockStays
<1> QED
  BY CoreSafe, HandsHold, <1>1, PTL DEF Spec, GridlockLasts
-----------------------------------------------------------------------------
(* Every step of a session is one of the channel, or none.                 *)

\* What makes it possible that frames are lost does not pass.
Ending ==
    /\ gone \subseteq gone' /\ freed \subseteq freed'
    /\ serving \in {"stopping", "closed"} => serving' \in {"stopping", "closed"}
    /\ \A e \in End : /\ stopped[e] => stopped'[e]
                      /\ sock[e] \in {"shut", "reset"} => sock'[e] \in {"shut", "reset"}

LEMMA EndingDisturbs ==
    ASSUME UNCHANGED <<sent, got>>, Ending, Gridlocked => Gridlocked' \/ "server" \in gone'
    PROVE  Channel!Disturb
<1>1. \A e \in End : Far(e) \in End
  BY FarFacts
<1>2. Gridlocked => Gridlocked' \/ gone' # {}
  OBVIOUS
<1>3. \A e \in End : Disturbed(e) => Disturbed(e)'
  BY <1>1, <1>2 DEF Ending, Disturbed
<1> QED
  BY <1>3 DEF Channel!Disturb, Disturbed

LEMMA SendEnding ==
    ASSUME TypeInv, CoreInv, SockInv, NEW t \in Senders,
           \/ CallSendFrame(t) \/ ConnectAlive(t) \/ ConnectBegin(t)
           \/ ConnectDone(t) \/ ConnectRefused(t) \/ LoadQueue(t)
    PROVE  UNCHANGED <<sent, got>> /\ Ending
<1> USE DEF queueVars, readVars, netVars
<1>1. CASE ConnectDone(t)
  <2>1. PICK e \in End : e = ptr[t] /\ life[e] = "connecting"
    BY <1>1, EndFacts, SideFacts DEF ConnectDone, CoreInv, MutexInv, TypeInv, TypeOK
  <2>2. /\ sock' = [sock EXCEPT ![e] = "up", ![Far(e)] = "up"]
        /\ UNCHANGED <<gone, freed, serving, stopped, sent, got>>
    BY <1>1, <2>1 DEF ConnectDone
  <2>3. \A d \in {e, Far(e)} : d \in End /\ <<d[1], "client">> = e
    <3>1. e[2] = "client"
      BY <2>1, EndFacts DEF CoreInv, MutexInv
    <3> QED
      BY <3>1, EndFacts, FarFacts
  <2>4. \A d \in {e, Far(e)} : sock[d] = "none"
    BY <2>1, <2>3 DEF SockInv
  <2>5. \A d \in End : d \notin {e, Far(e)} => sock'[d] = sock[d]
    BY <2>2 DEF TypeInv, TypeOK
  <2> QED
    BY <2>2, <2>4, <2>5 DEF Ending
<1>2. CASE ~ConnectDone(t)
  BY <1>2 DEF CallSendFrame, ConnectAlive, ConnectBegin, ConnectRefused, LoadQueue, Ending
<1> QED
  BY <1>1, <1>2

LEMMA DieEnding ==
    ASSUME NEW s \in Side, Die(s)
    PROVE  UNCHANGED <<sent, got>> /\ Ending
BY DEF Die, Ending

LEMMA QuietEnding ==
    ASSUME TypeInv,
           \/ \E t \in Thread : PushDropped(t) \/ PushBlocks(t) \/ PushOnNothing(t)
           \/ \E e \in End : \/ PopFrame(e) \/ PopStopped(e) \/ PopBlock(e) \/ PopWait(e)
                             \/ HandleWrite(e) \/ ReadPart(e) \/ ReadFails(e) \/ ReadThrows(e)
                             \/ EndSession(e) \/ Reset(e) \/ HandleAccept(e)
           \/ TakeRequest \/ LookUpQueue \/ TakeReply
           \/ StartServer \/ LeaveServer \/ StopServer \/ StopConnection
           \/ \E s \in Side : Quit(s)
           \/ UNCHANGED vars
    PROVE  UNCHANGED <<sent, got>> /\ Ending
<1> USE DEF peerVars, queueVars, readVars, netVars
<1>1. CASE \E s \in Side : Die(s)
  BY <1>1, DieEnding
<1>2. CASE ~\E s \in Side : Die(s)
  <2>1. ASSUME NEW t \in Thread, PushDropped(t) \/ PushBlocks(t) \/ PushOnNothing(t)
        PROVE  UNCHANGED <<sent, got, gone, freed, serving, stopped, sock>>
    BY <1>2, <2>1, SideFacts DEF PushDropped, PushBlocks, PushOnNothing
  <2>2. ASSUME NEW e \in End,
               \/ PopFrame(e) \/ PopBlock(e) \/ PopWait(e) \/ HandleWrite(e)
               \/ ReadPart(e) \/ HandleAccept(e)
        PROVE  UNCHANGED <<sent, got, gone, freed, serving, stopped, sock>>
    BY <2>2 DEF PopFrame, PopBlock, PopWait, HandleWrite, HandleWriteOk, HandleWriteError,
       ReadPart, HandleAccept
  <2>3. ASSUME NEW e \in End, PopStopped(e) \/ ReadFails(e) \/ ReadThrows(e) \/ EndSession(e)
                              \/ Reset(e)
        PROVE  UNCHANGED <<sent, got>> /\ Ending
    <3>1. ~Die(e[2])
      BY <1>2, EndFacts
    <3>2. CASE PopStopped(e)
      BY <3>1, <3>2 DEF PopStopped, Ending, TypeInv, TypeOK
    <3>3. CASE ReadFails(e)
      BY <3>3 DEF ReadFails, Ending, TypeInv, TypeOK
    <3>4. CASE EndSession(e)
      BY <3>4 DEF EndSession, Ending
    <3>5. CASE Reset(e)
      BY <3>5 DEF Reset, Ending, TypeInv, TypeOK
    <3> QED
      BY <2>3, <3>1, <3>2, <3>3, <3>4, <3>5 DEF ReadThrows
  <2>4. CASE TakeRequest \/ LookUpQueue \/ TakeReply \/ UNCHANGED vars
    BY <1>2, <2>4, SideFacts DEF TakeRequest, LookUpQueue, TakeReply, vars, Ending
  <2>5. CASE StartServer \/ LeaveServer \/ StopServer \/ StopConnection
    <3>1. CASE StartServer \/ LeaveServer
      BY <3>1 DEF StartServer, LeaveServer, Ending
    <3>2. CASE StopServer
      BY <3>2 DEF StopServer, Unaccepted, Ending
    <3>3. CASE StopConnection
      BY <3>3 DEF StopConnection, Ending, TypeInv, TypeOK
    <3> QED
      BY <2>5, <3>1, <3>2, <3>3
  <2>6. UNCHANGED <<sent, got, gone, freed, serving, stopped, sock>> =>
           UNCHANGED <<sent, got>> /\ Ending
    BY DEF Ending
  <2> QED
    BY <1>2, <2>1, <2>2, <2>3, <2>4, <2>5, <2>6 DEF Quit
<1> QED
  BY <1>1, <1>2

LEMMA SameDisturbances ==
    ASSUME UNCHANGED <<gone, freed, serving, stopped, sock>>, Gridlocked' <=> Gridlocked
    PROVE  UNCHANGED [e \in End |-> Disturbed(e)]
<1>1. Gridlocked \in BOOLEAN /\ Gridlocked' \in BOOLEAN
  BY DEF Gridlocked
<1>2. Gridlocked' = Gridlocked
  BY <1>1
<1>3. \A e \in End : Disturbed(e)' = Disturbed(e)
  BY <1>2 DEF Disturbed
<1> QED
  BY <1>3

\* push() of a frame.
LEMMA PushSends ==
    ASSUME TypeInv, HandInv, NEW t \in Thread, PushFrame(t)
    PROVE  \E e \in End : Channel!Send(e)
<1>1. ptr[t] \in End
  BY DEF PushFrame, CanPush, TypeInv, TypeOK
<1>2. /\ sent' = [sent EXCEPT ![ptr[t]] = @ + 1]
      /\ UNCHANGED <<got, gone, freed, serving, stopped, sock>>
  BY DEF PushFrame, readVars, netVars
<1>3. UNCHANGED [e \in End |-> Disturbed(e)]
  BY <1>2, PushKeepsWait, SameDisturbances
<1> QED
  BY <1>1, <1>2, <1>3 DEF Channel!Send

\* A frame is put in the receive queue: the one after the last.
LEMMA Delivers ==
    ASSUME TypeInv, NEW r \in End, got[Far(r)] + 1 <= sent[Far(r)],
           got' = [got EXCEPT ![Far(r)] = got[Far(r)] + 1],
           UNCHANGED <<sent, gone, freed, serving, stopped, sock>>,
           Gridlocked' <=> Gridlocked
    PROVE  \E e \in End : Channel!Deliver(e)
<1>1. Far(r) \in End /\ got[Far(r)] \in Nat /\ sent[Far(r)] \in Nat
  BY EndTypes
<1>2. UNCHANGED [e \in End |-> Disturbed(e)]
  BY SameDisturbances
<1>3. Channel!Deliver(Far(r))
  BY <1>1, <1>2 DEF Channel!Deliver
<1> QED
  BY <1>1, <1>3

LEMMA ReadLastDelivers ==
    ASSUME TypeInv, ChannelInv, NEW r \in End, ReadLast(r),
           Gridlocked => Gridlocked' \/ "server" \in gone'
    PROVE  Channel!Disturb \/ \E e \in End : Channel!Deliver(e)
<1>1. PICK j \in Readable(r) : /\ index[r] + j = FrameLength
                               /\ Receive(r, NumberOf(FilledBy(r, j)))
  BY DEF ReadLast
<1>2. /\ Reading(r)
      /\ UNCHANGED <<sent, gone, freed, serving, stopped, sock>>
  BY DEF ReadLast, queueVars
<1>3. CASE got' = got
  BY <1>2, <1>3, EndingDisturbs DEF Ending
<1>4. CASE got' # got
  <2>1. /\ ~ReceiveStopped(r[2])
        /\ got' = Counted(Far(r), NumberOf(FilledBy(r, j)))
    BY <1>1, <1>4 DEF Receive
  <2>2. NumberOf(FilledBy(r, j)) = got[Far(r)] + 1 /\ got[Far(r)] + 1 <= sent[Far(r)]
    BY <1>1, <1>2, <2>1, WholeFrame
  <2>3. Far(r) \in End /\ got[Far(r)] + 1 \in Nat
    BY SMTT(30), EndTypes DEF TypeInv, TypeOK
  <2> QED
    BY <1>2, <1>4, <2>1, <2>2, <2>3, CountedType, Delivers, ReadKeepsWait
<1> QED
  BY <1>3, <1>4

LEMMA ResumeDelivers ==
    ASSUME TypeInv, ChannelInv, NEW s \in Side, ReceiveResume(s)
    PROVE  \E e \in End : Channel!Deliver(e)
<1>1. PICK r \in End : r = asio[s]
  BY DEF ReceiveResume, TypeInv, TypeOK
<1>2. r[2] = s /\ Far(r) \in End /\ r # Null
  BY <1>1, EndTypes, EndFacts DEF ChannelInv, AsioInv
<1>3. BlockInv(r) /\ Blocked(r) /\ got[Far(r)] \in Nat
  BY <1>1, <1>2, EndTypes DEF ChannelInv, Blocked
<1>4. NumberOf(frame[r]) = got[Far(r)] + 1 /\ got[Far(r)] + 1 <= sent[Far(r)]
  BY <1>3, NumberOfBytes DEF BlockInv
<1>5. Counted(Far(r), NumberOf(frame[r])) = [got EXCEPT ![Far(r)] = got[Far(r)] + 1]
  <2>1. got[Far(r)] + 1 \in Nat
    BY <1>3
  <2> QED
    BY <1>2, <1>4, <2>1, CountedType
<1>6. /\ got' = [got EXCEPT ![Far(r)] = got[Far(r)] + 1]
      /\ UNCHANGED <<sent, gone, freed, serving, stopped, sock>>
  BY <1>1, <1>5 DEF ReceiveResume, queueVars, netVars
<1> QED
  BY <1>2, <1>4, <1>6, Delivers, ResumeKeepsWait

LEMMA StepsAreOfChannel == SafetyInv /\ HandInv /\ [Next]_vars => Channel!Next
<1> SUFFICES ASSUME SafetyInv, HandInv, [Next]_vars PROVE Channel!Next
  OBVIOUS
<1>1. TypeInv /\ CoreInv /\ ChannelInv /\ SockInv
  BY DEF SafetyInv, ChannelInv
<1>10. Gridlocked => Gridlocked' \/ "server" \in gone'
  BY <1>1, GridlockStays
<1>2. UNCHANGED <<sent, got>> /\ Ending => Channel!Next
  BY <1>10, EndingDisturbs DEF Channel!Next
<1>3. CASE UNCHANGED vars
  BY <1>1, <1>2, <1>3, QuietEnding
<1>4. ASSUME NEW t \in Thread, Push(t) PROVE Channel!Next
  BY <1>1, <1>2, <1>4, QuietEnding, PushSends DEF Push, Channel!Next
<1>5. ASSUME NEW e \in End, WriteThread(e) \/ HandleWrite(e) PROVE Channel!Next
  BY <1>1, <1>2, <1>5, QuietEnding DEF WriteThread
<1>6. ASSUME NEW e \in End, HandleRead(e) \/ EndSession(e) \/ Reset(e) \/ HandleAccept(e)
      PROVE  Channel!Next
  BY <1>10, <1>1, <1>2, <1>6, QuietEnding, ReadLastDelivers DEF HandleRead, Channel!Next
<1>7. ASSUME NEW s \in Side, ReceiveResume(s) PROVE Channel!Next
  BY <1>1, <1>7, ResumeDelivers DEF Channel!Next
<1>8. ASSUME NEW t \in Senders,
             \/ CallSendFrame(t) \/ ConnectAlive(t) \/ ConnectBegin(t)
             \/ ConnectDone(t) \/ ConnectRefused(t) \/ LoadQueue(t)
      PROVE  Channel!Next
  BY <1>1, <1>2, <1>8, SendEnding
<1>9. CASE Next
  BY <1>1, <1>2, <1>4, <1>5, <1>6, <1>7, <1>8, <1>9, NextCases, QuietEnding
<1> QED
  BY <1>3, <1>9

LEMMA InitIsOfChannel == Init => Channel!Init
<1>1. Init => ~Gridlocked
  BY SideFacts DEF Init, Gridlocked
<1> QED
  BY <1>1, FarFacts DEF Init, Channel!Init, Disturbed

\* What a direction of a session hands over at its far end are the frames that
\* were put in its queue, whole, in the order of the pushes and each once: also
\* when processes end, block themselves, leave, and when sessions break, while
\* frames are in queues, on the wire, or in part in a buffer.
THEOREM SessionsImplementChannels == Spec => SessionsAreChannels
<1>1. SafetyInv /\ HandInv /\ [Next]_vars => [Channel!Next]_(Channel!channelVars)
  BY StepsAreOfChannel
<1> QED
  BY InitIsOfChannel, <1>1, ChannelSafe, HandsHold, PTL DEF Spec, SessionsAreChannels, Channel!Spec

=============================================================================
