----------------------- MODULE ThreadSafeQueueProofs -----------------------
(***************************************************************************)
(* Proofs about ThreadSafeQueue, for any sets of threads, any maxSize_ and *)
(* any number of pushes.                                                   *)
(***************************************************************************)
EXTENDS ThreadSafeQueue, FiniteSetTheorems, SequenceTheorems, TLAPS

-----------------------------------------------------------------------------
(* Type correctness.                                                       *)

\* What notify_one() can do to pc: thread t moves, and at most one waiter wakes.
LEMMA NotifyOneEffect ==
    ASSUME TypeOK, NEW t \in Threads, NEW at, NEW cv, NEW woken,
           NotifyOne(t, at, cv, woken)
    PROVE  \/ /\ \A u \in Threads : pc[u] # cv
              /\ pc' = [pc EXCEPT ![t] = at]
           \/ \E u \in Threads :
                 /\ pc[u] = cv
                 /\ pc' = [pc EXCEPT ![t] = at, ![u] = woken]
BY DEF NotifyOne

LEMMA EnqueueTypeOK ==
    ASSUME TypeOK, NEW p \in Producers, pc[p] \in {"push", "full"},
           Len(q) # MaxSize, Enqueue(p)
    PROVE  TypeOK'
<1> USE DEF TypeOK
<1>1. p \in Threads /\ p \notin Consumers /\ p \notin Stoppers
  BY ThreadAssumption DEF Threads
<1>2. /\ <<p, sent[p]>> \in Items
      /\ q' \in Seq(Items) /\ Len(q') = Len(q) + 1
      /\ Len(q) \in Nat
  BY DEF Items, Enqueue
<1>3. Len(q') <= MaxSize
  BY <1>2, SizeAssumption
<1>4. UNCHANGED <<stopReading, mutex, sent, last>>
  BY DEF Enqueue
<1>5. NotifyOne(p, "idle", "notEmpty", "pop")
  BY DEF Enqueue
<1>6. CASE pc' = [pc EXCEPT ![p] = "idle"]
  BY <1>1, <1>2, <1>3, <1>4, <1>6
     DEF ProducerStates, ConsumerStates, StopperStates, Threads
<1>7. ASSUME NEW u \in Threads, pc[u] = "notEmpty",
             pc' = [pc EXCEPT ![p] = "idle", ![u] = "pop"]
      PROVE  TypeOK'
  <2>1. u \in Consumers /\ u \notin Producers /\ u \notin Stoppers
    BY <1>7, ThreadAssumption
       DEF Threads, ProducerStates, ConsumerStates, StopperStates
  <2> QED
    BY <1>1, <1>2, <1>3, <1>4, <1>7, <2>1
       DEF ProducerStates, ConsumerStates, StopperStates, Threads
<1> QED
  BY <1>1, <1>5, <1>6, <1>7, NotifyOneEffect

LEMMA AwaitNotFullTypeOK ==
    ASSUME TypeOK, NEW p \in Producers, pc[p] \in {"push", "full"}, AwaitNotFull(p)
    PROVE  TypeOK'
BY ThreadAssumption
   DEF TypeOK, AwaitNotFull, Threads, ProducerStates, ConsumerStates, StopperStates

LEMMA PopTakeTypeOK ==
    ASSUME TypeOK, NEW c \in Consumers, PopTake(c)
    PROVE  TypeOK'
<1> USE DEF TypeOK
<1>1. c \in Threads /\ c \notin Producers /\ c \notin Stoppers
  BY ThreadAssumption DEF Threads
<1>2. /\ Head(q) \in Items
      /\ q' \in Seq(Items) /\ Len(q') = Len(q) - 1
      /\ Len(q) \in Nat
  BY HeadTailProperties DEF PopTake
<1>3. Len(q') <= MaxSize
  BY <1>2, SizeAssumption
<1>4. last' \in [Producers -> Nat]
  BY <1>2 DEF PopTake, Items
<1>5. UNCHANGED <<stopReading, mutex, sent>>
  BY DEF PopTake
<1>6. CASE pc' = [pc EXCEPT ![c] = "idle"]
  BY <1>1, <1>2, <1>3, <1>4, <1>5, <1>6
     DEF PopTake, ProducerStates, ConsumerStates, StopperStates, Threads
<1>7. ASSUME NEW u \in Threads, pc[u] = "notFull",
             pc' = [pc EXCEPT ![c] = "idle", ![u] = "full"]
      PROVE  TypeOK'
  <2>1. u \in Producers /\ u \notin Consumers /\ u \notin Stoppers
    BY <1>7, ThreadAssumption
       DEF Threads, ProducerStates, ConsumerStates, StopperStates
  <2> QED
    BY <1>1, <1>2, <1>3, <1>4, <1>5, <1>7, <2>1
       DEF PopTake, ProducerStates, ConsumerStates, StopperStates, Threads
<1> QED
  BY <1>1, <1>6, <1>7, NotifyOneEffect DEF PopTake

LEMMA TypeOKInductive == TypeOK /\ [Next]_vars => TypeOK'
<1> SUFFICES ASSUME TypeOK, [Next]_vars PROVE TypeOK'
  OBVIOUS
<1> USE ThreadAssumption, SizeAssumption
    DEF TypeOK, Threads, ProducerStates, ConsumerStates, StopperStates
<1>1. ASSUME NEW p \in Producers, CallPush(p) PROVE TypeOK'
  BY <1>1 DEF CallPush
<1>2. ASSUME NEW p \in Producers, PushDropped(p) PROVE TypeOK'
  BY <1>2 DEF PushDropped
<1>3. ASSUME NEW p \in Producers, PushEnter(p) PROVE TypeOK'
  BY <1>3, EnqueueTypeOK, AwaitNotFullTypeOK DEF PushEnter
<1>4. ASSUME NEW p \in Producers, PushResume(p) PROVE TypeOK'
  BY <1>4, EnqueueTypeOK, AwaitNotFullTypeOK DEF PushResume
<1>5. ASSUME NEW c \in Consumers, CallPop(c) PROVE TypeOK'
  BY <1>5 DEF CallPop
<1>6. ASSUME NEW c \in Consumers, PopTake(c) PROVE TypeOK'
  BY <1>6, PopTakeTypeOK
<1>7. ASSUME NEW c \in Consumers, PopEnd(c) PROVE TypeOK'
  BY <1>7 DEF PopEnd
<1>8. ASSUME NEW c \in Consumers, PopBlock(c) PROVE TypeOK'
  BY <1>8 DEF PopBlock
<1>9. ASSUME NEW c \in Consumers, PopWait(c) PROVE TypeOK'
  BY <1>9 DEF PopWait
<1>10. ASSUME NEW s \in Stoppers, StopReading(s) PROVE TypeOK'
  BY <1>10 DEF StopReading
<1>11. ASSUME NEW s \in Stoppers, NotifyAll(s) PROVE TypeOK'
  BY <1>11 DEF NotifyAll
<1>12. ASSUME NEW t \in Threads, SpuriousWakeup(t) PROVE TypeOK'
  BY <1>12 DEF SpuriousWakeup
<1>13. CASE UNCHANGED vars
  BY <1>13 DEF vars
<1> QED
  BY <1>1, <1>2, <1>3, <1>4, <1>5, <1>6, <1>7, <1>8, <1>9, <1>10, <1>11, <1>12, <1>13
     DEF Next, PushSteps, PopSteps

\* Every variable keeps its type, q_ never outgrows maxSize_, and the mutex is
\* held between two steps by exactly the consumer about to wait.
THEOREM TypeCorrect == Spec => []TypeOK
<1>1. Init => TypeOK
  <2> SUFFICES ASSUME Init PROVE TypeOK
    OBVIOUS
  <2> USE ThreadAssumption, SizeAssumption
  <2>1. q \in Seq(Items) /\ Len(q) <= MaxSize
    BY DEF Init
  <2>2. /\ \A t \in Threads : pc[t] = "idle"
        /\ pc \in [Threads -> ProducerStates \cup ConsumerStates \cup StopperStates]
    BY DEF Init, ProducerStates
  <2>3. /\ \A p \in Producers : pc[p] \in ProducerStates /\ pc[p] = "idle"
        /\ \A c \in Consumers : pc[c] \in ConsumerStates
        /\ \A s \in Stoppers : pc[s] \in StopperStates
    BY <2>2 DEF Threads, ProducerStates, ConsumerStates, StopperStates
  <2>4. \A c \in Consumers : pc[c] = "blocking" <=> mutex = c
    BY <2>2 DEF Init, Threads
  <2>5. stopReading \in BOOLEAN
    BY Zenon DEF Init
  <2>6. mutex \in Consumers \cup {Nobody}
    BY DEF Init
  <2>7. sent \in [Producers -> 0..PushLimit] /\ last \in [Producers -> Nat]
    <3>1. 0 \in 0..PushLimit /\ 0 \in Nat
      OBVIOUS
    <3> QED
      BY <3>1, Zenon DEF Init
  <2> QED
    BY <2>1, <2>2, <2>3, <2>4, <2>5, <2>6, <2>7 DEF TypeOK
<1> QED
  BY <1>1, TypeOKInductive, PTL DEF Spec

-----------------------------------------------------------------------------
(* No wakeup of a reader is lost.                                          *)

\* The consumers on their way to the mutex.
Awake == {c \in Consumers : pc[c] = "pop"}

\* A consumer that holds the mutex, about to wait, still finds the queue empty:
\* this is what lets it fall asleep without a wakeup.
BlockingSeesEmpty == (\E c \in Consumers : pc[c] = "blocking") => q = <<>>

NoStrandedDataInv == BlockingSeesEmpty /\ NoStrandedData

LEMMA AwakeFinite == IsFiniteSet(Awake) /\ Cardinality(Awake) \in Nat
BY ThreadAssumption, FS_Subset, FS_CardinalityType DEF Awake

LEMMA AwakeFiniteNext == IsFiniteSet(Awake') /\ Cardinality(Awake') \in Nat
BY ThreadAssumption, FS_Subset, FS_CardinalityType DEF Awake

\* A step that leaves the queue alone, and puts no consumer to sleep or to work.
LEMMA CalmStep ==
    ASSUME TypeOK, NoStrandedDataInv, q' = q, Awake \subseteq Awake',
           \A c \in Consumers : pc'[c] \in {"blocking", "notEmpty"} => pc'[c] = pc[c]
    PROVE  NoStrandedDataInv'
<1>1. Cardinality(Awake) <= Cardinality(Awake')
  BY AwakeFiniteNext, FS_Subset
<1>2. Len(q) \in Nat
  BY DEF TypeOK
<1>3. BlockingSeesEmpty'
  BY DEF NoStrandedDataInv, BlockingSeesEmpty
<1>4. ASSUME NEW c \in Consumers, pc'[c] = "notEmpty"
      PROVE  Len(q') <= Cardinality(Awake')
  BY <1>1, <1>2, <1>4, AwakeFinite, AwakeFiniteNext
     DEF NoStrandedDataInv, NoStrandedData, Awake
<1> QED
  BY <1>3, <1>4 DEF NoStrandedDataInv, NoStrandedData, Awake

\* A step that ends with an empty queue.
LEMMA EmptyStep == TypeOK /\ q' = <<>> => NoStrandedDataInv'
<1> SUFFICES ASSUME q' = <<>> PROVE NoStrandedDataInv'
  OBVIOUS
<1>1. Len(q') <= Cardinality(Awake')
  BY AwakeFiniteNext
<1> QED
  BY <1>1 DEF NoStrandedDataInv, NoStrandedData, BlockingSeesEmpty, Awake

LEMMA EnqueueNoStranded ==
    ASSUME TypeOK, NoStrandedDataInv, NEW p \in Producers, mutex = Nobody, Enqueue(p)
    PROVE  NoStrandedDataInv'
<1>1. p \in Threads /\ p \notin Consumers
  BY ThreadAssumption DEF Threads
<1>2. \A c \in Consumers : pc[c] # "blocking"
  BY ThreadAssumption DEF TypeOK
<1>3. Len(q') = Len(q) + 1 /\ Len(q) \in Nat
  BY DEF Enqueue, TypeOK
<1>4. NotifyOne(p, "idle", "notEmpty", "pop")
  BY DEF Enqueue
<1>5. pc \in [Threads -> ProducerStates \cup ConsumerStates \cup StopperStates]
  BY DEF TypeOK
<1>6. CASE /\ \A u \in Threads : pc[u] # "notEmpty"
           /\ pc' = [pc EXCEPT ![p] = "idle"]
  BY <1>1, <1>2, <1>5, <1>6
     DEF NoStrandedDataInv, NoStrandedData, BlockingSeesEmpty, Threads
<1>7. ASSUME NEW u \in Threads, pc[u] = "notEmpty",
             pc' = [pc EXCEPT ![p] = "idle", ![u] = "pop"]
      PROVE  NoStrandedDataInv'
  <2>1. u \in Consumers /\ u \notin Awake
    BY <1>7 DEF TypeOK, Threads, ProducerStates, StopperStates, Awake
  <2>2. Awake' = Awake \cup {u}
    BY <1>1, <1>5, <1>7, <2>1 DEF Awake, Threads
  <2>3. Cardinality(Awake') = Cardinality(Awake) + 1
    BY <2>1, <2>2, AwakeFinite, FS_AddElement
  <2>4. Len(q) <= Cardinality(Awake)
    BY <1>7, <2>1 DEF NoStrandedDataInv, NoStrandedData, Awake
  <2>5. Len(q') <= Cardinality(Awake')
    BY <1>3, <2>3, <2>4, AwakeFinite
  <2>6. \A c \in Consumers : pc'[c] # "blocking"
    BY <1>1, <1>2, <1>5, <1>7 DEF Threads
  <2> QED
    BY <2>5, <2>6 DEF NoStrandedDataInv, NoStrandedData, BlockingSeesEmpty, Awake
<1> QED
  BY <1>1, <1>4, <1>6, <1>7, NotifyOneEffect

LEMMA PopTakeNoStranded ==
    ASSUME TypeOK, NoStrandedDataInv, NEW c \in Consumers, PopTake(c)
    PROVE  NoStrandedDataInv'
<1>1. c \in Threads /\ c \in Awake
  BY DEF Threads, PopTake, Awake
<1>2. Len(q') = Len(q) - 1 /\ Len(q) \in Nat
  BY HeadTailProperties DEF PopTake, TypeOK
<1>3. pc \in [Threads -> ProducerStates \cup ConsumerStates \cup StopperStates]
  BY DEF TypeOK
<1>4. \A d \in Consumers : pc[d] # "blocking"
  BY ThreadAssumption DEF TypeOK, PopTake
<1>5. \A d \in Consumers : pc'[d] = IF d = c THEN "idle" ELSE pc[d]
  <2>1. CASE pc' = [pc EXCEPT ![c] = "idle"]
    BY <1>1, <1>3, <2>1 DEF Threads
  <2>2. ASSUME NEW u \in Threads, pc[u] = "notFull",
               pc' = [pc EXCEPT ![c] = "idle", ![u] = "full"]
        PROVE  \A d \in Consumers : pc'[d] = IF d = c THEN "idle" ELSE pc[d]
    <3>1. u \notin Consumers
      BY <2>2 DEF TypeOK, ConsumerStates
    <3> QED
      BY <1>1, <1>3, <2>2, <3>1 DEF Threads
  <2> QED
    BY <1>1, <2>1, <2>2, NotifyOneEffect DEF PopTake
<1>6. Awake' = Awake \ {c}
  BY <1>5 DEF Awake
<1>7. Cardinality(Awake') = Cardinality(Awake) - 1
  BY <1>1, <1>6, AwakeFinite, FS_RemoveElement
<1>8. ASSUME NEW d \in Consumers, pc'[d] = "notEmpty"
      PROVE  Len(q') <= Cardinality(Awake')
  <2>1. Len(q) <= Cardinality(Awake)
    BY <1>5, <1>8 DEF NoStrandedDataInv, NoStrandedData, Awake
  <2> QED
    BY <1>2, <1>7, <2>1, AwakeFinite
<1> QED
  BY <1>4, <1>5, <1>8 DEF NoStrandedDataInv, NoStrandedData, BlockingSeesEmpty, Awake

LEMMA NoStrandedDataInductive ==
    TypeOK /\ NoStrandedDataInv /\ [Next]_vars => NoStrandedDataInv'
<1> SUFFICES ASSUME TypeOK, NoStrandedDataInv, [Next]_vars PROVE NoStrandedDataInv'
  OBVIOUS
<1> DEFINE Calm == /\ q' = q
                   /\ Awake \subseteq Awake'
                   /\ \A c \in Consumers :
                        pc'[c] \in {"blocking", "notEmpty"} => pc'[c] = pc[c]
<1>1. Calm => NoStrandedDataInv'
  BY CalmStep
<1>2. pc \in [Threads -> ProducerStates \cup ConsumerStates \cup StopperStates]
  BY DEF TypeOK
<1>3. \A p \in Producers : p \notin Consumers
  BY ThreadAssumption
<1>4. \A s \in Stoppers : s \notin Consumers
  BY ThreadAssumption
<1>5. ASSUME NEW p \in Producers, CallPush(p) \/ PushDropped(p) \/ AwaitNotFull(p)
      PROVE  NoStrandedDataInv'
  <2>1. Calm
    BY <1>2, <1>3, <1>5 DEF CallPush, PushDropped, AwaitNotFull, Awake, Threads
  <2> QED
    BY <1>1, <2>1
<1>6. ASSUME NEW p \in Producers, PushEnter(p) PROVE NoStrandedDataInv'
  BY <1>5, <1>6, EnqueueNoStranded DEF PushEnter
<1>7. ASSUME NEW p \in Producers, PushResume(p) PROVE NoStrandedDataInv'
  BY <1>5, <1>7, EnqueueNoStranded DEF PushResume
<1>8. ASSUME NEW c \in Consumers, CallPop(c) PROVE NoStrandedDataInv'
  <2>1. Calm
    BY <1>2, <1>8 DEF CallPop, Awake, Threads
  <2> QED
    BY <1>1, <2>1
<1>9. ASSUME NEW c \in Consumers, PopTake(c) PROVE NoStrandedDataInv'
  BY <1>9, PopTakeNoStranded
<1>10. ASSUME NEW c \in Consumers, PopEnd(c) \/ PopBlock(c) PROVE NoStrandedDataInv'
  <2>1. q' = <<>>
    BY <1>10 DEF PopEnd, PopBlock
  <2> QED
    BY <2>1, EmptyStep
<1>11. ASSUME NEW c \in Consumers, PopWait(c) PROVE NoStrandedDataInv'
  <2>1. q' = <<>>
    BY <1>11 DEF PopWait, NoStrandedDataInv, BlockingSeesEmpty
  <2> QED
    BY <2>1, EmptyStep
<1>12. ASSUME NEW s \in Stoppers, StopReading(s) \/ NotifyAll(s) PROVE NoStrandedDataInv'
  <2>1. Calm
    BY <1>2, <1>4, <1>12 DEF StopReading, NotifyAll, Awake, Threads
  <2> QED
    BY <1>1, <2>1
<1>13. ASSUME NEW t \in Threads, SpuriousWakeup(t) PROVE NoStrandedDataInv'
  <2>1. Calm
    BY <1>2, <1>13 DEF SpuriousWakeup, Awake, Threads
  <2> QED
    BY <1>1, <2>1
<1>14. CASE UNCHANGED vars
  <2>1. Calm
    BY <1>14 DEF vars, Awake
  <2> QED
    BY <1>1, <2>1
<1> QED
  BY <1>5, <1>6, <1>7, <1>8, <1>9, <1>10, <1>11, <1>12, <1>13, <1>14
     DEF Next, PushSteps, PopSteps

\* While a reader sleeps in pop(), each queued element has a reader awake for it.
THEOREM NothingStranded == Spec => []NoStrandedData
<1>1. Init => NoStrandedDataInv
  <2> SUFFICES ASSUME Init PROVE NoStrandedDataInv
    OBVIOUS
  <2>1. \A c \in Consumers : pc[c] = "idle"
    BY DEF Init, Threads
  <2> QED
    BY <2>1 DEF NoStrandedDataInv, NoStrandedData, BlockingSeesEmpty
<1>2. NoStrandedDataInv => NoStrandedData
  BY DEF NoStrandedDataInv
<1> QED
  BY <1>1, <1>2, NoStrandedDataInductive, TypeCorrect, PTL DEF Spec

-----------------------------------------------------------------------------
(* Blocked producers.  pop() wakes a single producer, and only when it     *)
(* finds the queue full: enough for one producer, whom no other overtakes. *)

LEMMA BlockedOnlyWhenFullInductive ==
    ASSUME NEW p0 \in Producers, Producers = {p0}
    PROVE  TypeOK /\ BlockedOnlyWhenFull /\ [Next]_vars => BlockedOnlyWhenFull'
<1> SUFFICES ASSUME TypeOK, BlockedOnlyWhenFull, [Next]_vars PROVE BlockedOnlyWhenFull'
  OBVIOUS
<1>1. /\ pc \in [Threads -> ProducerStates \cup ConsumerStates \cup StopperStates]
      /\ p0 \in Threads /\ p0 \notin Consumers /\ p0 \notin Stoppers
  BY ThreadAssumption DEF TypeOK, Threads
<1>2. (pc'[p0] = "notFull" => Len(q') = MaxSize) => BlockedOnlyWhenFull'
  BY DEF BlockedOnlyWhenFull
<1>3. pc[p0] = "notFull" => Len(q) = MaxSize
  BY DEF BlockedOnlyWhenFull
<1>4. ASSUME Enqueue(p0) PROVE BlockedOnlyWhenFull'
  <2>1. CASE pc' = [pc EXCEPT ![p0] = "idle"]
    BY <1>1, <1>2, <2>1
  <2>2. ASSUME NEW u \in Threads, pc' = [pc EXCEPT ![p0] = "idle", ![u] = "pop"]
        PROVE  BlockedOnlyWhenFull'
    BY <1>1, <1>2, <2>2
  <2> QED
    BY <1>1, <1>4, <2>1, <2>2, NotifyOneEffect DEF Enqueue
<1>5. ASSUME NEW p \in Producers, CallPush(p) \/ PushSteps(p) PROVE BlockedOnlyWhenFull'
  <2>1. p = p0
    OBVIOUS
  <2>2. CASE Enqueue(p)
    BY <1>4, <2>1, <2>2
  <2>3. CASE CallPush(p) \/ PushDropped(p)
    BY <1>1, <1>2, <2>1, <2>3 DEF CallPush, PushDropped
  <2>4. CASE Len(q) = MaxSize /\ AwaitNotFull(p)
    BY <1>1, <1>2, <2>4 DEF AwaitNotFull
  <2> QED
    BY <1>5, <2>2, <2>3, <2>4 DEF PushSteps, PushEnter, PushResume
<1>6. ASSUME NEW c \in Consumers, PopTake(c) PROVE BlockedOnlyWhenFull'
  <2>1. c \in Threads /\ c # p0
    BY <1>1 DEF Threads
  <2>2. CASE pc[p0] # "notFull"
    <3>1. pc'[p0] # "notFull"
      <4>1. CASE pc' = [pc EXCEPT ![c] = "idle"]
        BY <1>1, <2>1, <2>2, <4>1
      <4>2. ASSUME NEW u \in Threads, pc' = [pc EXCEPT ![c] = "idle", ![u] = "full"]
            PROVE  pc'[p0] # "notFull"
        BY <1>1, <2>1, <2>2, <4>2
      <4> QED
        BY <1>6, <2>1, <4>1, <4>2, NotifyOneEffect DEF PopTake
    <3> QED
      BY <1>2, <3>1
  <2>3. CASE pc[p0] = "notFull"
    <3>1. NotifyOne(c, "idle", "notFull", "full")
      BY <1>3, <1>6, <2>3 DEF PopTake
    <3>2. PICK u \in Threads : /\ pc[u] = "notFull"
                               /\ pc' = [pc EXCEPT ![c] = "idle", ![u] = "full"]
      BY <1>1, <2>1, <2>3, <3>1, NotifyOneEffect
    <3>3. u = p0
      BY <3>2 DEF TypeOK, Threads, ConsumerStates, StopperStates
    <3> QED
      BY <1>1, <1>2, <3>2, <3>3
  <2> QED
    BY <2>2, <2>3
<1>7. ASSUME NEW c \in Consumers, CallPop(c) \/ PopEnd(c) \/ PopBlock(c) \/ PopWait(c)
      PROVE  BlockedOnlyWhenFull'
  <2>1. q' = q /\ pc'[p0] = pc[p0]
    BY <1>1, <1>7 DEF CallPop, PopEnd, PopBlock, PopWait
  <2> QED
    BY <1>2, <1>3, <2>1
<1>8. ASSUME NEW s \in Stoppers, StopReading(s) \/ NotifyAll(s) PROVE BlockedOnlyWhenFull'
  <2>1. q' = q /\ (pc'[p0] = "notFull" => pc[p0] = "notFull")
    BY <1>1, <1>8 DEF StopReading, NotifyAll
  <2> QED
    BY <1>2, <1>3, <2>1
<1>9. ASSUME NEW t \in Threads, SpuriousWakeup(t) PROVE BlockedOnlyWhenFull'
  <2>1. q' = q /\ (pc'[p0] = "notFull" => pc[p0] = "notFull")
    BY <1>1, <1>9 DEF SpuriousWakeup
  <2> QED
    BY <1>2, <1>3, <2>1
<1>10. CASE UNCHANGED vars
  BY <1>2, <1>3, <1>10 DEF vars
<1> QED
  BY <1>5, <1>6, <1>7, <1>8, <1>9, <1>10 DEF Next, PopSteps

\* With a single producer, push() never sleeps on a queue that has room.
THEOREM LoneProducerNotStranded ==
    ASSUME NEW p0 \in Producers, Producers = {p0}
    PROVE  Spec => []BlockedOnlyWhenFull
<1>1. Init => BlockedOnlyWhenFull
  BY DEF Init, Threads, BlockedOnlyWhenFull
<1>2. TypeOK /\ BlockedOnlyWhenFull /\ [Next]_vars => BlockedOnlyWhenFull'
  BY BlockedOnlyWhenFullInductive
<1> QED
  BY <1>1, <1>2, TypeCorrect, PTL DEF Spec

-----------------------------------------------------------------------------
(* The queue implements the bounded FIFO.                                  *)

\* Producers that have passed the test of stopReading_ and are still blocked,
\* and the readers that have been told of the end.
Admitted == {p \in Producers : pc[p] \in {"notFull", "full"}}
Ended == {c \in Consumers : pc[c] = "ended"}

LEMMA AbstractStutter ==
    ASSUME UNCHANGED <<q, stopReading>>, Admitted' = Admitted, Ended' = Ended
    PROVE  [Abstract!Next]_Abstract!absVars
BY DEF Abstract!absVars, Admitted, Ended

\* An element enters: of a producer let in before, or before the stop.
LEMMA EnqueueIsPut ==
    ASSUME TypeOK, NEW p \in Producers, pc[p] \in {"push", "full"},
           pc[p] = "full" \/ ~stopReading, Len(q) # MaxSize, Enqueue(p)
    PROVE  [Abstract!Next]_Abstract!absVars
<1>1. /\ pc \in [Threads -> ProducerStates \cup ConsumerStates \cup StopperStates]
      /\ p \in Threads /\ p \notin Consumers
  BY ThreadAssumption DEF TypeOK, Threads
<1>2. sent[p] \in 1..PushLimit
  BY SizeAssumption DEF TypeOK
<1>3. Len(q) < MaxSize
  BY SizeAssumption DEF TypeOK
<1>4. Admitted' = Admitted \ {p} /\ Ended' = Ended
  <2>1. CASE pc' = [pc EXCEPT ![p] = "idle"]
    BY <1>1, <2>1 DEF Admitted, Ended, Threads
  <2>2. ASSUME NEW u \in Threads, pc[u] = "notEmpty",
               pc' = [pc EXCEPT ![p] = "idle", ![u] = "pop"]
        PROVE  Admitted' = Admitted \ {p} /\ Ended' = Ended
    <3>1. u \notin Producers
      BY <2>2 DEF TypeOK, ProducerStates
    <3> QED
      BY <1>1, <2>2, <3>1 DEF Admitted, Ended, Threads
  <2> QED
    BY <1>1, <2>1, <2>2, NotifyOneEffect DEF Enqueue
<1>5. p \in Admitted \/ ~stopReading
  BY DEF Admitted
<1>6. Abstract!Put(p)
  BY <1>2, <1>3, <1>4, <1>5 DEF Abstract!Put, Enqueue, Admitted, Ended
<1> QED
  BY <1>6 DEF Abstract!Next

\* A producer that finds the queue full is let in, or was already.
LEMMA AwaitIsAdmit ==
    ASSUME TypeOK, NEW p \in Producers, pc[p] \in {"push", "full"},
           pc[p] = "full" \/ ~stopReading, Len(q) = MaxSize, AwaitNotFull(p)
    PROVE  [Abstract!Next]_Abstract!absVars
<1>1. /\ pc \in [Threads -> ProducerStates \cup ConsumerStates \cup StopperStates]
      /\ p \in Threads /\ p \notin Consumers
  BY ThreadAssumption DEF TypeOK, Threads
<1>2. Admitted' = Admitted \cup {p} /\ Ended' = Ended
  BY <1>1 DEF AwaitNotFull, Admitted, Ended, Threads
<1>3. CASE pc[p] = "full"
  BY <1>2, <1>3, AbstractStutter DEF AwaitNotFull, Admitted
<1>4. CASE pc[p] = "push"
  <2>1. p \notin Admitted
    BY <1>4 DEF Admitted
  <2>2. Abstract!Admit(p)
    BY <1>2, <1>4, <2>1 DEF Abstract!Admit, AwaitNotFull, Admitted, Ended
  <2> QED
    BY <2>2 DEF Abstract!Next
<1> QED
  BY <1>3, <1>4

LEMMA PopTakeIsTake ==
    ASSUME TypeOK, NEW c \in Consumers, PopTake(c)
    PROVE  [Abstract!Next]_Abstract!absVars
<1>1. /\ pc \in [Threads -> ProducerStates \cup ConsumerStates \cup StopperStates]
      /\ c \in Threads /\ c \notin Producers /\ pc[c] = "pop"
  BY ThreadAssumption DEF TypeOK, Threads, PopTake
<1>2. Admitted' = Admitted /\ Ended' = Ended
  <2>1. CASE pc' = [pc EXCEPT ![c] = "idle"]
    BY <1>1, <2>1 DEF Admitted, Ended, Threads
  <2>2. ASSUME NEW u \in Threads, pc[u] = "notFull",
               pc' = [pc EXCEPT ![c] = "idle", ![u] = "full"]
        PROVE  Admitted' = Admitted /\ Ended' = Ended
    BY <1>1, <2>2 DEF Admitted, Ended, Threads
  <2> QED
    BY <1>1, <2>1, <2>2, NotifyOneEffect DEF PopTake
<1>3. Abstract!Take
  BY <1>2 DEF Abstract!Take, PopTake, Admitted, Ended
<1> QED
  BY <1>3 DEF Abstract!Next

LEMMA NextImplementsAbstract ==
    TypeOK /\ [Next]_vars => [Abstract!Next]_Abstract!absVars
<1> SUFFICES ASSUME TypeOK, [Next]_vars PROVE [Abstract!Next]_Abstract!absVars
  OBVIOUS
<1>1. pc \in [Threads -> ProducerStates \cup ConsumerStates \cup StopperStates]
  BY DEF TypeOK
<1>2. ASSUME NEW p \in Producers, CallPush(p) \/ PushDropped(p)
      PROVE  [Abstract!Next]_Abstract!absVars
  <2>1. p \notin Consumers
    BY ThreadAssumption
  <2>2. UNCHANGED <<q, stopReading>> /\ Admitted' = Admitted /\ Ended' = Ended
    BY <1>1, <1>2, <2>1 DEF CallPush, PushDropped, Admitted, Ended, Threads
  <2> QED
    BY <2>2, AbstractStutter
<1>3. ASSUME NEW p \in Producers, PushEnter(p) \/ PushResume(p)
      PROVE  [Abstract!Next]_Abstract!absVars
  BY <1>3, EnqueueIsPut, AwaitIsAdmit DEF PushEnter, PushResume
<1>4. ASSUME NEW c \in Consumers, CallPop(c) \/ PopBlock(c) \/ PopWait(c)
      PROVE  [Abstract!Next]_Abstract!absVars
  <2>1. c \notin Producers
    BY ThreadAssumption
  <2>2. UNCHANGED <<q, stopReading>> /\ Admitted' = Admitted /\ Ended' = Ended
    BY <1>1, <1>4, <2>1 DEF CallPop, PopBlock, PopWait, Admitted, Ended, Threads
  <2> QED
    BY <2>2, AbstractStutter
<1>5. ASSUME NEW c \in Consumers, PopTake(c) PROVE [Abstract!Next]_Abstract!absVars
  BY <1>5, PopTakeIsTake
<1>6. ASSUME NEW c \in Consumers, PopEnd(c) PROVE [Abstract!Next]_Abstract!absVars
  <2>1. c \notin Producers
    BY ThreadAssumption
  <2>2. Admitted' = Admitted /\ Ended' = Ended \cup {c}
    BY <1>1, <1>6, <2>1 DEF PopEnd, Admitted, Ended, Threads
  <2>3. Abstract!End(c)
    BY <1>6, <2>2 DEF Abstract!End, PopEnd, Admitted, Ended
  <2> QED
    BY <2>3 DEF Abstract!Next
<1>7. ASSUME NEW s \in Stoppers, StopReading(s) PROVE [Abstract!Next]_Abstract!absVars
  <2>1. s \notin Producers /\ s \notin Consumers
    BY ThreadAssumption
  <2>2. Admitted' = Admitted /\ Ended' = Ended
    BY <1>1, <1>7, <2>1 DEF StopReading, Admitted, Ended, Threads
  <2>3. Abstract!Stop
    BY <1>7, <2>2 DEF Abstract!Stop, StopReading, Admitted, Ended
  <2> QED
    BY <2>3 DEF Abstract!Next
<1>8. ASSUME NEW s \in Stoppers, NotifyAll(s) PROVE [Abstract!Next]_Abstract!absVars
  <2>1. s \notin Producers /\ s \notin Consumers
    BY ThreadAssumption
  <2>2. UNCHANGED <<q, stopReading>> /\ Admitted' = Admitted /\ Ended' = Ended
    BY <1>1, <1>8, <2>1 DEF NotifyAll, Admitted, Ended, Threads
  <2> QED
    BY <2>2, AbstractStutter
<1>9. ASSUME NEW t \in Threads, SpuriousWakeup(t) PROVE [Abstract!Next]_Abstract!absVars
  <2>1. UNCHANGED <<q, stopReading>> /\ Admitted' = Admitted /\ Ended' = Ended
    BY <1>1, <1>9 DEF SpuriousWakeup, Admitted, Ended, Threads
  <2> QED
    BY <2>1, AbstractStutter
<1>10. CASE UNCHANGED vars
  BY <1>10, AbstractStutter DEF vars, Admitted, Ended
<1> QED
  BY <1>2, <1>3, <1>4, <1>5, <1>6, <1>7, <1>8, <1>9, <1>10 DEF Next, PushSteps, PopSteps

\* push(), pop() and stopReading() amount to a stoppable FIFO of maxSize_ elements.
THEOREM QueueRefines == Spec => ImplementsBoundedQueue
<1>1. Init => Abstract!Init
  BY DEF Init, Abstract!Init, Threads
<1> QED
  BY <1>1, NextImplementsAbstract, TypeCorrect, PTL
     DEF Spec, ImplementsBoundedQueue, Abstract!Spec

-----------------------------------------------------------------------------
(* Order of delivery.                                                      *)

\* How many pushes of p have returned.
Sent(p) == IF pc[p] = "idle" THEN sent[p] ELSE sent[p] - 1

Queued(p, n) == \E j \in DOMAIN q : q[j] = <<p, n>>

\* No push of p was dropped so far: the queue is in use, or p was let in before the stop.
Faithful(p) == ~stopReading \/ pc[p] \in {"notFull", "full"}

\* The elements of p in the queue are in order and without a gap, from the
\* last one popped on; up to the last one pushed, unless a push was dropped,
\* and then no other will follow.
InOrder(p) ==
    /\ last[p] <= Sent(p)
    /\ \A n \in Nat : Queued(p, n) => last[p] < n /\ n <= Sent(p)
    /\ \A m, n \in Nat : last[p] < m /\ m < n /\ Queued(p, n) => Queued(p, m)
    /\ \A i, j \in DOMAIN q : \A m, n \in Nat :
         q[i] = <<p, m>> /\ q[j] = <<p, n>> /\ i < j => m < n
    /\ Faithful(p) => \A n \in Nat : last[p] < n /\ n <= Sent(p) => Queued(p, n)

OrderInv == \A p \in Producers : InOrder(p)

LEMMA CounterTypes ==
    ASSUME TypeOK, NEW p \in Producers
    PROVE  Sent(p) \in Int /\ last[p] \in Nat /\ sent[p] \in Nat
BY SizeAssumption DEF TypeOK, Sent

\* A step that leaves the queue alone, in which pushes return only if dropped.
LEMMA QuietStep ==
    ASSUME NEW p \in Producers, TypeOK, TypeOK', InOrder(p), UNCHANGED <<q, last>>,
           Sent(p) <= Sent(p)',
           Faithful(p)' => Faithful(p) /\ Sent(p)' = Sent(p)
    PROVE  InOrder(p)'
<1>1. Sent(p) \in Int /\ Sent(p)' \in Int /\ last[p] \in Nat
  BY SizeAssumption DEF TypeOK, Sent
<1>2. \A n : Queued(p, n)' <=> Queued(p, n)
  BY DEF Queued
<1>3. last'[p] <= Sent(p)'
  BY <1>1 DEF InOrder
<1>4. \A n \in Nat : Queued(p, n)' => last'[p] < n /\ n <= Sent(p)'
  BY <1>1, <1>2 DEF InOrder
<1>5. \A m, n \in Nat : last'[p] < m /\ m < n /\ Queued(p, n)' => Queued(p, m)'
  BY <1>2 DEF InOrder
<1>6. Faithful(p)' => \A n \in Nat : last'[p] < n /\ n <= Sent(p)' => Queued(p, n)'
  BY <1>2 DEF InOrder
<1> QED
  BY <1>3, <1>4, <1>5, <1>6 DEF InOrder

LEMMA EnqueueInOrder ==
    ASSUME TypeOK, TypeOK', OrderInv, NEW p \in Producers, pc[p] \in {"push", "full"},
           Faithful(p), Enqueue(p)
    PROVE  OrderInv'
<1>1. q \in Seq(Items) /\ sent[p] \in Nat /\ sent[p] > 0
  BY SizeAssumption DEF TypeOK
<1>2. /\ DOMAIN q' = 1..(Len(q) + 1) /\ DOMAIN q = 1..Len(q) /\ Len(q) \in Nat
      /\ \A i \in DOMAIN q : q'[i] = q[i]
      /\ q'[Len(q) + 1] = <<p, sent[p]>>
  BY <1>1 DEF Enqueue
<1>3. UNCHANGED <<stopReading, sent, last>>
  BY DEF Enqueue
<1>4. pc'[p] = "idle" /\ \A r \in Producers \ {p} : pc'[r] = pc[r]
  <2>1. p \in Threads /\ pc \in [Threads -> ProducerStates \cup ConsumerStates \cup StopperStates]
    BY DEF Threads, TypeOK
  <2>2. CASE pc' = [pc EXCEPT ![p] = "idle"]
    BY <2>1, <2>2 DEF Threads
  <2>3. ASSUME NEW u \in Threads, pc[u] = "notEmpty",
               pc' = [pc EXCEPT ![p] = "idle", ![u] = "pop"]
        PROVE  pc'[p] = "idle" /\ \A r \in Producers \ {p} : pc'[r] = pc[r]
    <3>1. u \notin Producers
      BY <2>3 DEF TypeOK, ProducerStates
    <3> QED
      BY <2>1, <2>3, <3>1 DEF Threads
  <2> QED
    BY <2>1, <2>2, <2>3, NotifyOneEffect DEF Enqueue
<1>5. ASSUME NEW r \in Producers, r # p PROVE InOrder(r)'
  <2>1. Sent(r)' = Sent(r) /\ (Faithful(r)' <=> Faithful(r)) /\ last'[r] = last[r]
    BY <1>3, <1>4, <1>5 DEF Sent, Faithful
  <2>2. \A n : Queued(r, n)' <=> Queued(r, n)
    <3>1. \A n : q'[Len(q) + 1] # <<r, n>>
      BY <1>2, <1>5
    <3> QED
      BY <1>2, <3>1 DEF Queued
  <2>3. \A i, j \in DOMAIN q' : \A m, n \in Nat :
          q'[i] = <<r, m>> /\ q'[j] = <<r, n>> /\ i < j => m < n
    <3>1. \A i \in DOMAIN q', m \in Nat : q'[i] = <<r, m>> => i \in DOMAIN q /\ q[i] = <<r, m>>
      BY <1>2, <1>5
    <3> QED
      BY <3>1 DEF OrderInv, InOrder
  <2> QED
    BY <2>1, <2>2, <2>3 DEF OrderInv, InOrder
<1>6. InOrder(p)'
  <2>1. Sent(p) = sent[p] - 1 /\ Sent(p)' = sent[p] /\ last'[p] = last[p] /\ last[p] \in Nat
    BY <1>3, <1>4, CounterTypes DEF Sent
  <2>2. \A n : Queued(p, n)' <=> Queued(p, n) \/ n = sent[p]
    BY <1>2 DEF Queued
  <2>3. /\ last[p] < sent[p]
        /\ \A n \in Nat : Queued(p, n) => last[p] < n /\ n < sent[p]
        /\ \A n \in Nat : last[p] < n /\ n < sent[p] => Queued(p, n)
    BY <1>1, <2>1 DEF OrderInv, InOrder
  <2>4. \A i, j \in DOMAIN q' : \A m, n \in Nat :
          q'[i] = <<p, m>> /\ q'[j] = <<p, n>> /\ i < j => m < n
    <3> SUFFICES ASSUME NEW i \in DOMAIN q', NEW j \in DOMAIN q', NEW m \in Nat, NEW n \in Nat,
                        q'[i] = <<p, m>>, q'[j] = <<p, n>>, i < j
                 PROVE  m < n
      OBVIOUS
    <3>1. i \in DOMAIN q /\ q[i] = <<p, m>>
      BY <1>2
    <3>2. CASE j \in DOMAIN q
      BY <1>2, <3>1, <3>2 DEF OrderInv, InOrder
    <3>3. CASE j = Len(q) + 1
      <4>1. n = sent[p]
        BY <1>2, <3>3
      <4> QED
        BY <2>3, <3>1, <4>1 DEF Queued
    <3> QED
      BY <1>2, <3>2, <3>3
  <2>5. \A n \in Nat : Queued(p, n)' => last'[p] < n /\ n <= Sent(p)'
    BY <1>1, <2>1, <2>2, <2>3
  <2>6. \A m, n \in Nat : last'[p] < m /\ m < n /\ Queued(p, n)' => Queued(p, m)'
    <3> SUFFICES ASSUME NEW m \in Nat, NEW n \in Nat, last[p] < m, m < n, Queued(p, n)'
                 PROVE  Queued(p, m)
      BY <2>1, <2>2
    <3> QED
      BY <1>1, <2>2, <2>3
  <2>7. \A n \in Nat : last'[p] < n /\ n <= Sent(p)' => Queued(p, n)'
    BY <1>1, <2>1, <2>2, <2>3
  <2>8. last'[p] <= Sent(p)'
    BY <1>1, <2>1, <2>3
  <2> QED
    BY <2>4, <2>5, <2>6, <2>7, <2>8 DEF InOrder
<1> QED
  BY <1>5, <1>6 DEF OrderInv

\* pop() removes the successor of the last element of that producer popped.
LEMMA PopTakeInOrder ==
    ASSUME TypeOK, OrderInv, NEW c \in Consumers, PopTake(c)
    PROVE  /\ OrderInv'
           /\ \A p \in Producers : last'[p] \in {last[p], last[p] + 1}
<1>1. q \in Seq(Items) /\ q # <<>> /\ last \in [Producers -> Nat]
  BY DEF TypeOK, PopTake
<1>2. /\ DOMAIN q = 1..Len(q) /\ Len(q) \in Nat /\ 1 \in DOMAIN q
      /\ DOMAIN q' = 1..(Len(q) - 1)
      /\ \A i \in DOMAIN q' : i + 1 \in DOMAIN q /\ q'[i] = q[i + 1]
  <2>1. /\ DOMAIN q = 1..Len(q) /\ Len(q) \in Nat /\ Len(q) > 0
        /\ q' \in Seq(Items) /\ Len(q') = Len(q) - 1
        /\ \A i \in 1..Len(q') : q'[i] = q[i + 1]
    BY <1>1, HeadTailProperties, EmptySeq DEF PopTake
  <2>2. DOMAIN q' = 1..Len(q')
    BY <2>1
  <2> QED
    BY <2>1, <2>2
<1>3. PICK p \in Producers, k \in Nat : q[1] = <<p, k>>
  <2>1. q[1] \in Producers \X Nat
    BY <1>1, <1>2 DEF Items
  <2> QED
    BY <2>1
<1>4. /\ last' = [last EXCEPT ![p] = k]
      /\ UNCHANGED <<stopReading, sent>>
  <2>1. Head(q) = <<p, k>>
    BY <1>1, <1>3
  <2>2. Head(q)[1] = p /\ Head(q)[2] = k
    BY <2>1
  <2> QED
    BY <2>2 DEF PopTake
<1>5. \A r \in Producers : Sent(r)' = Sent(r) /\ (Faithful(r)' <=> Faithful(r))
  <2>1. /\ c \in Threads /\ c \notin Producers
        /\ pc \in [Threads -> ProducerStates \cup ConsumerStates \cup StopperStates]
    BY ThreadAssumption DEF Threads, TypeOK
  <2>2. CASE pc' = [pc EXCEPT ![c] = "idle"]
    BY <1>4, <2>1, <2>2 DEF Threads, Sent, Faithful
  <2>3. ASSUME NEW u \in Threads, pc[u] = "notFull",
               pc' = [pc EXCEPT ![c] = "idle", ![u] = "full"]
        PROVE  \A r \in Producers : Sent(r)' = Sent(r) /\ (Faithful(r)' <=> Faithful(r))
    BY <1>4, <2>1, <2>3 DEF Threads, Sent, Faithful
  <2> QED
    BY <2>1, <2>2, <2>3, NotifyOneEffect DEF PopTake
<1>6. \A r \in Producers, n \in Nat :
        Queued(r, n) <=> Queued(r, n)' \/ <<r, n>> = <<p, k>>
  <2> SUFFICES ASSUME NEW r \in Producers, NEW n \in Nat
               PROVE  Queued(r, n) <=> Queued(r, n)' \/ <<r, n>> = <<p, k>>
    OBVIOUS
  <2>1. Queued(r, n)' => Queued(r, n)
    BY <1>2 DEF Queued
  <2>2. <<r, n>> = <<p, k>> => Queued(r, n)
    BY <1>2, <1>3 DEF Queued
  <2>3. ASSUME NEW j \in DOMAIN q, q[j] = <<r, n>>, j # 1 PROVE Queued(r, n)'
    <3>1. j - 1 \in DOMAIN q' /\ q'[j - 1] = <<r, n>>
      BY <1>2, <2>3
    <3> QED
      BY <3>1 DEF Queued
  <2> QED
    BY <1>3, <2>1, <2>2, <2>3 DEF Queued
<1>7. \A i, j \in DOMAIN q' : \A r \in Producers : \A m, n \in Nat :
        q'[i] = <<r, m>> /\ q'[j] = <<r, n>> /\ i < j => m < n
  <2> SUFFICES ASSUME NEW i \in DOMAIN q', NEW j \in DOMAIN q', NEW r \in Producers,
                      NEW m \in Nat, NEW n \in Nat,
                      q'[i] = <<r, m>>, q'[j] = <<r, n>>, i < j
               PROVE  m < n
    OBVIOUS
  <2>1. /\ i + 1 \in DOMAIN q /\ j + 1 \in DOMAIN q /\ i + 1 < j + 1
        /\ q[i + 1] = <<r, m>> /\ q[j + 1] = <<r, n>>
    BY <1>2
  <2> QED
    BY <2>1 DEF OrderInv, InOrder
<1>8. \A n \in Nat : Queued(p, n)' => k < n
  <2> SUFFICES ASSUME NEW n \in Nat, NEW j \in DOMAIN q', q'[j] = <<p, n>> PROVE k < n
    BY DEF Queued
  <2>1. 1 < j + 1 /\ j + 1 \in DOMAIN q /\ q[j + 1] = <<p, n>>
    BY <1>2
  <2> QED
    BY <1>2, <1>3, <2>1 DEF OrderInv, InOrder
<1>9. last[p] < k /\ k <= Sent(p) /\ last[p] \in Nat /\ Sent(p) \in Int
  BY <1>6, CounterTypes DEF OrderInv, InOrder
<1>10. k = last[p] + 1
  <2> SUFFICES ASSUME NEW m \in Nat, m = last[p] + 1, m < k PROVE FALSE
    BY <1>9
  <2>1. Queued(p, k) /\ \A i, n \in Nat : last[p] < i /\ i < n /\ Queued(p, n) => Queued(p, i)
    BY <1>6 DEF OrderInv, InOrder
  <2>2. Queued(p, m)
    BY <1>9, <2>1
  <2>3. Queued(p, m)'
    BY <1>6, <2>2
  <2> QED
    BY <1>8, <2>3
<1>11. ASSUME NEW r \in Producers, r # p PROVE InOrder(r)'
  <2>1. last'[r] = last[r] /\ \A n \in Nat : Queued(r, n)' <=> Queued(r, n)
    BY <1>1, <1>4, <1>6, <1>11
  <2> QED
    BY <1>5, <1>7, <2>1 DEF OrderInv, InOrder
<1>12. InOrder(p)'
  <2>1. last'[p] = k /\ Sent(p)' = Sent(p) /\ (Faithful(p)' <=> Faithful(p))
    BY <1>1, <1>4, <1>5
  <2>2. \A n \in Nat : Queued(p, n)' <=> Queued(p, n) /\ n # k
    BY <1>6, <1>8
  <2>3. /\ \A n \in Nat : Queued(p, n) => n <= Sent(p)
        /\ \A m, n \in Nat : last[p] < m /\ m < n /\ Queued(p, n) => Queued(p, m)
        /\ Faithful(p) => \A n \in Nat : last[p] < n /\ n <= Sent(p) => Queued(p, n)
    BY DEF OrderInv, InOrder
  <2>4. \A n \in Nat : Queued(p, n)' => last'[p] < n /\ n <= Sent(p)'
    BY <1>8, <2>1, <2>2, <2>3
  <2>5. \A m, n \in Nat : last'[p] < m /\ m < n /\ Queued(p, n)' => Queued(p, m)'
    BY <1>9, <2>1, <2>2, <2>3
  <2>6. Faithful(p)' => \A n \in Nat : last'[p] < n /\ n <= Sent(p)' => Queued(p, n)'
    BY <1>9, <2>1, <2>2, <2>3
  <2> QED
    BY <1>7, <1>9, <2>1, <2>4, <2>5, <2>6 DEF InOrder
<1> QED
  BY <1>1, <1>4, <1>10, <1>11, <1>12 DEF OrderInv

LEMMA OrderInductive ==
    TypeOK /\ TypeOK' /\ OrderInv /\ [Next]_vars
        => /\ OrderInv'
           /\ \A p \in Producers : last'[p] \in {last[p], last[p] + 1}
<1> SUFFICES ASSUME TypeOK, TypeOK', OrderInv, [Next]_vars
             PROVE  /\ OrderInv'
                    /\ \A p \in Producers : last'[p] \in {last[p], last[p] + 1}
  OBVIOUS
<1> DEFINE Quiet == /\ UNCHANGED <<q, last>>
                    /\ \A p \in Producers :
                         /\ Sent(p) <= Sent(p)'
                         /\ Faithful(p)' => Faithful(p) /\ Sent(p)' = Sent(p)
           Goal == /\ OrderInv'
                   /\ \A p \in Producers : last'[p] \in {last[p], last[p] + 1}
<1>1. Quiet => Goal
  BY QuietStep DEF OrderInv
<1>2. /\ pc \in [Threads -> ProducerStates \cup ConsumerStates \cup StopperStates]
      /\ \A p \in Producers : sent[p] \in Nat /\ p \notin Consumers /\ p \notin Stoppers
      /\ Producers \subseteq Threads /\ sent \in [Producers -> 0..PushLimit]
  BY ThreadAssumption, SizeAssumption DEF TypeOK, Threads
<1>3. ASSUME NEW p \in Producers, CallPush(p) PROVE Goal
  <2>1. Quiet
    BY <1>2, <1>3 DEF CallPush, Sent, Faithful
  <2> QED
    BY <1>1, <2>1
<1>4. ASSUME NEW p \in Producers, PushDropped(p) PROVE Goal
  <2>1. Quiet
    BY <1>2, <1>4 DEF PushDropped, Sent, Faithful
  <2> QED
    BY <1>1, <2>1
<1>5. ASSUME NEW p \in Producers, pc[p] \in {"push", "full"}, Faithful(p), AwaitNotFull(p)
      PROVE  Goal
  <2>1. Quiet
    BY <1>2, <1>5 DEF AwaitNotFull, Sent, Faithful
  <2> QED
    BY <1>1, <2>1
<1>6. ASSUME NEW p \in Producers, pc[p] \in {"push", "full"}, Faithful(p), Enqueue(p)
      PROVE  Goal
  <2>1. last' = last
    BY <1>6 DEF Enqueue
  <2> QED
    BY <1>6, <2>1, EnqueueInOrder
<1>7. ASSUME NEW p \in Producers, PushEnter(p) \/ PushResume(p) PROVE Goal
  BY <1>5, <1>6, <1>7 DEF PushEnter, PushResume, Faithful
<1>8. ASSUME NEW c \in Consumers, CallPop(c) \/ PopEnd(c) \/ PopBlock(c) \/ PopWait(c)
      PROVE  Goal
  <2>1. \A p \in Producers : pc'[p] = pc[p]
    BY <1>2, <1>8 DEF CallPop, PopEnd, PopBlock, PopWait
  <2>2. UNCHANGED <<q, last, sent, stopReading>>
    BY <1>8 DEF CallPop, PopEnd, PopBlock, PopWait
  <2>3. Quiet
    BY <1>2, <2>1, <2>2 DEF Sent, Faithful
  <2> QED
    BY <1>1, <2>3
<1>9. ASSUME NEW c \in Consumers, PopTake(c) PROVE Goal
  BY <1>9, PopTakeInOrder
<1>10. ASSUME NEW s \in Stoppers, StopReading(s) \/ NotifyAll(s) PROVE Goal
  <2>1. \A p \in Producers : pc'[p] = pc[p]
    BY <1>2, <1>10 DEF StopReading, NotifyAll, TypeOK, ProducerStates
  <2>2. UNCHANGED <<q, last, sent>> /\ (stopReading => stopReading')
    BY <1>10 DEF StopReading, NotifyAll
  <2>3. Quiet
    BY <1>2, <2>1, <2>2 DEF Sent, Faithful
  <2> QED
    BY <1>1, <2>3
<1>11. ASSUME NEW t \in Threads, SpuriousWakeup(t) PROVE Goal
  <2>1. \A p \in Producers : \/ pc'[p] = pc[p]
                             \/ pc[p] = "notFull" /\ pc'[p] = "full"
    BY <1>2, <1>11 DEF SpuriousWakeup, TypeOK, ProducerStates
  <2>2. UNCHANGED <<q, last, sent, stopReading>>
    BY <1>11 DEF SpuriousWakeup
  <2>3. Quiet
    BY <1>2, <2>1, <2>2 DEF Sent, Faithful
  <2> QED
    BY <1>1, <2>3
<1>12. CASE UNCHANGED vars
  <2>1. Quiet
    BY <1>2, <1>12 DEF vars, Sent, Faithful
  <2> QED
    BY <1>1, <2>1
<1> QED
  BY <1>3, <1>4, <1>7, <1>8, <1>9, <1>10, <1>11, <1>12 DEF Next, PushSteps, PopSteps

\* What pop() returns of a producer is, element by element, what it pushed.
THEOREM OrderKept == Spec => InOrderDelivery
<1>1. Init => OrderInv
  <2> SUFFICES ASSUME Init, NEW p \in Producers PROVE InOrder(p)
    BY DEF OrderInv
  <2>1. pc[p] = "idle" /\ sent[p] = 0 /\ last[p] = 0 /\ q = <<>>
    BY DEF Init, Threads
  <2>2. DOMAIN q = {}
    BY <2>1
  <2> QED
    BY <2>1, <2>2 DEF InOrder, Sent, Queued
<1>2. TypeOK /\ TypeOK' /\ OrderInv /\ [Next]_vars
        => [\A p \in Producers : last'[p] \in {last[p], last[p] + 1}]_vars
  BY OrderInductive
<1> QED
  BY <1>1, <1>2, OrderInductive, TypeCorrect, PTL DEF Spec, InOrderDelivery
=============================================================================
