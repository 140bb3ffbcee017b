--------------------------- MODULE ThreadSafeQueue ---------------------------
(***************************************************************************)
(* ThreadSafeQueue<T> of src/src/ThreadSafeQueue.h, at the grain of its    *)
(* mutex.  push() and pop() hold dataMutex_ from their first line to their *)
(* return or to a wait(), so each such stretch is one action; stopReading()*)
(* takes no mutex, so its two statements are two actions, and the stretch  *)
(* of pop() that has seen "empty and not stopped" but has not yet entered  *)
(* wait() is a state of its own, in which the mutex is held.               *)
(*                                                                         *)
(* The value a producer pushes is its own name and a serial number, which  *)
(* is all the properties tell apart.                                       *)
(***************************************************************************)
EXTENDS Integers, Sequences, FiniteSets

CONSTANTS Producers,  \* threads that push
          Consumers,  \* threads that pop in a loop until pop returns false
          Stoppers,   \* threads that call stopReading once
          MaxSize,    \* maxSize_
          PushLimit,  \* bound: how many elements each producer pushes
          Nobody      \* the owner of a free mutex

ASSUME ThreadAssumption ==
    /\ IsFiniteSet(Consumers)
    /\ Producers \cap Consumers = {}
    /\ Producers \cap Stoppers = {}
    /\ Consumers \cap Stoppers = {}
    /\ Nobody \notin Consumers

ASSUME SizeAssumption == MaxSize \in Nat \ {0} /\ PushLimit \in Nat

VARIABLES q,           \* q_, oldest element first
          stopReading, \* stopReading_
          mutex,       \* dataMutex_: the consumer about to wait, or Nobody
          pc,          \* where each thread is
          sent,        \* how many pushes each producer has started
          last         \* serial of the last element of each producer popped

vars == <<q, stopReading, mutex, pc, sent, last>>

Threads == Producers \cup Consumers \cup Stoppers

(***************************************************************************)
(* "push" and "pop": wants the mutex at the top of the call.  "notFull",   *)
(* "notEmpty": inside wait() of that condition variable.  "full": woken    *)
(* from notFull_, wants the mutex back.  "blocking": inside pop(), holding *)
(* the mutex, about to wait.  "ended": pop returned false.  "notifying":   *)
(* stopReading_ is set, notify_all() is not yet called.                    *)
(***************************************************************************)
ProducerStates == {"idle", "push", "notFull", "full"}
ConsumerStates == {"idle", "pop", "blocking", "notEmpty", "ended"}
StopperStates  == {"idle", "notifying", "done"}

Items == Producers \X Nat

Init ==
    /\ q = <<>>
    /\ stopReading = FALSE
    /\ mutex = Nobody
    /\ pc = [t \in Threads |-> "idle"]
    /\ sent = [p \in Producers |-> 0]
    /\ last = [p \in Producers |-> 0]

-----------------------------------------------------------------------------
\* notify_one(): thread t moves on to at; one of those waiting in cv, if any, wakes.
NotifyOne(t, at, cv, woken) ==
    LET waiting == {u \in Threads : pc[u] = cv}
    IN  IF waiting = {}
        THEN pc' = [pc EXCEPT ![t] = at]
        ELSE \E u \in waiting : pc' = [pc EXCEPT ![t] = at, ![u] = woken]

\* A producer calls push() with its next element.
CallPush(p) ==
    /\ pc[p] = "idle"
    /\ sent[p] < PushLimit
    /\ sent' = [sent EXCEPT ![p] = @ + 1]
    /\ pc' = [pc EXCEPT ![p] = "push"]
    /\ UNCHANGED <<q, stopReading, mutex, last>>

\* Mistake: a reader is woken only by the first element of an empty queue.
EnqueueWakesOnFirst(p) ==
    /\ q' = Append(q, <<p, sent[p]>>)
    /\ IF q = <<>> THEN NotifyOne(p, "idle", "notEmpty", "pop")
                   ELSE pc' = [pc EXCEPT ![p] = "idle"]
    /\ UNCHANGED <<stopReading, mutex, sent, last>>

\* Mistake: push() wakes nobody.
EnqueueSilent(p) ==
    /\ q' = Append(q, <<p, sent[p]>>)
    /\ pc' = [pc EXCEPT ![p] = "idle"]
    /\ UNCHANGED <<stopReading, mutex, sent, last>>

\* q_.push(data), notEmpty_.notify_one() and the return of push().
Enqueue(p) ==
    /\ q' = Append(q, <<p, sent[p]>>)
    /\ NotifyOne(p, "idle", "notEmpty", "pop")
    /\ UNCHANGED <<stopReading, mutex, sent, last>>

\* notFull_.wait(lock): the mutex is free again.
AwaitNotFull(p) ==
    /\ pc' = [pc EXCEPT ![p] = "notFull"]
    /\ UNCHANGED <<q, stopReading, mutex, sent, last>>

\* push() on a stopped queue returns at once: the element is dropped.
PushDropped(p) ==
    /\ pc[p] = "push"
    /\ mutex = Nobody
    /\ stopReading
    /\ pc' = [pc EXCEPT ![p] = "idle"]
    /\ UNCHANGED <<q, stopReading, mutex, sent, last>>

\* push() on a queue in use enqueues, or waits for room.
PushEnter(p) ==
    /\ pc[p] = "push"
    /\ mutex = Nobody
    /\ ~stopReading
    /\ IF Len(q) = MaxSize THEN AwaitNotFull(p) ELSE Enqueue(p)

\* Mistake: "if" for "while", the size is not tested again after the wait.
PushResumeUnchecked(p) ==
    /\ pc[p] = "full"
    /\ mutex = Nobody
    /\ Enqueue(p)

\* Mistake: a producer that finds the queue full again gives its element up.
PushResumeGivesUp(p) ==
    /\ pc[p] = "full"
    /\ mutex = Nobody
    /\ IF Len(q) = MaxSize
       THEN /\ pc' = [pc EXCEPT ![p] = "idle"]
            /\ UNCHANGED <<q, stopReading, mutex, sent, last>>
       ELSE Enqueue(p)

\* A producer back from wait() tests the size again, and only the size.
PushResume(p) ==
    /\ pc[p] = "full"
    /\ mutex = Nobody
    /\ IF Len(q) = MaxSize THEN AwaitNotFull(p) ELSE Enqueue(p)

-----------------------------------------------------------------------------
\* The consumer's loop calls pop() again.
CallPop(c) ==
    /\ pc[c] = "idle"
    /\ pc' = [pc EXCEPT ![c] = "pop"]
    /\ UNCHANGED <<q, stopReading, mutex, sent, last>>

\* Mistake: the test for a full queue comes after the removal.
PopTakeTestsLate(c) ==
    /\ pc[c] = "pop"
    /\ mutex = Nobody
    /\ q # <<>>
    /\ q' = Tail(q)
    /\ IF Len(q') = MaxSize
       THEN NotifyOne(c, "idle", "notFull", "full")
       ELSE pc' = [pc EXCEPT ![c] = "idle"]
    /\ last' = [last EXCEPT ![Head(q)[1]] = Head(q)[2]]
    /\ UNCHANGED <<stopReading, mutex, sent>>

\* Mistake: pop() signals the wrong condition variable.
PopTakeWakesReader(c) ==
    /\ pc[c] = "pop"
    /\ mutex = Nobody
    /\ q # <<>>
    /\ NotifyOne(c, "idle", "notEmpty", "pop")
    /\ q' = Tail(q)
    /\ last' = [last EXCEPT ![Head(q)[1]] = Head(q)[2]]
    /\ UNCHANGED <<stopReading, mutex, sent>>

\* pop() has an element to return; the test for a full queue comes before the removal.
PopTake(c) ==
    /\ pc[c] = "pop"
    /\ mutex = Nobody
    /\ q # <<>>
    /\ IF Len(q) = MaxSize
       THEN NotifyOne(c, "idle", "notFull", "full")
       ELSE pc' = [pc EXCEPT ![c] = "idle"]
    /\ q' = Tail(q)
    /\ last' = [last EXCEPT ![Head(q)[1]] = Head(q)[2]]
    /\ UNCHANGED <<stopReading, mutex, sent>>

\* Mistake: pop() gives up on any empty queue.
PopEndUnstopped(c) ==
    /\ pc[c] = "pop"
    /\ mutex = Nobody
    /\ q = <<>>
    /\ pc' = [pc EXCEPT ![c] = "ended"]
    /\ UNCHANGED <<q, stopReading, mutex, sent, last>>

\* pop() returns false: empty and stopped.
PopEnd(c) ==
    /\ pc[c] = "pop"
    /\ mutex = Nobody
    /\ q = <<>>
    /\ stopReading
    /\ pc' = [pc EXCEPT ![c] = "ended"]
    /\ UNCHANGED <<q, stopReading, mutex, sent, last>>

\* pop() finds the queue empty and not stopped, and decides to wait ...
PopBlock(c) ==
    /\ pc[c] = "pop"
    /\ mutex = Nobody
    /\ q = <<>>
    /\ ~stopReading
    /\ mutex' = c
    /\ pc' = [pc EXCEPT ![c] = "blocking"]
    /\ UNCHANGED <<q, stopReading, sent, last>>

\* ... and then enters notEmpty_.wait(lock), which frees the mutex.
PopWait(c) ==
    /\ pc[c] = "blocking"
    /\ mutex' = Nobody
    /\ pc' = [pc EXCEPT ![c] = "notEmpty"]
    /\ UNCHANGED <<q, stopReading, sent, last>>

-----------------------------------------------------------------------------
\* stopReading(), first statement; the mutex is not taken.
StopReading(s) ==
    /\ pc[s] = "idle"
    /\ stopReading' = TRUE
    /\ pc' = [pc EXCEPT ![s] = "notifying"]
    /\ UNCHANGED <<q, mutex, sent, last>>

\* stopReading(), second statement: notEmpty_.notify_all().  notFull_ is not notified.
NotifyAll(s) ==
    /\ pc[s] = "notifying"
    /\ pc' = [t \in Threads |-> IF t = s THEN "done"
                                ELSE IF pc[t] = "notEmpty" THEN "pop" ELSE pc[t]]
    /\ UNCHANGED <<q, stopReading, mutex, sent, last>>

\* A condition variable may wake a waiter for no reason.
SpuriousWakeup(t) ==
    /\ \/ pc[t] = "notFull" /\ pc' = [pc EXCEPT ![t] = "full"]
       \/ pc[t] = "notEmpty" /\ pc' = [pc EXCEPT ![t] = "pop"]
    /\ UNCHANGED <<q, stopReading, mutex, sent, last>>

-----------------------------------------------------------------------------
PushSteps(p) == PushDropped(p) \/ PushEnter(p) \/ PushResume(p)
PopSteps(c) == PopTake(c) \/ PopEnd(c) \/ PopBlock(c)

Next ==
    \/ \E p \in Producers : CallPush(p) \/ PushSteps(p)
    \/ \E c \in Consumers : CallPop(c) \/ PopSteps(c) \/ PopWait(c)
    \/ \E s \in Stoppers : StopReading(s) \/ NotifyAll(s)
    \/ \E t \in Threads : SpuriousWakeup(t)

Spec == Init /\ [][Next]_vars

(***************************************************************************)
(* A thread inside a call is scheduled again; one that finds the mutex     *)
(* free over and over gets it in the end (strong fairness); a consumer     *)
(* comes back for more.  Nobody has to push or to stop the queue, and no   *)
(* waiter may count on a spurious wakeup.                                  *)
(***************************************************************************)
Fairness ==
    /\ \A p \in Producers : SF_vars(PushSteps(p))
    /\ \A c \in Consumers : SF_vars(PopSteps(c)) /\ WF_vars(CallPop(c) \/ PopWait(c))
    /\ \A s \in Stoppers : WF_vars(NotifyAll(s))

FairSpec == Spec /\ Fairness

-----------------------------------------------------------------------------
(***************************************************************************)
(* Safety.                                                                 *)
(***************************************************************************)

\* Types of the variables; q_ never outgrows maxSize_, and the mutex is held
\* across two steps by exactly the consumer that is about to wait.
TypeOK ==
    /\ q \in Seq(Items)
    /\ Len(q) <= MaxSize
    /\ stopReading \in BOOLEAN
    /\ mutex \in Consumers \cup {Nobody}
    /\ pc \in [Threads -> ProducerStates \cup ConsumerStates \cup StopperStates]
    /\ \A p \in Producers : pc[p] \in ProducerStates
    /\ \A c \in Consumers : pc[c] \in ConsumerStates
    /\ \A s \in Stoppers : pc[s] \in StopperStates
    /\ \A c \in Consumers : pc[c] = "blocking" <=> mutex = c
    /\ sent \in [Producers -> 0..PushLimit]
    /\ \A p \in Producers : pc[p] # "idle" => sent[p] > 0
    /\ last \in [Producers -> Nat]

\* No wakeup of a reader is lost: while a consumer sleeps in pop(), each
\* element in the queue has a consumer awake and on its way to the mutex.  The
\* notify_one() of push() and the recheck in the loop of pop() provide it,
\* however producers, consumers and spurious wakeups interleave.
NoStrandedData ==
    (\E c \in Consumers : pc[c] = "notEmpty")
        => Len(q) <= Cardinality({c \in Consumers : pc[c] = "pop"})

\* A producer sleeps in push() only while the queue is full.  It holds for
\* the "one producer" the comment on stopReading() speaks of; with two, the
\* single notify_one() of pop(), sent only from a full queue, is not enough.
BlockedOnlyWhenFull ==
    \A p \in Producers : pc[p] = "notFull" => Len(q) = MaxSize

\* What pop() hands out of one producer is the next element that producer
\* pushed: nothing is lost, repeated or overtaken on the way through the queue.
InOrderDelivery ==
    [][\A p \in Producers : last'[p] \in {last[p], last[p] + 1}]_vars

\* ThreadSafeQueue is a bounded FIFO that can be stopped.
Abstract == INSTANCE BoundedQueue
    WITH Serials  <- 1..PushLimit,
         stopped  <- stopReading,
         admitted <- {p \in Producers : pc[p] \in {"notFull", "full"}},
         ended    <- {c \in Consumers : pc[c] = "ended"}

ImplementsBoundedQueue == Abstract!Spec

(***************************************************************************)
(* Liveness, under FairSpec.                                               *)
(***************************************************************************)

\* "If the queue is cuurently at its max size, the calling thread is locked
\* until more data is popped from the queue": a producer blocked in push()
\* gets on, since the consumers keep popping.
BlockedProducerResumes ==
    \A p \in Producers : pc[p] = "notFull" ~> pc[p] # "notFull"

\* An element in the queue is popped, or every reader was told that the data
\* has ended before the element came.
QueuedDataIsRead ==
    \A p \in Producers, n \in 1..PushLimit :
        (<<p, n>> \in {q[i] : i \in DOMAIN q})
            ~> (last[p] >= n \/ \A c \in Consumers : pc[c] = "ended")

\* "All readers waiting to pop are unblocked": no reader sleeps on once
\* stopReading() has been called.
StopUnblocksReaders ==
    \A c \in Consumers :
        (stopReading /\ pc[c] = "notEmpty") ~> pc[c] # "notEmpty"
=============================================================================
