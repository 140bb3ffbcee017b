---------------------------- MODULE BoundedQueue ----------------------------
(***************************************************************************)
(* What ThreadSafeQueue (src/src/ThreadSafeQueue.h) promises the threads   *)
(* that share it, without its mutex, its condition variables and the       *)
(* threads that wait on them: a FIFO of at most MaxSize elements that can  *)
(* be stopped.  Once it is stopped only the pushes already admitted may    *)
(* still enter it, and a reader is told that the data has ended only when  *)
(* the queue is stopped and empty.                                         *)
(***************************************************************************)
EXTENDS Naturals, Sequences

CONSTANTS Producers,  \* threads that push
          Consumers,  \* threads that pop
          MaxSize,    \* maxSize_, the size at which a push blocks
          Serials     \* the numbers that tell a producer's elements apart

VARIABLES q,        \* the elements, oldest first
          stopped,  \* whether reading has been stopped
          admitted, \* producers let in before the stop and still blocked
          ended     \* consumers told that no more data will come

absVars == <<q, stopped, admitted, ended>>

Init ==
    /\ q = <<>>
    /\ stopped = FALSE
    /\ admitted = {}
    /\ ended = {}

\* A push finds the queue full: its producer is let in but has to wait.
Admit(p) ==
    /\ ~stopped
    /\ p \notin admitted
    /\ Len(q) = MaxSize
    /\ admitted' = admitted \cup {p}
    /\ UNCHANGED <<q, stopped, ended>>

\* An element enters, of a producer that was admitted or comes before the stop.
Put(p) ==
    /\ p \in admitted \/ ~stopped
    /\ Len(q) < MaxSize
    /\ \E n \in Serials : q' = Append(q, <<p, n>>)
    /\ admitted' = admitted \ {p}
    /\ UNCHANGED <<stopped, ended>>

\* The oldest element leaves.
Take ==
    /\ q # <<>>
    /\ q' = Tail(q)
    /\ UNCHANGED <<stopped, admitted, ended>>

Stop ==
    /\ stopped' = TRUE
    /\ UNCHANGED <<q, admitted, ended>>

\* A reader learns that there is nothing left to read.
End(c) ==
    /\ stopped
    /\ q = <<>>
    /\ ended' = ended \cup {c}
    /\ UNCHANGED <<q, stopped, admitted>>

Next ==
    \/ \E p \in Producers : Admit(p) \/ Put(p)
    \/ Take
    \/ Stop
    \/ \E c \in Consumers : End(c)

Spec == Init /\ [][Next]_absVars
=============================================================================
