---------------------------- MODULE FrameChannel ----------------------------
(***************************************************************************)
(* What the sessions of src/src/Connection.cpp promise the protocol of     *)
(* src/src/peer.cpp, and what the module Peer takes for granted: each      *)
(* direction of a session hands over the frames it was given, whole, in    *)
(* the order they were given and each once.  While the session is not      *)
(* disturbed every frame arrives; once it is, the rest may be lost, from   *)
(* some frame on.  A process that blocks itself on its own full queues     *)
(* disturbs its sessions as much as one that ends: this is no promise that *)
(* frames arrive however many there are.                                   *)
(***************************************************************************)
EXTENDS Naturals

CONSTANT Direction  \* the directions of all sessions

VARIABLES sent,     \* how many frames each direction was given
          got,      \* how many frames it handed over
          disturbed \* whether frames may be lost from now on

channelVars == <<sent, got, disturbed>>

Init ==
    /\ sent = [d \in Direction |-> 0]
    /\ got = [d \in Direction |-> 0]
    /\ disturbed = [d \in Direction |-> FALSE]

Send(d) ==
    /\ sent' = [sent EXCEPT ![d] = @ + 1]
    /\ UNCHANGED <<got, disturbed>>

\* The next frame arrives; how much of the rest still does is left open.
Deliver(d) ==
    /\ got[d] < sent[d]
    /\ got' = [got EXCEPT ![d] = @ + 1]
    /\ UNCHANGED <<sent, disturbed>>

\* Something ends: a queue is stopped, a socket shut down, a process is gone or
\* has blocked itself.
Disturb ==
    /\ disturbed' \in [Direction -> BOOLEAN]
    /\ \A d \in Direction : disturbed[d] => disturbed'[d]
    /\ UNCHANGED <<sent, got>>

Next == Disturb \/ \E d \in Direction : Send(d) \/ Deliver(d)

Spec == Init /\ [][Next]_channelVars

\* A frame on an undisturbed session does not wait for ever.
FairSpec ==
    Spec /\ \A d \in Direction : WF_channelVars(~disturbed[d] /\ Deliver(d))
=============================================================================
