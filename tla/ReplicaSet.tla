----------------------------- MODULE ReplicaSet -----------------------------
(***************************************************************************)
(* What the peers of src/src/peer.cpp are for, without sessions, frames,   *)
(* numbers of files and lists: a file is put into the network once, whole, *)
(* by the node of its user, and spreads from there chunk by chunk.  What a *)
(* node serves it was given by its user or has from a node that serves it. *)
(***************************************************************************)
CONSTANTS Node, File, Chunk,
          Owner  \* the node whose user inserts the file

VARIABLE holds   \* holds[n]: what n serves, as <<file, chunk, bytes>>

Init == holds = [n \in Node |-> {}]

\* A file enters the network, with its own bytes, if nobody has any of it.
Publish(f) ==
    /\ \A n \in Node : \A x \in holds[n] : x[1] # f
    /\ holds' = [holds EXCEPT ![Owner[f]] = @ \cup {<<f, c, f>> : c \in Chunk}]

\* The node n gets from m a chunk that m serves.
Copy(n, m) == \E x \in holds[m] : holds' = [holds EXCEPT ![n] = @ \cup {x}]

Next == (\E f \in File : Publish(f)) \/ (\E n, m \in Node : Copy(n, m))

Spec == Init /\ [][Next]_holds
=============================================================================
