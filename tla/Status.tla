------------------------------- MODULE Status -------------------------------
(***************************************************************************)
(* The figures that "query" prints, src/src/Status.cpp and Peer::query()   *)
(* of src/src/peer.cpp: how much of a file is present at this node and in  *)
(* the network, as this node sees it.  query() reads the file lists and    *)
(* changes nothing, so its figures are functions of the state of Peer.     *)
(* Fractions are given by their numerators, over ChunkCount.               *)
(***************************************************************************)
EXTENDS Peer

\* The chunks of file num that n takes m to have.
ChunksAt(n, m, num) ==
    IF num \in NumsOf(n, m) THEN heap[n][FileOf(n, m, num)].has ELSE {}

\* Mistake: the node is one of the peers that it adds to itself.
ReportingWithSelf(n) == {m \in Node : state[n][m] = "ONLINE"}

\* The peers that are counted besides n.
Reporting(n) == {m \in Node \ {n} : state[n][m] = "ONLINE"}

\* _local.
Local(n, o) == Cardinality(heap[n][o].has)

\* _system: a chunk counts once.
SystemChunks(n, o) ==
    heap[n][o].has \cup UNION {ChunksAt(n, m, heap[n][o].num) : m \in Reporting(n)}

\* Chunks of remote peers, each as often as it is there.
RemoteCount(n, o) ==
    Cardinality({p \in Reporting(n) \X Chunk : p[2] \in ChunksAt(n, p[1], heap[n][o].num)})

\* _weightedLeastReplication.
WeightedReplication(n, o) == RemoteCount(n, o) + Local(n, o)

\* _leastReplication, for the index of a peer in peers.txt as in the code.
\* The chunk that is tested is that with the number of the peer, so that all
\* chunks count the same, and the first is taken to be the least replicated.
LeastReplicated(n, o) ==
    LET count(c) == Cardinality({i \in 0..(MaxPeers - 1) :
                      /\ state[n][PeerAt[n][i]] = "ONLINE"
                      /\ i \in ChunksAt(n, PeerAt[n][i], heap[n][o].num)})
    IN  CHOOSE c \in Chunk : \A d \in Chunk : count(c) <= count(d) /\ (count(d) = count(c) => c <= d)

-----------------------------------------------------------------------------
\* How often the chunks of a file are stored in the network.
Stored(name) == {p \in Running \X Chunk : disk[p[1]][name][p[2]] = name}

\* What query() counts is there: no more copies than disks hold, and no chunk
\* in the system that no disk holds.
ReportIsHonest ==
    \A n \in Running : \A o \in Listed(n, n) :
        LET stored == Stored(heap[n][o].name)
        IN  /\ WeightedReplication(n, o) <= Cardinality(stored)
            /\ SystemChunks(n, o) \subseteq {p[2] : p \in stored}

\* Once nothing is under way from m to n, n counts each chunk that m has
\* downloaded; those that m was the first to have, it never counts.
ReportIsComplete ==
    \A n, m \in Running : \A o \in Listed(m, m) :
        (/\ n # m /\ m \in Reporting(n) /\ life[n] = "serving"
         /\ Owner[heap[m][o].name] # m
         /\ req[m][n] = <<>> /\ rep[n][m] = <<>>)
        => heap[m][o].has \subseteq ChunksAt(n, m, heap[m][o].num)
=============================================================================
