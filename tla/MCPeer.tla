------------------------------- MODULE MCPeer -------------------------------
(***************************************************************************)
(* Instances of Peer for TLC: the order of peers.txt on each node, who     *)
(* inserts which file, and networks that are already up.                   *)
(***************************************************************************)
EXTENDS Status, TLC

CONSTANTS a, b, c, f, g

Pair == {a, b}
Trio == {a, b, c}

PairOrder == a :> (0 :> a @@ 1 :> b) @@ b :> (0 :> b @@ 1 :> a)

\* Each asks the next one on the ring for chunks.
RingOrder == a :> (0 :> a @@ 1 :> b @@ 2 :> c) @@ b :> (0 :> b @@ 1 :> c @@ 2 :> a)
             @@ c :> (0 :> c @@ 1 :> a @@ 2 :> b)

\* All ask a.
HubOrder == a :> (0 :> a @@ 1 :> b @@ 2 :> c) @@ b :> (0 :> b @@ 1 :> a @@ 2 :> c)
            @@ c :> (0 :> c @@ 1 :> a @@ 2 :> b)

NoFiles == {}
OneFile == {f}
TwoFiles == {f, g}
AllOfA == [x \in File |-> a]
OneEach == f :> a @@ g :> b

(***************************************************************************)
(* The network after the first k of a, b and c have joined it in turn, and *)
(* before the first file: each found those before it, and was announced to *)
(* them; the session is that of the later one.                             *)
(***************************************************************************)
Turn == a :> 1 @@ b :> 2 @@ c :> 3

Up(k) ==
    LET up == {n \in Running : Turn[n] <= k}
    IN  /\ life = [n \in Running |-> IF n \in up THEN "serving" ELSE "off"]
        /\ state = [n \in Running |-> [m \in Node |->
                      IF n \notin up THEN "UNKNOWN" ELSE IF m \in up THEN "ONLINE" ELSE "OFFLINE"]]
        /\ cli = [n \in Running |-> [at |-> "ready", i |-> 0]]
        /\ info = [n \in Running |-> [m \in Node |-> {}]]
        /\ pending = [n \in Running |-> NoFile]
        /\ req = [n \in Running |-> [m \in Node |-> <<>>]]
        /\ rep = [n \in Running |-> [m \in Node |-> <<>>]]

InitUp(k) ==
    /\ Up(k)
    /\ link = [n \in Running |-> [m \in Node |->
                 IF Turn[n] <= k /\ Turn[m] < Turn[n] THEN "open" ELSE "none"]]
    /\ heap = [n \in Running |-> <<>>]
    /\ files = [n \in Running |-> [m \in Node |-> <<>>]]
    /\ numReq = [n \in Running |-> <<>>]
    /\ disk = [n \in Running |-> [x \in File |-> [d \in Chunk |-> Garbage]]]

TwoUp == InitUp(2) /\ [][Next]_vars
ThreeUp == InitUp(3) /\ [][Next]_vars
FairThreeUp == ThreeUp /\ Fairness

(***************************************************************************)
(* What becomes of InitUp(2) when a has inserted f and g, b has downloaded *)
(* both from a and announced them, and nothing is under way any more.      *)
(***************************************************************************)
InitShared ==
    LET whole(num) == FileInfo(num, <<f, g>>[num + 1], Chunk)
        empty(num) == FileInfo(num, <<f, g>>[num + 1], {})
        none == [m \in Node |-> <<>>]
    IN  /\ Up(2)
        /\ link = [n \in Running |-> [m \in Node |->
                     IF {n, m} = {a, b} THEN "open" ELSE "none"]]
        /\ heap = a :> <<whole(0), whole(1), whole(0), whole(1)>>
                  @@ b :> <<whole(0), empty(0), whole(1), empty(1)>> @@ c :> <<>>
        /\ files = a :> [none EXCEPT ![a] = <<1, 2>>, ![b] = <<3, 4>>]
                   @@ b :> [none EXCEPT ![a] = <<2, 4>>, ![b] = <<1, 3>>] @@ c :> none
        /\ numReq = a :> <<>> @@ b :> (0 :> 0 @@ 1 :> 0) @@ c :> <<>>
        /\ disk = [n \in Running |-> [x \in File |-> [d \in Chunk |->
                     IF n = c THEN Garbage ELSE x]]]

FairShared == InitShared /\ [][Next]_vars /\ Fairness
=============================================================================
