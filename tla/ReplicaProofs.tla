---------------------------- MODULE ReplicaProofs ----------------------------
(***************************************************************************)
(* Proofs about what the peers of Peer have and believe one another to     *)
(* have, for any number of nodes, files and chunks: no node is credited    *)
(* with a chunk it lacks, what is marked is on the disk and intact, the    *)
(* network implements the replica set of ReplicaSet, and the figures of    *)
(* "query" in Status are right.                                            *)
(*                                                                         *)
(* Two things are assumed.  Nobody joins a network that has files: the     *)
(* lists of such a node share objects (MCPeer_aliased.cfg shows where this *)
(* leads).  From Marks on, one user inserts all the files: two who insert  *)
(* at once take the same number for different files.  The last two         *)
(* sections assume in place of this that nobody leaves or is missed.       *)
(***************************************************************************)
EXTENDS MembershipProofs, Status

\* No list of files is under way but the empty one.
NobodyIsLate ==
    \A n \in Running, m \in Node : \A f \in Held(rep[n][m]) :
        f.type = "FILE_LIST" => f.list = <<>>

\* m has chunk c of the file num.
Has(m, num, c) == num \in NumsOf(m, m) /\ c \in heap[m][FileOf(m, m, num)].has

\* The list that n keeps for m only gets longer, and its objects keep all but
\* gain marks.
GrownList(n, m) ==
    /\ DOMAIN files[n][m] \subseteq DOMAIN files'[n][m]
    /\ \A i \in DOMAIN files[n][m] : files'[n][m][i] = files[n][m][i]

Grown ==
    \A n \in Running :
        /\ \A o \in DOMAIN heap[n] : /\ o \in DOMAIN heap'[n]
                                     /\ heap'[n][o].num = heap[n][o].num
                                     /\ heap'[n][o].name = heap[n][o].name
                                     /\ heap[n][o].has \subseteq heap'[n][o].has
        /\ \A m \in Node : GrownList(n, m)

\* What a list finds for a number it goes on finding.
LEMMA FileOfKept ==
    ASSUME TypeInv, TypeInv', Grown, NEW n \in Running, NEW m \in Node, NEW num \in NumsOf(n, m)
    PROVE  num \in NumsOf(n, m)' /\ FileOf(n, m, num)' = FileOf(n, m, num)
<1> USE PeerFacts
<1> DEFINE l == files[n][m]
           h == heap[n]
           First(i) == h[l[i]].num = num /\ \A j \in 1..(i - 1) : h[l[j]].num # num
           l2 == files'[n][m]
           h2 == heap'[n]
           First2(i) == h2[l2[i]].num = num /\ \A j \in 1..(i - 1) : h2[l2[j]].num # num
           At == {i \in DOMAIN l : h[l[i]].num = num}
<1>1. DOMAIN l = 1..Len(l) /\ Len(l) \in Nat /\ \A i \in DOMAIN l : l[i] \in DOMAIN h
  BY ListTypes, LenProperties
<1>2. /\ DOMAIN l \subseteq DOMAIN l2
      /\ \A i \in DOMAIN l : l2[i] = l[i] /\ h2[l2[i]].num = h[l[i]].num
  BY <1>1 DEF Grown, GrownList
<1>3. DOMAIN l2 \subseteq Nat
  <2>1. files'[n][m] \in Seq(DOMAIN heap'[n])
    BY DEF TypeInv, TypeOK
  <2> QED
    BY <2>1, LenProperties
<1>4. At \in SUBSET Nat /\ At # {}
  BY <1>1 DEF NumsOf, Listed
<1>5. PICK i \in At : \A j \in At : i <= j
  BY <1>4, LeastNumber
<1>6. i \in DOMAIN l /\ i \in Nat /\ First(i)
  <2>1. ASSUME NEW j \in 1..(i - 1), h[l[j]].num = num PROVE FALSE
    <3>1. j \in At /\ j < i
      BY <1>1, <1>5, <2>1
    <3> QED
      BY <1>4, <1>5, <3>1
  <2> QED
    BY <1>4, <1>5, <2>1
<1>7. i \in DOMAIN l2 /\ First2(i)
  <2>1. \A j \in 1..(i - 1) : j \in DOMAIN l
    BY <1>1, <1>6
  <2> QED
    BY <1>2, <1>6, <2>1
<1>8. ASSUME NEW j \in DOMAIN l, First(j) PROVE j = i
  <2>1. j \in Nat /\ ~(j \in 1..(i - 1)) /\ ~(i \in 1..(j - 1))
    BY SMTT(30), <1>1, <1>6, <1>8
  <2>2. j >= 1 /\ i >= 1
    BY <1>1, <1>6
  <2> QED
    BY <1>6, <2>1, <2>2
<1>9. ASSUME NEW j \in DOMAIN l2, First2(j) PROVE j = i
  <2>1. j \in Nat
    BY <1>3
  <2>2. j >= 1
    <3>1. files'[n][m] \in Seq(DOMAIN heap'[n])
      BY DEF TypeInv, TypeOK
    <3> QED
      BY <2>1, <3>1, LenProperties
  <2>3. i >= 1
    BY <1>1, <1>6
  <2>4. ~(j \in 1..(i - 1)) /\ ~(i \in 1..(j - 1))
    BY <1>6, <1>7, <1>9, <2>1
  <2> QED
    BY <1>6, <2>1, <2>2, <2>3, <2>4
<1>10. FileOf(n, m, num) = l[i]
  <2>1. (CHOOSE j \in DOMAIN l : First(j)) = i
    BY <1>6, <1>8
  <2> QED
    BY <2>1 DEF FileOf
<1>11. FileOf(n, m, num)' = l2[i]
  <2>1. (CHOOSE j \in DOMAIN l2 : First2(j)) = i
    BY <1>7, <1>9
  <2> QED
    BY <2>1 DEF FileOf
<1>12. num \in NumsOf(n, m)'
  BY <1>7 DEF NumsOf, Listed
<1> QED
  BY <1>2, <1>6, <1>10, <1>11, <1>12

\* What a node has it goes on having.
LEMMA HasKept ==
    ASSUME TypeInv, TypeInv', Grown, NEW m \in Running, NEW num, NEW c, Has(m, num, c)
    PROVE  Has(m, num, c)'
<1> USE PeerFacts
<1>1. num \in NumsOf(m, m) /\ c \in heap[m][FileOf(m, m, num)].has
  BY DEF Has
<1>2. num \in NumsOf(m, m)' /\ FileOf(m, m, num)' = FileOf(m, m, num)
  BY <1>1, FileOfKept
<1>3. FileOf(m, m, num) \in DOMAIN heap[m]
  BY <1>1, FileFound, ListTypes
<1>4. heap[m][FileOf(m, m, num)].has \subseteq heap'[m][FileOf(m, m, num)].has
  BY <1>3 DEF Grown
<1> QED
  BY <1>1, <1>2, <1>4 DEF Has

-----------------------------------------------------------------------------
(***************************************************************************)
(* The two ways in which the files of a node change.                       *)
(***************************************************************************)

\* n gets new objects, and L[m] of them goes into the list it keeps for m.
Enters(n, L) ==
    /\ \A s \in Running \ {n} : heap'[s] = heap[s] /\ files'[s] = files[s]
    /\ \A o \in DOMAIN heap[n] : o \in DOMAIN heap'[n] /\ heap'[n][o] = heap[n][o]
    /\ \A m \in Node : /\ Listed(n, m)' = Listed(n, m) \cup L[m]
                       /\ \A o \in L[m] : o \in DOMAIN heap'[n] /\ o \notin DOMAIN heap[n]
    /\ \A m, p \in Node : m # p => L[m] \cap L[p] = {}
    /\ \A o \in DOMAIN heap'[n] : o \in DOMAIN heap[n] \/ \E m \in Node : o \in L[m]

\* Chunk c is marked in object o of n.
Marked(n, o, c) ==
    /\ \A s \in Running \ {n} : heap'[s] = heap[s]
    /\ files' = files
    /\ DOMAIN heap'[n] = DOMAIN heap[n]
    /\ \A q \in DOMAIN heap[n] :
         /\ heap'[n][q].num = heap[n][q].num
         /\ heap'[n][q].name = heap[n][q].name
         /\ heap'[n][q].has = IF q = o THEN heap[n][q].has \cup {c} ELSE heap[n][q].has

\* t is s with x behind it.
Longer(s, x, t) ==
    /\ \A i \in DOMAIN s : i \in DOMAIN t /\ t[i] = s[i]
    /\ {t[i] : i \in DOMAIN t} = {s[i] : i \in DOMAIN s} \cup {x}

LEMMA Appended ==
    ASSUME NEW S, NEW s \in Seq(S), NEW x \in S, NEW t, t = Append(s, x)
    PROVE  /\ Len(s) \in Nat /\ DOMAIN s = 1..Len(s) /\ DOMAIN t = 1..(Len(s) + 1)
           /\ t[Len(s) + 1] = x
           /\ Longer(s, x, t)
<1>1. /\ t \in Seq(S) /\ Len(t) = Len(s) + 1 /\ Len(s) \in Nat /\ t[Len(s) + 1] = x
      /\ \A i \in 1..Len(s) : t[i] = s[i]
  BY AppendProperties, LenProperties
<1>2. DOMAIN s = 1..Len(s) /\ DOMAIN t = 1..(Len(s) + 1)
  BY <1>1, LenProperties
<1>3. \A i \in DOMAIN s : i \in DOMAIN t /\ t[i] = s[i]
  BY <1>1, <1>2
<1>4. Len(s) + 1 \in DOMAIN t
  BY <1>1, <1>2
<1>5. \A i \in DOMAIN t : i \in DOMAIN s \/ i = Len(s) + 1
  BY <1>1, <1>2
<1>6. {t[i] : i \in DOMAIN t} \subseteq {s[i] : i \in DOMAIN s} \cup {x}
  BY <1>1, <1>3, <1>5
<1>7. {s[i] : i \in DOMAIN s} \cup {x} \subseteq {t[i] : i \in DOMAIN t}
  BY <1>1, <1>3, <1>4
<1> QED
  BY <1>1, <1>2, <1>3, <1>6, <1>7 DEF Longer

\* The new places of the objects that n gets.
OneAt(n, p) == [m \in Node |-> IF m = p THEN {Len(heap[n]) + 1} ELSE {}]
TwoAt(n, src) == [m \in Node |-> IF m = n THEN {Len(heap[n]) + 1}
                                 ELSE IF m = src THEN {Len(heap[n]) + 2} ELSE {}]

\* One object x, in the list for p.
LEMMA EntersOne ==
    ASSUME TypeInv, NEW n \in Running, NEW p \in Node, NEW x \in FileInfos,
           heap' = [heap EXCEPT ![n] = Append(@, x)],
           files' = [files EXCEPT ![n][p] = Append(@, Len(heap[n]) + 1)]
    PROVE  /\ Enters(n, OneAt(n, p)) /\ Grown
           /\ heap'[n][Len(heap[n]) + 1] = x
<1> USE PeerFacts
<1>1. HeapTypes
  BY TypeParts
<1>2. PICK next : next = Len(heap[n]) + 1
  OBVIOUS
<1>3. heap'[n] = Append(heap[n], x) /\ \A s \in Running \ {n} : heap'[s] = heap[s]
  BY <1>1 DEF HeapTypes
<1>4. /\ Len(heap[n]) \in Nat /\ DOMAIN heap[n] = 1..Len(heap[n])
      /\ DOMAIN heap'[n] = 1..(Len(heap[n]) + 1)
      /\ \A o \in DOMAIN heap[n] : o \in DOMAIN heap'[n] /\ heap'[n][o] = heap[n][o]
      /\ heap'[n][Len(heap[n]) + 1] = x
  <2>1. PICK t : t = Append(heap[n], x) /\ heap'[n] = t
    BY <1>3
  <2>2. heap[n] \in Seq(FileInfos)
    BY <1>1 DEF HeapTypes
  <2>3. Len(heap[n]) \in Nat /\ DOMAIN heap[n] = 1..Len(heap[n])
    BY <2>1, <2>2, Appended
  <2>4. DOMAIN t = 1..(Len(heap[n]) + 1) /\ t[Len(heap[n]) + 1] = x
    BY <2>1, <2>2, Appended
  <2>5. Longer(heap[n], x, t)
    BY <2>1, <2>2, Appended
  <2> QED
    BY <2>1, <2>3, <2>4, <2>5 DEF Longer
<1>5. /\ next \in Nat /\ next \in DOMAIN heap'[n] /\ next \notin DOMAIN heap[n]
      /\ \A o \in DOMAIN heap'[n] : o \in DOMAIN heap[n] \/ o = next
  BY <1>2, <1>4
<1>6. /\ files'[n] = [files[n] EXCEPT ![p] = Append(@, next)]
      /\ \A s \in Running \ {n} : files'[s] = files[s]
      /\ files[n] \in [Node -> Seq(DOMAIN heap[n])]
  BY <1>1, <1>2 DEF HeapTypes
<1>7. \A m \in Node : files[n][m] \in Seq(Nat)
  BY <1>4, <1>6, SeqMonotonic
<1>8. /\ \A i \in DOMAIN files[n][p] : /\ i \in DOMAIN files'[n][p]
                                       /\ files'[n][p][i] = files[n][p][i]
      /\ Listed(n, p)' = Listed(n, p) \cup {next}
  <2>1. PICK l \in Seq(Nat) : l = files[n][p]
    BY <1>7
  <2>2. PICK t : t = Append(l, next)
    OBVIOUS
  <2>3. files'[n][p] = t
    BY <1>6, <2>1, <2>2
  <2>4. next \in Nat
    BY <1>5
  <2>5. Longer(l, next, t)
    BY <2>2, <2>4, Appended
  <2>6. Listed(n, p)' = {t[i] : i \in DOMAIN t} /\ Listed(n, p) = {l[i] : i \in DOMAIN l}
    BY <2>1, <2>3 DEF Listed
  <2>7. Listed(n, p)' = Listed(n, p) \cup {next}
    BY <2>5, <2>6 DEF Longer
  <2>8. \A i \in DOMAIN l : i \in DOMAIN t /\ t[i] = l[i]
    BY <2>5 DEF Longer
  <2> QED
    BY <2>1, <2>3, <2>7, <2>8
<1>9. \A m \in Node : m # p => files'[n][m] = files[n][m] /\ Listed(n, m)' = Listed(n, m)
  BY <1>6 DEF Listed
<1>10. Grown
  <2>1. \A m \in Node : GrownList(n, m)
    BY <1>8, <1>9 DEF GrownList
  <2>2. \A s \in Running \ {n}, m \in Node : GrownList(s, m)
    BY <1>6 DEF GrownList
  <2> QED
    BY <1>3, <1>4, <2>1, <2>2 DEF Grown
<1>11. Enters(n, OneAt(n, p))
  <2> DEFINE L == [m \in Node |-> IF m = p THEN {next} ELSE {}]
  <2>1. \A m \in Node : /\ Listed(n, m)' = Listed(n, m) \cup L[m]
                        /\ \A o \in L[m] : o \in DOMAIN heap'[n] /\ o \notin DOMAIN heap[n]
    BY <1>5, <1>8, <1>9
  <2>2. \A m, q \in Node : m # q => L[m] \cap L[q] = {}
    OBVIOUS
  <2>3. \A o \in DOMAIN heap'[n] : o \in DOMAIN heap[n] \/ \E m \in Node : o \in L[m]
    BY <1>5
  <2>4. L = OneAt(n, p)
    BY <1>2 DEF OneAt
  <2> HIDE DEF L
  <2>5. Enters(n, L)
    BY <1>3, <1>4, <1>6, <2>1, <2>2, <2>3 DEF Enters
  <2> QED
    BY <2>4, <2>5
<1> QED
  BY <1>4, <1>10, <1>11

\* Two objects of the same content, in the list of n and in that for src.
LEMMA EntersTwo ==
    ASSUME TypeInv, NEW n \in Running, NEW src \in Node, src # n, NEW x \in FileInfos,
           heap' = [heap EXCEPT ![n] = @ \o <<x, x>>],
           files' = [files EXCEPT ![n] =
                       [[files[n] EXCEPT ![n] = Append(@, Len(heap[n]) + 1)]
                          EXCEPT ![src] = Append(@, Len(heap[n]) + 1 + 1)]]
    PROVE  /\ Enters(n, TwoAt(n, src)) /\ Grown
           /\ heap'[n][Len(heap[n]) + 1] = x /\ heap'[n][Len(heap[n]) + 2] = x
<1> USE PeerFacts
<1>1. HeapTypes
  BY TypeParts
<1>2. PICK y \in Seq(FileInfos) : y = <<x, x>> /\ Len(y) = 2 /\ y[1] = x /\ y[2] = x
  <2>1. /\ <<x, x>> \in Seq(FileInfos) /\ Len(<<x, x>>) = 2
        /\ <<x, x>>[1] = x /\ <<x, x>>[2] = x
    OBVIOUS
  <2> QED
    BY <2>1
<1>3. heap'[n] = heap[n] \o y /\ \A s \in Running \ {n} : heap'[s] = heap[s]
  BY <1>1, <1>2 DEF HeapTypes
<1>4. PICK k \in Nat : k = Len(heap[n]) /\ DOMAIN heap[n] = 1..k
  BY <1>1, LenProperties DEF HeapTypes
<1>5. /\ DOMAIN heap'[n] = 1..(k + 2)
      /\ \A i \in 1..(k + 2) : heap'[n][i] = IF i <= k THEN heap[n][i] ELSE y[i - k]
  <2>1. heap[n] \in Seq(FileInfos)
    BY <1>1 DEF HeapTypes
  <2>2. PICK b \in Seq(FileInfos) : b = heap[n] \o y
    BY <2>1, ConcatProperties
  <2>3. /\ Len(b) = k + 2
        /\ \A i \in 1..(k + 2) : b[i] = IF i <= k THEN heap[n][i] ELSE y[i - k]
    BY <1>2, <1>4, <2>1, <2>2, ConcatProperties
  <2> QED
    BY <1>3, <2>2, <2>3, LenProperties
<1>6. /\ \A o \in DOMAIN heap[n] : o \in DOMAIN heap'[n] /\ heap'[n][o] = heap[n][o]
      /\ heap'[n][k + 1] = x /\ heap'[n][k + 2] = x
      /\ k + 1 \in DOMAIN heap'[n] /\ k + 2 \in DOMAIN heap'[n]
      /\ k + 1 \notin DOMAIN heap[n] /\ k + 2 \notin DOMAIN heap[n]
      /\ \A o \in DOMAIN heap'[n] : o \in DOMAIN heap[n] \/ o = k + 1 \/ o = k + 2
  BY <1>2, <1>4, <1>5
<1>7. /\ files'[n] = [[files[n] EXCEPT ![n] = Append(@, k + 1)] EXCEPT ![src] = Append(@, k + 2)]
      /\ \A s \in Running \ {n} : files'[s] = files[s]
      /\ files[n] \in [Node -> Seq(DOMAIN heap[n])]
  <2>1. Len(heap[n]) + 1 = k + 1 /\ Len(heap[n]) + 1 + 1 = k + 2
    BY <1>4
  <2> QED
    BY <1>1, <2>1 DEF HeapTypes
<1>8. \A m \in Node : files[n][m] \in Seq(Nat)
  BY SMTT(30), <1>4, <1>7, SeqMonotonic
<1>9. /\ files'[n][n] = Append(files[n][n], k + 1)
      /\ files'[n][src] = Append(files[n][src], k + 2)
      /\ \A m \in Node \ {n, src} : files'[n][m] = files[n][m]
  <2>1. PICK a, b : a = Append(files[n][n], k + 1) /\ b = Append(files[n][src], k + 2)
    OBVIOUS
  <2>2. files'[n] = [[files[n] EXCEPT ![n] = a] EXCEPT ![src] = b]
    BY <1>7, <2>1
  <2> QED
    BY SMTT(30), <1>7, <2>1, <2>2
<1>10. /\ GrownList(n, n) /\ GrownList(n, src)
       /\ Listed(n, n)' = Listed(n, n) \cup {k + 1}
       /\ Listed(n, src)' = Listed(n, src) \cup {k + 2}
  <2>1. ASSUME NEW m \in Node, NEW z \in Nat, files'[n][m] = Append(files[n][m], z)
        PROVE  GrownList(n, m) /\ Listed(n, m)' = Listed(n, m) \cup {z}
    <3>1. PICK l \in Seq(Nat) : l = files[n][m]
      BY <1>8
    <3>2. PICK t : t = Append(l, z)
      OBVIOUS
    <3>3. Longer(l, z, t)
      BY <3>2, Appended
    <3>4. files'[n][m] = t
      BY <2>1, <3>1, <3>2
    <3>5. Listed(n, m)' = {t[i] : i \in DOMAIN t} /\ Listed(n, m) = {l[i] : i \in DOMAIN l}
      BY <3>1, <3>4 DEF Listed
    <3>6. Listed(n, m)' = Listed(n, m) \cup {z}
      BY <3>3, <3>5 DEF Longer
    <3>7. \A i \in DOMAIN l : i \in DOMAIN t /\ t[i] = l[i]
      BY <3>3 DEF Longer
    <3> QED
      BY <3>1, <3>4, <3>6, <3>7 DEF GrownList
  <2>2. k + 1 \in Nat /\ k + 2 \in Nat
    OBVIOUS
  <2> QED
    BY <1>9, <2>1, <2>2
<1>11. \A m \in Node \ {n, src} : GrownList(n, m) /\ Listed(n, m)' = Listed(n, m)
  BY <1>9 DEF GrownList, Listed
<1>12. Grown
  <2>1. \A m \in Node : GrownList(n, m)
    BY <1>10, <1>11
  <2>2. \A s \in Running \ {n}, m \in Node : GrownList(s, m)
    BY <1>7 DEF GrownList
  <2> QED
    BY <1>3, <1>6, <2>1, <2>2 DEF Grown
<1>13. Enters(n, TwoAt(n, src))
  <2> DEFINE L == [m \in Node |-> IF m = n THEN {k + 1} ELSE IF m = src THEN {k + 2} ELSE {}]
  <2>1. \A m \in Node : /\ Listed(n, m)' = Listed(n, m) \cup L[m]
                        /\ \A o \in L[m] : o \in DOMAIN heap'[n] /\ o \notin DOMAIN heap[n]
    BY <1>6, <1>10, <1>11
  <2>2. \A m, q \in Node : m # q => L[m] \cap L[q] = {}
    OBVIOUS
  <2>3. \A o \in DOMAIN heap'[n] : o \in DOMAIN heap[n] \/ \E m \in Node : o \in L[m]
    BY <1>6
  <2>4. L = TwoAt(n, src)
    BY <1>4 DEF TwoAt
  <2> HIDE DEF L
  <2>5. Enters(n, L)
    BY <1>3, <1>6, <1>7, <2>1, <2>2, <2>3 DEF Enters
  <2> QED
    BY <2>4, <2>5
<1> QED
  BY <1>4, <1>6, <1>12, <1>13

LEMMA MarkedFacts ==
    ASSUME TypeInv, NEW n \in Running, NEW o, NEW c,
           heap' = [heap EXCEPT ![n][o].has = @ \cup {c}], files' = files
    PROVE  Marked(n, o, c) /\ Grown
<1> USE PeerFacts
<1>1. HeapTypes
  BY TypeParts
<1>2. /\ heap'[n] = [heap[n] EXCEPT ![o].has = @ \cup {c}]
      /\ \A s \in Running \ {n} : heap'[s] = heap[s]
  BY <1>1 DEF HeapTypes
<1>3. \A q \in DOMAIN heap[n] : heap[n][q] \in FileInfos
  BY ListTypes
<1>4. /\ DOMAIN heap'[n] = DOMAIN heap[n]
      /\ \A q \in DOMAIN heap[n] :
           heap'[n][q] = IF q = o THEN [heap[n][q] EXCEPT !.has = @ \cup {c}] ELSE heap[n][q]
  BY <1>2
<1>5. \A q \in DOMAIN heap[n] :
         /\ heap'[n][q].num = heap[n][q].num
         /\ heap'[n][q].name = heap[n][q].name
         /\ heap'[n][q].has = IF q = o THEN heap[n][q].has \cup {c} ELSE heap[n][q].has
  <2> TAKE q \in DOMAIN heap[n]
  <2>1. PICK r \in FileInfos : r = heap[n][q]
    BY <1>3
  <2>2. PICK has : has = r.has \cup {c}
    OBVIOUS
  <2>3. PICK r2 : r2 = [r EXCEPT !.has = has]
    OBVIOUS
  <2>4. r2.num = r.num /\ r2.name = r.name /\ r2.has = has
    BY <2>3 DEF FileInfos
  <2>5. heap'[n][q] = IF q = o THEN r2 ELSE r
    BY <1>4, <2>1, <2>2, <2>3
  <2>6. CASE q = o
    <3>1. heap'[n][q] = r2
      BY <2>5, <2>6
    <3> QED
      BY <2>1, <2>2, <2>4, <2>6, <3>1
  <2>7. CASE q # o
    <3>1. heap'[n][q] = r
      BY <2>5, <2>7
    <3> QED
      BY <2>1, <2>7, <3>1
  <2> QED
    BY <2>6, <2>7
<1>6. Marked(n, o, c)
  BY <1>2, <1>4, <1>5 DEF Marked
<1>7. Grown
  BY <1>2, <1>4, <1>5 DEF Grown, GrownList
<1> QED
  BY <1>6, <1>7

-----------------------------------------------------------------------------
(***************************************************************************)
(* What nodes believe of one another.                                      *)
(***************************************************************************)

\* No two lists of a node share an object, so that a mark in one is not a
\* mark in another.
Apart == \A n \in Running : \A m, p \in Node : m # p => Listed(n, m) \cap Listed(n, p) = {}

\* What n has in its list for m, m has.
Credits(n, m) ==
    \A o \in Listed(n, m) : \E num \in NumsOf(m, m) :
        heap[n][o].num = num /\ \A c \in heap[n][o].has : Has(m, num, c)

Beliefs == \A n, m \in Running : n # m => Credits(n, m)

\* What is announced to m by frames on their way, its source has.
Announced ==
    \A n \in Running, m \in Node : \A f \in Held(req[n][m]) :
        /\ f.type = "NEW_FILE_AVAILABLE" => f.src # m /\ f.num \in NumsOf(f.src, f.src)
        /\ f.type = "NEW_CHUNK_AVAILABLE" => f.src # m /\ Has(f.src, f.num, f.chunk)

\* Numbers that are listed stay listed.
LEMMA NumsKept ==
    ASSUME TypeInv, TypeInv', Grown, NEW n \in Running, NEW m \in Node
    PROVE  NumsOf(n, m) \subseteq NumsOf(n, m)'
BY FileOfKept

\* New objects in the lists of n, that for m credited with no more than m has.
LEMMA EntersKeeps ==
    ASSUME TypeInv, TypeInv', Apart, Beliefs, Grown, NEW n \in Running, NEW L, Enters(n, L),
           \A m \in Running \ {n} : \A o \in L[m] :
             /\ heap'[n][o].num \in NumsOf(m, m)
             /\ \A c \in heap'[n][o].has : Has(m, heap'[n][o].num, c)
    PROVE  Apart' /\ Beliefs'
<1> USE PeerFacts
<1>1. \A s \in Running \ {n}, m \in Node : Listed(s, m)' = Listed(s, m)
  BY DEF Enters, Listed
<1>2. Apart'
  <2> SUFFICES ASSUME NEW s \in Running, NEW m \in Node, NEW p \in Node, m # p
               PROVE  Listed(s, m)' \cap Listed(s, p)' = {}
    BY DEF Apart
  <2>1. Listed(s, m) \cap Listed(s, p) = {}
    BY DEF Apart
  <2>2. CASE s # n
    BY <1>1, <2>1, <2>2
  <2>3. CASE s = n
    <3>1. Listed(n, m) \subseteq DOMAIN heap[n] /\ Listed(n, p) \subseteq DOMAIN heap[n]
      BY ListTypes
    <3>2. /\ Listed(n, m)' = Listed(n, m) \cup L[m] /\ Listed(n, p)' = Listed(n, p) \cup L[p]
          /\ L[m] \cap L[p] = {}
          /\ \A o \in L[m] : o \notin DOMAIN heap[n]
          /\ \A o \in L[p] : o \notin DOMAIN heap[n]
      BY DEF Enters
    <3> QED
      BY <2>1, <2>3, <3>1, <3>2
  <2> QED
    BY <2>2, <2>3
<1>3. Beliefs'
  <2> SUFFICES ASSUME NEW s \in Running, NEW m \in Running, s # m, NEW o \in Listed(s, m)'
               PROVE  \E num \in NumsOf(m, m)' :
                        heap'[s][o].num = num /\ \A c \in heap'[s][o].has : Has(m, num, c)'
    BY DEF Beliefs, Credits
  <2>1. /\ heap'[s][o].num \in NumsOf(m, m)
        /\ \A c \in heap'[s][o].has : Has(m, heap'[s][o].num, c)
    <3>1. CASE o \in Listed(s, m)
      <4>1. o \in DOMAIN heap[s]
        BY <3>1, ListTypes
      <4>2. heap'[s][o] = heap[s][o]
        BY <4>1 DEF Enters
      <4> QED
        BY <3>1, <4>2 DEF Beliefs, Credits
    <3>2. CASE s = n /\ o \in L[m]
      BY <3>2
    <3> QED
      BY <1>1, <3>1, <3>2 DEF Enters
  <2>2. PICK num : num = heap'[s][o].num
    OBVIOUS
  <2>3. num \in NumsOf(m, m)'
    BY <2>1, <2>2, NumsKept
  <2>4. \A c \in heap'[s][o].has : Has(m, num, c)'
    BY <2>1, <2>2, HasKept
  <2> QED
    BY <2>2, <2>3, <2>4
<1> QED
  BY <1>2, <1>3

\* A mark on an object of n, one in the list for m only if m has the chunk.
LEMMA MarkedKeeps ==
    ASSUME TypeInv, TypeInv', Apart, Beliefs, Grown,
           NEW n \in Running, NEW o, NEW c, Marked(n, o, c),
           \A m \in Running \ {n} : o \in Listed(n, m) => Has(m, heap[n][o].num, c)
    PROVE  Apart' /\ Beliefs'
<1> USE PeerFacts
<1>1. \A s \in Running, m \in Node : Listed(s, m)' = Listed(s, m)
  BY DEF Marked, Listed
<1>2. Apart'
  BY <1>1 DEF Apart
<1>3. Beliefs'
  <2> SUFFICES ASSUME NEW s \in Running, NEW m \in Running, s # m, NEW q \in Listed(s, m)'
               PROVE  \E num \in NumsOf(m, m)' :
                        heap'[s][q].num = num /\ \A d \in heap'[s][q].has : Has(m, num, d)'
    BY DEF Beliefs, Credits
  <2>1. q \in Listed(s, m) /\ q \in DOMAIN heap[s]
    BY <1>1, ListTypes
  <2>2. PICK num : num = heap[s][q].num
    OBVIOUS
  <2>3. heap'[s][q].num = num
    BY <2>1, <2>2 DEF Marked
  <2>4. num \in NumsOf(m, m) /\ \A d \in heap'[s][q].has : Has(m, num, d)
    <3>1. num \in NumsOf(m, m) /\ \A d \in heap[s][q].has : Has(m, num, d)
      BY <2>1, <2>2 DEF Beliefs, Credits
    <3>2. CASE s = n /\ q = o
      <4>1. heap'[s][q].has = heap[s][q].has \cup {c}
        BY <2>1, <3>2 DEF Marked
      <4>2. Has(m, num, c)
        BY <2>1, <2>2, <3>2
      <4> QED
        BY <3>1, <4>1, <4>2
    <3>3. CASE ~(s = n /\ q = o)
      <4>1. heap'[s][q].has = heap[s][q].has
        BY <2>1, <3>3 DEF Marked
      <4> QED
        BY <3>1, <4>1
    <3> QED
      BY <3>2, <3>3
  <2>5. num \in NumsOf(m, m)'
    BY <2>4, NumsKept
  <2>6. \A d \in heap'[s][q].has : Has(m, num, d)'
    BY <2>4, HasKept
  <2> QED
    BY <2>3, <2>5, <2>6
<1> QED
  BY <1>2, <1>3

\* A step that changes no file.
LEMMA SameFiles ==
    ASSUME TypeInv, TypeInv', UNCHANGED <<heap, files>>
    PROVE  Grown /\ (Apart => Apart') /\ (Beliefs => Beliefs')
<1>1. Grown
  BY DEF Grown, GrownList
<1>2. \A n, m : Listed(n, m)' = Listed(n, m) /\ NumsOf(n, m)' = NumsOf(n, m)
  BY DEF Listed, NumsOf
<1>3. \A n, m, num : FileOf(n, m, num)' = FileOf(n, m, num)
  BY DEF FileOf
<1>4. \A m, num, c : Has(m, num, c)' <=> Has(m, num, c)
  BY <1>2, <1>3 DEF Has
<1>5. Apart => Apart'
  BY <1>2 DEF Apart
<1>6. Beliefs => Beliefs'
  BY <1>2, <1>4 DEF Beliefs, Credits
<1> QED
  BY <1>1, <1>5, <1>6

-----------------------------------------------------------------------------
(***************************************************************************)
(* What each action does to the files.                                     *)
(***************************************************************************)
LEMMA InfoFields ==
    ASSUME NEW num, NEW name, NEW has
    PROVE  /\ FileInfo(num, name, has).num = num
           /\ FileInfo(num, name, has).name = name
           /\ FileInfo(num, name, has).has = has
BY DEF FileInfo

LEMMA InfoTypeFact ==
    ASSUME NEW num \in Nat, NEW name \in File, NEW has \in SUBSET Chunk
    PROVE  FileInfo(num, name, has) \in FileInfos
BY DEF FileInfo, FileInfos

LEMMA InsertShape ==
    ASSUME TypeInv, NEW n \in Running, NEW f \in File, Insert(n, f)
    PROVE  /\ Enters(n, OneAt(n, n)) /\ Grown
           /\ heap'[n][Len(heap[n]) + 1] = FileInfo(NextNum(n), f, Chunk)
<1> USE PeerFacts
<1>1. PICK x : x = FileInfo(NextNum(n), f, Chunk)
  OBVIOUS
<1>2. x \in FileInfos
  <2>1. PICK has \in SUBSET Chunk : has = Chunk
    OBVIOUS
  <2> QED
    BY <1>1, <2>1, NextNumIsNew, InfoTypeFact
<1>3. /\ heap' = [heap EXCEPT ![n] = Append(@, x)]
      /\ files' = [files EXCEPT ![n][n] = Append(@, Len(heap[n]) + 1)]
  BY <1>1 DEF Insert
<1>4. n \in Node
  OBVIOUS
<1>5. /\ Enters(n, OneAt(n, n)) /\ Grown
      /\ heap'[n][Len(heap[n]) + 1] = x
  BY <1>2, <1>3, <1>4, EntersOne
<1> QED
  BY <1>1, <1>5

LEMMA NewFileShape ==
    ASSUME TypeInv, NEW n \in Running, NEW m \in Running, OnNewFile(n, m),
           NEW f, f = Head(req[m][n]), f.src # n
    PROVE  /\ f \in Frames /\ f \in Held(req[m][n]) /\ f.type = "NEW_FILE_AVAILABLE"
           /\ Enters(n, TwoAt(n, f.src)) /\ Grown
           /\ heap'[n][Len(heap[n]) + 1] = FileInfo(f.num, f.name, {})
           /\ heap'[n][Len(heap[n]) + 2] = FileInfo(f.num, f.name, {})
<1> USE PeerFacts
<1>1. f \in Frames /\ f \in Held(req[m][n]) /\ f.type = "NEW_FILE_AVAILABLE"
  BY QueueTypes, HeldTail DEF OnNewFile, Request
<1>2. f.num \in Nat /\ f.name \in File /\ f.src \in Running
  BY <1>1, FrameFields
<1>3. PICK x : x = FileInfo(f.num, f.name, {})
  OBVIOUS
<1>4. x \in FileInfos
  <2>1. PICK has \in SUBSET Chunk : has = {}
    OBVIOUS
  <2> QED
    BY <1>2, <1>3, <2>1, InfoTypeFact
<1>5. PICK src \in Node : src = f.src /\ src # n
  BY <1>2
<1>6. /\ heap' = [heap EXCEPT ![n] = @ \o <<x, x>>]
      /\ files' = [files EXCEPT ![n] =
                     [[files[n] EXCEPT ![n] = Append(@, Len(heap[n]) + 1)]
                        EXCEPT ![src] = Append(@, Len(heap[n]) + 1 + 1)]]
  BY <1>3, <1>5 DEF OnNewFile
<1>7. /\ Enters(n, TwoAt(n, src)) /\ Grown
      /\ heap'[n][Len(heap[n]) + 1] = x /\ heap'[n][Len(heap[n]) + 2] = x
  BY <1>4, <1>5, <1>6, EntersTwo
<1> QED
  BY <1>1, <1>3, <1>5, <1>7

\* NEW_CHUNK_AVAILABLE: the chunk is marked, or an entry made for it, or n dies.
NewChunkEffect(n, f) ==
    \/ UNCHANGED <<heap, files>> /\ life'[n] = "gone"
    \/ /\ f.num \in NumsOf(n, f.src)
       /\ Marked(n, FileOf(n, f.src, f.num), f.chunk) /\ Grown
    \/ /\ f.num \in NumsOf(n, n) \ NumsOf(n, f.src)
       /\ Enters(n, OneAt(n, f.src)) /\ Grown
       /\ heap'[n][Len(heap[n]) + 1]
            = FileInfo(f.num, heap[n][FileOf(n, n, f.num)].name, {f.chunk})

LEMMA NewChunkShape ==
    ASSUME TypeInv, NEW n \in Running, NEW m \in Running, OnNewChunk(n, m),
           NEW f, f = Head(req[m][n])
    PROVE  /\ f \in Frames /\ f \in Held(req[m][n]) /\ f.type = "NEW_CHUNK_AVAILABLE"
           /\ NewChunkEffect(n, f)
<1> USE PeerFacts
<1>1. f \in Frames /\ f \in Held(req[m][n]) /\ f.type = "NEW_CHUNK_AVAILABLE"
  BY QueueTypes, HeldTail DEF OnNewChunk, Request
<1>2. f.num \in Nat /\ f.chunk \in Chunk /\ f.src \in Running
  BY <1>1, FrameFields
<1>3. PICK name : name = heap[n][FileOf(n, n, f.num)].name
  OBVIOUS
<1>4. \/ /\ f.num \in NumsOf(n, f.src)
         /\ heap' = [heap EXCEPT ![n][FileOf(n, f.src, f.num)].has = @ \cup {f.chunk}]
         /\ files' = files
      \/ /\ f.num \in NumsOf(n, n) \ NumsOf(n, f.src)
         /\ heap' = [heap EXCEPT ![n] = Append(@, EntryWith(f.num, name, f.chunk))]
         /\ files' = [files EXCEPT ![n][f.src] = Append(@, Len(heap[n]) + 1)]
      \/ UNCHANGED <<heap, files>> /\ life'[n] = "gone"
  <2>1. Die(n) => life'[n] = "gone"
    BY NetTypesFact DEF Die, NetTypes
  <2> QED
    BY <1>3, <2>1 DEF OnNewChunk
<1>5. CASE /\ f.num \in NumsOf(n, f.src)
           /\ heap' = [heap EXCEPT ![n][FileOf(n, f.src, f.num)].has = @ \cup {f.chunk}]
           /\ files' = files
  <2>1. PICK o : o = FileOf(n, f.src, f.num)
    OBVIOUS
  <2>2. heap' = [heap EXCEPT ![n][o].has = @ \cup {f.chunk}] /\ files' = files
    BY <1>5, <2>1
  <2>3. Marked(n, o, f.chunk) /\ Grown
    BY <2>2, MarkedFacts
  <2> QED
    BY <1>1, <1>5, <2>1, <2>3 DEF NewChunkEffect
<1>6. CASE /\ f.num \in NumsOf(n, n) \ NumsOf(n, f.src)
           /\ heap' = [heap EXCEPT ![n] = Append(@, EntryWith(f.num, name, f.chunk))]
           /\ files' = [files EXCEPT ![n][f.src] = Append(@, Len(heap[n]) + 1)]
  <2>1. name \in File
    BY <1>3, <1>6, FileFound, ListTypes DEF FileInfos
  <2>2. PICK x : x = FileInfo(f.num, name, {f.chunk})
    OBVIOUS
  <2>3. x \in FileInfos
    <3>1. PICK has \in SUBSET Chunk : has = {f.chunk}
      <4>1. {f.chunk} \in SUBSET Chunk
        BY <1>2
      <4> QED
        BY <4>1
    <3> QED
      BY <1>2, <2>1, <2>2, <3>1, InfoTypeFact
  <2>4. PICK src \in Node : src = f.src
    BY <1>2
  <2>5. /\ heap' = [heap EXCEPT ![n] = Append(@, x)]
        /\ files' = [files EXCEPT ![n][src] = Append(@, Len(heap[n]) + 1)]
    BY <1>6, <2>2, <2>4 DEF EntryWith
  <2>6. /\ Enters(n, OneAt(n, src)) /\ Grown
        /\ heap'[n][Len(heap[n]) + 1] = x
    BY <2>3, <2>5, EntersOne
  <2> QED
    BY <1>1, <1>3, <1>6, <2>2, <2>4, <2>6 DEF NewChunkEffect
<1> QED
  BY <1>1, <1>4, <1>5, <1>6 DEF NewChunkEffect

\* A chunk that has come is one of a listed file, and n has it from then on.
LEMMA ChunkShape ==
    ASSUME FilesInv, TypeInv', NEW n \in Running, NEW m \in Running, OnChunk(n, m),
           NEW f, f = Head(rep[n][m])
    PROVE  /\ f \in Frames /\ f \in Held(rep[n][m]) /\ f.type = "CHUNK"
           /\ f.num \in NumsOf(n, n) /\ FileOf(n, n, f.num) \in Listed(n, n)
           /\ Marked(n, FileOf(n, n, f.num), f.chunk) /\ Grown
           /\ Has(n, f.num, f.chunk)'
<1> USE PeerFacts DEF FilesInv
<1>1. f \in Frames /\ f \in Held(rep[n][m]) /\ f.type = "CHUNK"
  BY QueueTypes, HeldTail DEF OnChunk, Reply
<1>2. f.num \in NumsOf(n, n)
  <2>1. f.num \in DOMAIN numReq[n]
    BY <1>1 DEF Carried
  <2> QED
    BY <2>1 DEF Known
<1>3. PICK o : o = FileOf(n, n, f.num)
  OBVIOUS
<1>4. o \in Listed(n, n) /\ o \in DOMAIN heap[n]
  BY <1>2, <1>3, FileFound, ListTypes
<1>5. heap' = [heap EXCEPT ![n][o].has = @ \cup {f.chunk}] /\ files' = files
  BY <1>3 DEF OnChunk
<1>6. Marked(n, o, f.chunk) /\ Grown
  BY <1>5, MarkedFacts
<1>7. f.num \in NumsOf(n, n)' /\ FileOf(n, n, f.num)' = o
  BY <1>2, <1>3, <1>6, FileOfKept
<1>8. f.chunk \in heap'[n][o].has
  BY <1>4, <1>6 DEF Marked
<1>9. Has(n, f.num, f.chunk)'
  BY <1>7, <1>8 DEF Has
<1> QED
  BY <1>1, <1>2, <1>3, <1>4, <1>6, <1>9

\* An empty list of files changes none.
LEMMA EmptyListShape ==
    ASSUME TypeInv, NEW n \in Running, NEW m \in Running, OnFileList(n, m),
           Head(rep[n][m]).list = <<>>
    PROVE  UNCHANGED <<heap, files, disk>>
<1> USE PeerFacts
<1> DEFINE list == Head(rep[n][m]).list
           isNew(p, i) == /\ list[i].num \notin NumsOf(n, p)
                          /\ \A j \in 1..(i - 1) : list[j].num # list[i].num
           added(p) == InOrder({i \in DOMAIN list : isNew(p, i)})
           x == [i \in DOMAIN list |-> FileInfo(list[i].num, list[i].name, {})]
           more(p) == [k \in DOMAIN added(p) |-> Len(heap[n]) + added(p)[k]]
<1>1. /\ heap' = [heap EXCEPT ![n] = @ \o x]
      /\ files' = [files EXCEPT ![n] = [p \in Node |-> @[p] \o more(p)]]
      /\ disk' = disk
  BY DEF OnFileList
<1>2. DOMAIN list = {}
  OBVIOUS
<1>3. x = <<>>
  BY <1>2
<1>4. \A p : more(p) = <<>>
  <2> TAKE p
  <2>1. PICK s : s = {i \in DOMAIN list : isNew(p, i)}
    OBVIOUS
  <2>2. s = {}
    BY <1>2, <2>1
  <2>3. s \in SUBSET Nat /\ IsFiniteSet(s)
    BY <2>2, FS_EmptySet
  <2>4. PICK q \in Seq(s) : q = InOrder(s)
    BY <2>3, InOrderFacts
  <2>5. DOMAIN q = {}
    <3>1. DOMAIN q = 1..Len(q) /\ Len(q) \in Nat /\ \A k \in 1..Len(q) : q[k] \in s
      BY LenProperties, ElementOfSeq
    <3> QED
      BY <2>2, <3>1
  <2>6. PICK a : a = added(p) /\ DOMAIN a = {}
    BY <2>1, <2>4, <2>5
  <2>7. more(p) = [k \in DOMAIN a |-> Len(heap[n]) + a[k]]
    BY <2>6
  <2> DEFINE place(k) == Len(heap[n]) + a[k]
  <2>8. [k \in DOMAIN a |-> place(k)] = <<>>
    <3>1. PICK e \in Seq(Nat) : e = <<>> /\ DOMAIN e = {}
      <4>1. <<>> \in Seq(Nat) /\ DOMAIN <<>> = {}
        OBVIOUS
      <4> QED
        BY <4>1
    <3>2. e = [k \in DOMAIN e |-> e[k]]
      BY LenProperties
    <3> HIDE DEF place
    <3>3. [k \in DOMAIN a |-> place(k)] = [k \in DOMAIN e |-> e[k]]
      BY <2>6, <3>1
    <3> QED
      BY <3>1, <3>2, <3>3
  <2> QED
    BY <2>7, <2>8
<1> HIDE DEF x, more
<1>5. heap[n] \in Seq(FileInfos) /\ files[n] \in [Node -> Seq(DOMAIN heap[n])] /\ HeapTypes
  BY TypeParts DEF HeapTypes
<1>6. heap' = heap
  <2>1. heap[n] \o <<>> = heap[n]
    BY <1>5, ConcatEmptySeq
  <2> QED
    BY <1>1, <1>3, <1>5, <2>1 DEF HeapTypes
<1>7. files' = files
  <2>1. \A p \in Node : files[n][p] \o <<>> = files[n][p]
    <3> TAKE p \in Node
    <3>1. files[n][p] \in Seq(DOMAIN heap[n])
      BY <1>5
    <3> QED
      BY <3>1, ConcatEmptySeq
  <2>2. [p \in Node |-> files[n][p] \o more(p)] = files[n]
    BY <1>4, <1>5, <2>1
  <2> QED
    BY <1>1, <1>5, <2>2 DEF HeapTypes
<1> QED
  BY <1>1, <1>6, <1>7

\* The steps that change what a node has or believes.
LEMMA FileSteps ==
    ASSUME TypeInv, NobodyIsLate, [Next]_vars
    PROVE  \/ UNCHANGED <<heap, files, disk>>
           \/ \E n \in Running, f \in File : Insert(n, f)
           \/ \E n, m \in Running : OnNewFile(n, m) \/ OnNewChunk(n, m) \/ OnChunk(n, m)
<1>1. CASE UNCHANGED vars
  BY <1>1 DEF vars
<1>2. CASE Next
  <2>1. PICK n \in Running :
           \/ Join(n) \/ Starting(n) \/ MarkFile(n) \/ Leave(n) \/ Quit(n) \/ StopServer(n)
           \/ Download(n)
           \/ \E f \in File : Insert(n, f)
           \/ \E m \in Running : HandleRequest(n, m) \/ HandleReply(n, m) \/ EndSession(n, m)
    BY <1>2 DEF Next
  <2>2. CASE Join(n) \/ Starting(n) \/ MarkFile(n) \/ Leave(n) \/ Quit(n) \/ StopServer(n)
    BY <2>2 DEF Join, Starting, InitRemotePeer, FinishInit, MarkNextPeer, ReturnFromJoin,
                MarkFile, Leave, Quit, StopServer, fileVars
  <2>3. CASE Download(n)
    BY <2>3 DEF Download, CountRequest, RequestChunk, fileVars
  <2>4. CASE \E f \in File : Insert(n, f)
    BY <2>4
  <2>5. ASSUME NEW m \in Running, HandleRequest(n, m) \/ HandleReply(n, m) \/ EndSession(n, m)
        PROVE  \/ UNCHANGED <<heap, files, disk>>
               \/ OnNewFile(n, m) \/ OnNewChunk(n, m) \/ OnChunk(n, m)
    <3>1. CASE \/ OnHandshakeRequest(n, m) \/ OnFileListRequest(n, m) \/ OnChunkInfoRequest(n, m)
               \/ OnChunkRequest(n, m) \/ OnJoinNotification(n, m) \/ OnLeaveNotification(n, m)
               \/ OnHandshakeResponse(n, m) \/ OnChunkInfo(n, m) \/ OnChunkRequestDecline(n, m)
               \/ EndSession(n, m)
      BY <3>1 DEF OnHandshakeRequest, OnFileListRequest, OnChunkInfoRequest, OnChunkRequest,
                  OnJoinNotification, OnLeaveNotification, OnHandshakeResponse, OnChunkInfo,
                  OnChunkRequestDecline, EndSession, fileVars
    <3>2. CASE OnFileList(n, m)
      <4>1. /\ Head(rep[n][m]) \in Held(rep[n][m]) /\ Head(rep[n][m]).type = "FILE_LIST"
            /\ m \in Node
        BY <3>2, PeerFacts, QueueTypes, HeldTail DEF OnFileList, Reply
      <4>2. Head(rep[n][m]).list = <<>>
        BY <4>1 DEF NobodyIsLate
      <4> QED
        BY <3>2, <4>2, EmptyListShape
    <3> QED
      BY <2>5, <3>1, <3>2 DEF HandleRequest, HandleReply
  <2> QED
    BY <2>1, <2>2, <2>3, <2>4, <2>5
<1> QED
  BY <1>1, <1>2

-----------------------------------------------------------------------------
(***************************************************************************)
(* Nobody is credited with what it lacks.                                  *)
(***************************************************************************)
BeliefsInv == FilesInv /\ Apart /\ Beliefs /\ Announced

LEMMA OnNewFileBeliefs ==
    ASSUME BeliefsInv, TypeInv', NEW n \in Running, NEW m \in Running, OnNewFile(n, m)
    PROVE  Grown /\ Apart' /\ Beliefs'
<1> USE PeerFacts DEF BeliefsInv, FilesInv
<1>1. PICK f : f = Head(req[m][n])
  OBVIOUS
<1>2. f \in Frames /\ f \in Held(req[m][n]) /\ f.type = "NEW_FILE_AVAILABLE"
  BY <1>1, QueueTypes, HeldTail DEF OnNewFile, Request
<1>3. f.src # n /\ f.num \in NumsOf(f.src, f.src) /\ f.src \in Running
  BY <1>2, FrameFields DEF Announced
<1>4. PICK L : L = TwoAt(n, f.src)
  OBVIOUS
<1>5. Enters(n, L) /\ Grown
  BY <1>1, <1>3, <1>4, NewFileShape
<1>6. heap'[n][Len(heap[n]) + 2] = FileInfo(f.num, f.name, {})
  BY <1>1, <1>3, NewFileShape
<1>7. ASSUME NEW p \in Running \ {n}, NEW o \in L[p]
      PROVE  /\ heap'[n][o].num \in NumsOf(p, p)
             /\ \A c \in heap'[n][o].has : Has(p, heap'[n][o].num, c)
  <2>1. p = f.src /\ o = Len(heap[n]) + 2
    BY <1>4, <1>7 DEF TwoAt
  <2> QED
    BY <1>3, <1>6, <2>1, InfoFields
<1> QED
  BY <1>5, <1>7, EntersKeeps

LEMMA OnNewChunkBeliefs ==
    ASSUME BeliefsInv, TypeInv', NEW n \in Running, NEW m \in Running, OnNewChunk(n, m)
    PROVE  Grown /\ Apart' /\ Beliefs'
<1> USE PeerFacts DEF BeliefsInv, FilesInv
<1>1. PICK f : f = Head(req[m][n])
  OBVIOUS
<1>2. /\ f \in Frames /\ f \in Held(req[m][n]) /\ f.type = "NEW_CHUNK_AVAILABLE"
      /\ NewChunkEffect(n, f)
  BY <1>1, NewChunkShape
<1>3. Has(f.src, f.num, f.chunk) /\ f.num \in NumsOf(f.src, f.src) /\ f.src \in Running
  <2>1. Has(f.src, f.num, f.chunk)
    BY <1>2 DEF Announced
  <2> QED
    BY <1>2, <2>1, FrameFields DEF Has
<1>4. CASE UNCHANGED <<heap, files>>
  BY <1>4, SameFiles
<1>5. CASE f.num \in NumsOf(n, f.src) /\ Marked(n, FileOf(n, f.src, f.num), f.chunk) /\ Grown
  <2>1. PICK o : o = FileOf(n, f.src, f.num)
    OBVIOUS
  <2>2. o \in Listed(n, f.src) /\ heap[n][o].num = f.num
    BY <1>3, <1>5, <2>1, FileFound
  <2>3. \A p \in Running \ {n} : o \in Listed(n, p) => Has(p, heap[n][o].num, f.chunk)
    BY <1>3, <2>2 DEF Apart
  <2> QED
    BY <1>5, <2>1, <2>3, MarkedKeeps
<1>6. CASE /\ Enters(n, OneAt(n, f.src)) /\ Grown
           /\ heap'[n][Len(heap[n]) + 1]
                = FileInfo(f.num, heap[n][FileOf(n, n, f.num)].name, {f.chunk})
  <2>1. PICK L : L = OneAt(n, f.src)
    OBVIOUS
  <2>2. ASSUME NEW p \in Running \ {n}, NEW o \in L[p]
        PROVE  /\ heap'[n][o].num \in NumsOf(p, p)
               /\ \A c \in heap'[n][o].has : Has(p, heap'[n][o].num, c)
    <3>1. p = f.src /\ o = Len(heap[n]) + 1
      BY <2>1, <2>2 DEF OneAt
    <3>2. heap'[n][o].num = f.num /\ heap'[n][o].has = {f.chunk}
      BY <1>6, <3>1, InfoFields
    <3> QED
      BY <1>3, <3>1, <3>2
  <2> QED
    BY <1>6, <2>1, <2>2, EntersKeeps
<1> QED
  BY <1>2, <1>4, <1>5, <1>6 DEF NewChunkEffect

LEMMA StepBeliefs ==
    ASSUME BeliefsInv, TypeInv', NobodyIsLate, [Next]_vars
    PROVE  Grown /\ Apart' /\ Beliefs'
<1> USE PeerFacts DEF BeliefsInv, FilesInv
<1>1. CASE UNCHANGED <<heap, files, disk>>
  BY <1>1, SameFiles
<1>2. ASSUME NEW n \in Running, NEW f \in File, Insert(n, f)
      PROVE  Grown /\ Apart' /\ Beliefs'
  <2>1. PICK L : L = OneAt(n, n)
    OBVIOUS
  <2>2. Enters(n, L) /\ Grown
    BY <1>2, <2>1, InsertShape
  <2>3. \A p \in Running \ {n} : L[p] = {}
    BY <2>1 DEF OneAt
  <2> QED
    BY <2>2, <2>3, EntersKeeps
<1>3. ASSUME NEW n \in Running, NEW m \in Running, OnChunk(n, m)
      PROVE  Grown /\ Apart' /\ Beliefs'
  <2>1. PICK f : f = Head(rep[n][m])
    OBVIOUS
  <2>2. PICK o : o = FileOf(n, n, f.num)
    OBVIOUS
  <2>3. o \in Listed(n, n) /\ Marked(n, o, f.chunk) /\ Grown
    BY <1>3, <2>1, <2>2, ChunkShape
  <2>4. \A p \in Running \ {n} : o \notin Listed(n, p)
    BY <2>3 DEF Apart
  <2> QED
    BY <2>3, <2>4, MarkedKeeps
<1> QED
  BY <1>1, <1>2, <1>3, FileSteps, OnNewFileBeliefs, OnNewChunkBeliefs

LEMMA StepAnnounced ==
    ASSUME BeliefsInv, TypeInv', Grown, [Next]_vars
    PROVE  Announced'
<1> USE PeerFacts DEF BeliefsInv, FilesInv
<1>1. RequestTraffic
  BY StepTraffic
<1> SUFFICES ASSUME NEW n \in Running, NEW m \in Node, NEW f \in Held(req'[n][m])
             PROVE  /\ f.type = "NEW_FILE_AVAILABLE" => f.src # m /\ f.num \in NumsOf(f.src, f.src)'
                    /\ f.type = "NEW_CHUNK_AVAILABLE" => f.src # m /\ Has(f.src, f.num, f.chunk)'
  BY DEF Announced, Held
<1>2. CASE f \in OldOf(req[n][m])
  <2>1. PICK g \in Held(req[n][m]) :
          /\ f.type = g.type
          /\ f.type = "NEW_FILE_AVAILABLE" => f.num = g.num /\ f.src = g.src
          /\ f.type = "NEW_CHUNK_AVAILABLE" => f.num = g.num /\ f.chunk = g.chunk /\ f.src = g.src
    BY <1>2, HeldFrames, OldFields
  <2>2. g \in Frames
    BY HeldFrames
  <2>3. ASSUME f.type = "NEW_FILE_AVAILABLE"
        PROVE  f.src # m /\ f.num \in NumsOf(f.src, f.src)'
    <3>1. g.src # m /\ g.num \in NumsOf(g.src, g.src) /\ g.src \in Running
      BY <2>1, <2>2, <2>3, FrameFields DEF Announced
    <3>2. g.num \in NumsOf(g.src, g.src)'
      BY <3>1, NumsKept
    <3> QED
      BY <2>1, <2>3, <3>1, <3>2
  <2>4. ASSUME f.type = "NEW_CHUNK_AVAILABLE"
        PROVE  f.src # m /\ Has(f.src, f.num, f.chunk)'
    <3>1. g.src # m /\ Has(g.src, g.num, g.chunk) /\ g.src \in Running
      BY <2>1, <2>2, <2>4, FrameFields DEF Announced
    <3>2. Has(g.src, g.num, g.chunk)'
      BY <3>1, HasKept
    <3> QED
      BY <2>1, <2>4, <3>1, <3>2
  <2> QED
    BY <2>3, <2>4
<1>3. CASE NewRequest(n, m, f)
  <2>1. ASSUME f.type = "NEW_FILE_AVAILABLE"
        PROVE  f.src # m /\ f.num \in NumsOf(f.src, f.src)'
    <3>1. PICK g \in File : Insert(n, g) /\ f.num = NextNum(n) /\ f.src = n /\ m # n
      BY <1>3, <2>1 DEF NewRequest, Announces
    <3>2. PICK new : new = Len(heap[n]) + 1
      OBVIOUS
    <3>3. new \in Listed(n, n)' /\ heap'[n][new].num = NextNum(n)
      <4>1. /\ Enters(n, OneAt(n, n))
            /\ heap'[n][new] = FileInfo(NextNum(n), g, Chunk)
        BY <3>1, <3>2, InsertShape
      <4>2. new \in OneAt(n, n)[n]
        BY <3>2 DEF OneAt
      <4> QED
        BY <4>1, <4>2, InfoFields DEF Enters
    <3>4. PICK num : num = NextNum(n)
      OBVIOUS
    <3>5. num \in NumsOf(n, n)'
      BY <3>3, <3>4 DEF NumsOf
    <3> QED
      BY <3>1, <3>4, <3>5
  <2>2. ASSUME f.type = "NEW_CHUNK_AVAILABLE"
        PROVE  f.src # m /\ Has(f.src, f.num, f.chunk)'
    <3>1. PICK p \in Running : /\ OnChunk(n, p) /\ f.num = Head(rep[n][p]).num
                               /\ f.chunk = Head(rep[n][p]).chunk /\ f.src = n /\ m # n
      BY <1>3, <2>2 DEF NewRequest, Announces
    <3>2. PICK c : c = Head(rep[n][p])
      OBVIOUS
    <3>3. Has(n, c.num, c.chunk)'
      BY <3>1, <3>2, ChunkShape
    <3> QED
      BY <3>1, <3>2, <3>3
  <2> QED
    BY <2>1, <2>2
<1> QED
  BY <1>1, <1>2, <1>3 DEF RequestTraffic

LEMMA BeliefsInvHolds == Spec /\ []NobodyIsLate => []BeliefsInv
<1>1. Init => Apart /\ Beliefs /\ Announced
  <2> SUFFICES ASSUME Init PROVE Apart /\ Beliefs /\ Announced
    OBVIOUS
  <2>1. \A n \in Running, m \in Node : Listed(n, m) = {} /\ Held(req[n][m]) = {}
    <3> TAKE n \in Running, m \in Node
    <3>1. files[n][m] = <<>> /\ req[n][m] = <<>>
      BY DEF Init
    <3> QED
      BY <3>1 DEF Listed, Held
  <2> QED
    BY <2>1, PeerFacts DEF Apart, Beliefs, Credits, Announced
<1>2. BeliefsInv /\ FilesInv' /\ NobodyIsLate /\ [Next]_vars => (Apart /\ Beliefs /\ Announced)'
  BY StepBeliefs, StepAnnounced DEF FilesInv
<1>3. FilesInv /\ Apart /\ Beliefs /\ Announced => BeliefsInv
  BY DEF BeliefsInv
<1> QED
  BY <1>1, <1>2, <1>3, FilesInvHolds, PTL DEF Spec

\* What a node believes another one to have, that one has, if nobody joined
\* a network that had files: as NEW_CHUNK_AVAILABLE is sent when the chunk is
\* marked, and each list has objects of its own, a mark is never ahead of the
\* truth, whatever the order in which the announcements are handled.
THEOREM BeliefsAreTrue == Spec /\ []NobodyIsLate => []BeliefsHold
<1>1. BeliefsInv => BeliefsHold
  <2> SUFFICES ASSUME BeliefsInv, NEW n \in Running, NEW m \in Running, NEW o \in Listed(n, m)
               PROVE  \E p \in Listed(m, m) : /\ heap[m][p].num = heap[n][o].num
                                              /\ heap[n][o].has \subseteq heap[m][p].has
    BY DEF BeliefsHold
  <2>1. CASE n = m
    BY <2>1
  <2>2. CASE n # m
    <3>1. PICK num \in NumsOf(m, m) :
             heap[n][o].num = num /\ \A c \in heap[n][o].has : Has(m, num, c)
      BY <2>2 DEF BeliefsInv, Beliefs, Credits
    <3>2. FileOf(m, m, num) \in Listed(m, m) /\ heap[m][FileOf(m, m, num)].num = num
      BY <3>1, PeerFacts, FileFound DEF BeliefsInv, FilesInv
    <3> QED
      BY <3>1, <3>2 DEF Has
  <2> QED
    BY <2>1, <2>2
<1> QED
  BY <1>1, BeliefsInvHolds, PTL

-----------------------------------------------------------------------------
(***************************************************************************)
(* What is marked is stored, if the user of w inserts all the files.       *)
(***************************************************************************)

\* The name of the file num.
Title(w, num) == heap[w][FileOf(w, w, num)].name

\* Every object is one of a file that w has, under its number and its name.
Titles(w) ==
    \A n \in Running : \A o \in DOMAIN heap[n] : \E num \in NumsOf(w, w) :
        heap[n][o].num = num /\ heap[n][o].name = Title(w, num)

\* So is every file that is announced,
TitledFrames(w) ==
    \A n \in Running, m \in Node : \A f \in Held(req[n][m]) :
        f.type = "NEW_FILE_AVAILABLE" =>
            f.num \in NumsOf(w, w) /\ f.name = Title(w, f.num)

\* and a chunk on its way is one of such a file, and somebody has it.
Bodies(w) ==
    \A n \in Running, m \in Node : \A f \in Held(rep[n][m]) :
        f.type = "CHUNK" => /\ f.num \in NumsOf(w, w) /\ f.data = Title(w, f.num)
                            /\ \E p \in Running : Has(p, f.num, f.chunk)

MarksInv(w) == BeliefsInv /\ Titles(w) /\ TitledFrames(w) /\ Bodies(w) /\ MarkedChunksAreStored

\* FileFound, after a step.
LEMMA FileFoundAfter ==
    ASSUME TypeInv', NEW n \in Running, NEW m \in Node, NEW num \in NumsOf(n, m)'
    PROVE  FileOf(n, m, num)' \in Listed(n, m)' /\ heap'[n][FileOf(n, m, num)'].num = num
<1> DEFINE l == files'[n][m]
           h == heap'[n]
           At == {i \in DOMAIN l : h[l[i]].num = num}
           First(i) == h[l[i]].num = num /\ \A j \in 1..(i - 1) : h[l[j]].num # num
<1>1. DOMAIN l = 1..Len(l) /\ Len(l) \in Nat
  <2>1. files'[n][m] \in Seq(DOMAIN heap'[n])
    BY DEF TypeInv, TypeOK
  <2> QED
    BY <2>1, LenProperties
<1>2. At \in SUBSET Nat /\ At # {}
  BY <1>1 DEF NumsOf, Listed
<1>3. PICK i \in At : \A j \in At : i <= j
  BY <1>2, LeastNumber
<1>4. i \in DOMAIN l /\ First(i)
  <2>1. ASSUME NEW j \in 1..(i - 1), h[l[j]].num = num PROVE FALSE
    <3>1. j \in At /\ j < i
      BY <1>1, <1>3, <2>1
    <3> QED
      BY <1>2, <1>3, <3>1
  <2> QED
    BY <1>3, <2>1
<1> DEFINE k == CHOOSE k \in DOMAIN l : First(k)
<1>5. k \in DOMAIN l /\ First(k)
  BY <1>4
<1>6. FileOf(n, m, num)' = l[k]
  BY DEF FileOf
<1> QED
  BY <1>5, <1>6 DEF Listed

LEMMA TitleKept ==
    ASSUME TypeInv, TypeInv', Grown, NEW w \in Running, NEW num \in NumsOf(w, w)
    PROVE  num \in NumsOf(w, w)' /\ Title(w, num)' = Title(w, num)
<1> USE PeerFacts
<1>1. num \in NumsOf(w, w)' /\ FileOf(w, w, num)' = FileOf(w, w, num)
  BY FileOfKept
<1>2. FileOf(w, w, num) \in DOMAIN heap[w]
  BY FileFound, ListTypes
<1>3. heap'[w][FileOf(w, w, num)].name = heap[w][FileOf(w, w, num)].name
  BY <1>2 DEF Grown
<1> QED
  BY <1>1, <1>3 DEF Title

\* The title of a file that is inserted.
LEMMA InsertTitle ==
    ASSUME TypeInv, TypeInv', NEW w \in Running, NEW f \in File, Insert(w, f),
           NEW num, num = NextNum(w)
    PROVE  num \in NumsOf(w, w)' /\ Title(w, num)' = f
<1> USE PeerFacts
<1>1. PICK new : new = Len(heap[w]) + 1
  OBVIOUS
<1>2. PICK L : L = OneAt(w, w) /\ L[w] = {new}
  <2>1. w \in Node
    OBVIOUS
  <2>2. OneAt(w, w)[w] = {new}
    BY <1>1, <2>1 DEF OneAt
  <2> QED
    BY <2>2
<1>3. Enters(w, L) /\ heap'[w][new] = FileInfo(num, f, Chunk)
  BY <1>1, <1>2, InsertShape
<1>4. Listed(w, w)' = Listed(w, w) \cup {new}
  BY <1>2, <1>3 DEF Enters
<1>5. heap'[w][new].num = num /\ heap'[w][new].name = f
  BY <1>3, InfoFields
<1>6. num \in NumsOf(w, w)'
  BY <1>4, <1>5 DEF NumsOf
<1>7. FileOf(w, w, num)' \in Listed(w, w)' /\ heap'[w][FileOf(w, w, num)'].num = num
  BY <1>6, FileFoundAfter
<1>8. ASSUME NEW o \in Listed(w, w) PROVE heap'[w][o].num # num
  <2>1. num \notin NumsOf(w, w)
    BY NextNumIsNew
  <2>2. o \in DOMAIN heap[w]
    BY ListTypes
  <2>3. heap'[w][o] = heap[w][o]
    BY <1>3, <2>2 DEF Enters
  <2> QED
    BY <2>1, <2>3 DEF NumsOf
<1>9. FileOf(w, w, num)' = new
  BY <1>4, <1>7, <1>8
<1> QED
  BY <1>5, <1>6, <1>9 DEF Title

\* The titles, if new objects are of the file num called name.
LEMMA TitlesStep ==
    ASSUME TypeInv, TypeInv', Grown, NEW w \in Running, Titles(w),
           NEW num, NEW name,
           \A s \in Running : \A o \in DOMAIN heap'[s] :
             \/ o \in DOMAIN heap[s]
             \/ /\ heap'[s][o].num = num /\ heap'[s][o].name = name
                /\ num \in NumsOf(w, w)' /\ Title(w, num)' = name
    PROVE  Titles(w)'
<1> SUFFICES ASSUME NEW s \in Running, NEW o \in DOMAIN heap'[s]
             PROVE  \E k \in NumsOf(w, w)' :
                      heap'[s][o].num = k /\ heap'[s][o].name = Title(w, k)'
  BY DEF Titles
<1>1. CASE o \in DOMAIN heap[s]
  <2>1. PICK k \in NumsOf(w, w) : heap[s][o].num = k /\ heap[s][o].name = Title(w, k)
    BY <1>1 DEF Titles
  <2>2. k \in NumsOf(w, w)' /\ Title(w, k)' = Title(w, k)
    BY TitleKept
  <2>3. heap'[s][o].num = k /\ heap'[s][o].name = heap[s][o].name
    BY <1>1, <2>1 DEF Grown
  <2> QED
    BY <2>1, <2>2, <2>3
<1>2. CASE o \notin DOMAIN heap[s]
  BY <1>2
<1> QED
  BY <1>1, <1>2

\* An object is called what the file with its number is called.
LEMMA TitleOf ==
    ASSUME NEW w \in Running, Titles(w), NEW n \in Running, NEW o \in DOMAIN heap[n],
           NEW num, heap[n][o].num = num
    PROVE  num \in NumsOf(w, w) /\ heap[n][o].name = Title(w, num)
BY DEF Titles

\* Old objects are still there, new ones are in some list.
LEMMA EntersObjects ==
    ASSUME NEW n \in Running, NEW L, Enters(n, L), NEW s \in Running, NEW o \in DOMAIN heap'[s]
    PROVE  o \in DOMAIN heap[s] \/ (s = n /\ \E m \in Node : o \in L[m])
BY DEF Enters

LEMMA StepTitles ==
    ASSUME NEW w \in Running, \A f \in File : Owner[f] = w,
           MarksInv(w), TypeInv', Grown, NobodyIsLate, [Next]_vars
    PROVE  Titles(w)'
<1> USE PeerFacts DEF MarksInv, BeliefsInv, FilesInv
<1>1. CASE UNCHANGED <<heap, files, disk>>
  <2>1. \A s \in Running : DOMAIN heap'[s] = DOMAIN heap[s]
    BY <1>1
  <2> QED
    BY <2>1, TitlesStep
<1>2. ASSUME NEW n \in Running, NEW f \in File, Insert(n, f)
      PROVE  Titles(w)'
  <2>1. n = w
    BY <1>2 DEF Insert
  <2>2. PICK num : num = NextNum(w)
    OBVIOUS
  <2>3. num \in NumsOf(w, w)' /\ Title(w, num)' = f
    BY <1>2, <2>1, <2>2, InsertTitle
  <2>4. PICK L : L = OneAt(w, w)
    OBVIOUS
  <2>5. Enters(w, L) /\ heap'[w][Len(heap[w]) + 1] = FileInfo(num, f, Chunk)
    BY <1>2, <2>1, <2>2, <2>4, InsertShape
  <2>6. \A s \in Running : \A o \in DOMAIN heap'[s] :
           \/ o \in DOMAIN heap[s]
           \/ heap'[s][o].num = num /\ heap'[s][o].name = f
    <3> TAKE s \in Running
    <3> TAKE o \in DOMAIN heap'[s]
    <3>1. CASE s = w /\ \E m \in Node : o \in L[m]
      <4>1. o = Len(heap[w]) + 1
        BY <2>4, <3>1 DEF OneAt
      <4> QED
        BY <2>5, <3>1, <4>1, InfoFields
    <3> QED
      BY <2>5, <3>1, EntersObjects
  <2> QED
    BY <2>3, <2>6, TitlesStep
<1>3. ASSUME NEW n \in Running, NEW m \in Running, OnNewFile(n, m)
      PROVE  Titles(w)'
  <2>1. PICK f : f = Head(req[m][n])
    OBVIOUS
  <2>2. f \in Held(req[m][n]) /\ f.type = "NEW_FILE_AVAILABLE"
    BY <1>3, <2>1, QueueTypes, HeldTail DEF OnNewFile, Request
  <2>3. f.src # n /\ f.num \in NumsOf(w, w) /\ f.name = Title(w, f.num)
    BY <2>2 DEF Announced, TitledFrames
  <2>4. PICK L : L = TwoAt(n, f.src)
    OBVIOUS
  <2>5. Enters(n, L)
    BY <1>3, <2>1, <2>3, <2>4, NewFileShape
  <2>6. /\ heap'[n][Len(heap[n]) + 1] = FileInfo(f.num, f.name, {})
        /\ heap'[n][Len(heap[n]) + 2] = FileInfo(f.num, f.name, {})
    BY <1>3, <2>1, <2>3, NewFileShape
  <2>7. \A s \in Running : \A o \in DOMAIN heap'[s] :
           \/ o \in DOMAIN heap[s]
           \/ heap'[s][o].num = f.num /\ heap'[s][o].name = f.name
    <3> TAKE s \in Running
    <3> TAKE o \in DOMAIN heap'[s]
    <3>1. CASE s = n /\ \E p \in Node : o \in L[p]
      <4>1. o = Len(heap[n]) + 1 \/ o = Len(heap[n]) + 2
        BY <2>4, <3>1 DEF TwoAt
      <4> QED
        BY <2>6, <3>1, <4>1, InfoFields
    <3> QED
      BY <2>5, <3>1, EntersObjects
  <2>8. PICK num : num = f.num
    OBVIOUS
  <2>9. num \in NumsOf(w, w)' /\ Title(w, num)' = f.name
    BY <2>3, <2>8, TitleKept
  <2> QED
    BY <2>7, <2>8, <2>9, TitlesStep
<1>4. ASSUME NEW n \in Running, NEW m \in Running, OnNewChunk(n, m)
      PROVE  Titles(w)'
  <2>1. PICK f : f = Head(req[m][n])
    OBVIOUS
  <2>2. NewChunkEffect(n, f)
    BY <1>4, <2>1, NewChunkShape
  <2>3. CASE UNCHANGED <<heap, files>>
    <3>1. \A s \in Running : DOMAIN heap'[s] = DOMAIN heap[s]
      BY <2>3
    <3> QED
      BY <3>1, TitlesStep
  <2>4. CASE Marked(n, FileOf(n, f.src, f.num), f.chunk)
    <3>1. \A s \in Running : DOMAIN heap'[s] = DOMAIN heap[s]
      BY <2>4 DEF Marked
    <3> QED
      BY <3>1, TitlesStep
  <2>5. CASE /\ f.num \in NumsOf(n, n) /\ Enters(n, OneAt(n, f.src))
             /\ heap'[n][Len(heap[n]) + 1]
                  = FileInfo(f.num, heap[n][FileOf(n, n, f.num)].name, {f.chunk})
    <3>1. PICK num, name, L : /\ num = f.num /\ name = heap[n][FileOf(n, n, f.num)].name
                              /\ L = OneAt(n, f.src)
      OBVIOUS
    <3>2. num \in NumsOf(w, w) /\ name = Title(w, num)
      <4>1. PICK o : o = FileOf(n, n, num)
        OBVIOUS
      <4>2. o \in DOMAIN heap[n] /\ heap[n][o].num = num
        BY <2>5, <3>1, <4>1, FileFound, ListTypes
      <4> QED
        BY <3>1, <4>1, <4>2, TitleOf
    <3>3. \A s \in Running : \A o \in DOMAIN heap'[s] :
             \/ o \in DOMAIN heap[s]
             \/ heap'[s][o].num = num /\ heap'[s][o].name = name
      <4> TAKE s \in Running
      <4> TAKE o \in DOMAIN heap'[s]
      <4>1. CASE s = n /\ \E p \in Node : o \in L[p]
        <5>1. o = Len(heap[n]) + 1
          BY <3>1, <4>1 DEF OneAt
        <5> QED
          BY <2>5, <3>1, <4>1, <5>1, InfoFields
      <4>2. Enters(n, L)
        BY <2>5, <3>1
      <4> QED
        BY <4>1, <4>2, EntersObjects
    <3>4. num \in NumsOf(w, w)' /\ Title(w, num)' = name
      BY <3>2, TitleKept
    <3> QED
      BY <3>3, <3>4, TitlesStep
  <2> QED
    BY <2>2, <2>3, <2>4, <2>5 DEF NewChunkEffect
<1>5. ASSUME NEW n \in Running, NEW m \in Running, OnChunk(n, m)
      PROVE  Titles(w)'
  <2>1. PICK f : f = Head(rep[n][m])
    OBVIOUS
  <2>2. Marked(n, FileOf(n, n, f.num), f.chunk)
    BY <1>5, <2>1, ChunkShape
  <2>3. \A s \in Running : DOMAIN heap'[s] = DOMAIN heap[s]
    BY <2>2 DEF Marked
  <2> QED
    BY <2>3, TitlesStep
<1> QED
  BY <1>1, <1>2, <1>3, <1>4, <1>5, FileSteps

\* What a step does to the announcements of files, under way to any node.
LEMMA StepTitledFrames ==
    ASSUME NEW w \in Running, \A f \in File : Owner[f] = w,
           MarksInv(w), TypeInv', Grown, [Next]_vars
    PROVE  TitledFrames(w)'
<1> USE PeerFacts DEF MarksInv, BeliefsInv, FilesInv
<1>1. RequestTraffic
  BY StepTraffic
<1> SUFFICES ASSUME NEW n \in Running, NEW m \in Node, NEW f \in Held(req'[n][m]),
                    f.type = "NEW_FILE_AVAILABLE"
             PROVE  f.num \in NumsOf(w, w)' /\ f.name = Title(w, f.num)'
  BY DEF TitledFrames, Held
<1>2. CASE f \in OldOf(req[n][m])
  <2>1. PICK g \in Held(req[n][m]) :
          f.type = g.type /\ f.num = g.num /\ f.name = g.name
    BY <1>2, HeldFrames, OldFields
  <2>2. PICK num : num = g.num
    OBVIOUS
  <2>3. num \in NumsOf(w, w) /\ g.name = Title(w, num)
    BY <2>1, <2>2 DEF TitledFrames
  <2>4. num \in NumsOf(w, w)' /\ Title(w, num)' = Title(w, num)
    BY <2>3, TitleKept
  <2> QED
    BY <2>1, <2>2, <2>3, <2>4
<1>3. CASE NewRequest(n, m, f)
  <2>1. PICK g \in File : Insert(n, g) /\ f.num = NextNum(n) /\ f.name = g
    BY <1>3 DEF NewRequest, Announces
  <2>2. n = w
    BY <2>1 DEF Insert
  <2>3. PICK num : num = NextNum(w)
    OBVIOUS
  <2>4. num \in NumsOf(w, w)' /\ Title(w, num)' = g
    BY <2>1, <2>2, <2>3, InsertTitle
  <2> QED
    BY <2>1, <2>2, <2>3, <2>4
<1> QED
  BY <1>1, <1>2, <1>3 DEF RequestTraffic

\* The chunks of a body that is served: it is on the disk of the one that
\* serves it, and so the one of the file.
LEMMA ServedBody ==
    ASSUME NEW w \in Running, MarksInv(w), NEW m \in Running, NEW f, Served(m, f)
    PROVE  /\ f.num \in NumsOf(w, w) /\ f.data = Title(w, f.num)
           /\ Has(m, f.num, f.chunk)
<1> USE PeerFacts DEF MarksInv, BeliefsInv, FilesInv
<1>1. PICK o : o = FileOf(m, m, f.num)
  OBVIOUS
<1>2. /\ f.num \in NumsOf(m, m) /\ f.chunk \in heap[m][o].has
      /\ f.data = disk[m][heap[m][o].name][f.chunk]
  BY <1>1 DEF Served
<1>3. o \in Listed(m, m) /\ o \in DOMAIN heap[m] /\ heap[m][o].num = f.num
  BY <1>1, <1>2, FileFound, ListTypes
<1>4. f.data = heap[m][o].name
  BY <1>2, <1>3 DEF MarkedChunksAreStored
<1>5. f.num \in NumsOf(w, w) /\ heap[m][o].name = Title(w, f.num)
  BY <1>3, TitleOf
<1> QED
  BY <1>1, <1>2, <1>4, <1>5 DEF Has

\* What a step does to the chunks on their way.
LEMMA StepBodies ==
    ASSUME NEW w \in Running, MarksInv(w), TypeInv', Grown, [Next]_vars
    PROVE  Bodies(w)'
<1> USE PeerFacts DEF MarksInv, BeliefsInv, FilesInv
<1>1. ReplyTraffic
  BY StepTraffic
<1>2. ASSUME NEW f, NEW p \in Running, f.num \in NumsOf(w, w), f.data = Title(w, f.num),
             Has(p, f.num, f.chunk)
      PROVE  /\ f.num \in NumsOf(w, w)' /\ f.data = Title(w, f.num)'
             /\ \E q \in Running : Has(q, f.num, f.chunk)'
  <2>1. PICK num, c : num = f.num /\ c = f.chunk
    OBVIOUS
  <2>2. num \in NumsOf(w, w)' /\ Title(w, num)' = Title(w, num)
    BY <1>2, <2>1, TitleKept
  <2>3. Has(p, num, c)'
    BY <1>2, <2>1, HasKept
  <2> QED
    BY <1>2, <2>1, <2>2, <2>3
<1> SUFFICES ASSUME NEW n \in Running, NEW m \in Node, NEW f \in Held(rep'[n][m]),
                    f.type = "CHUNK"
             PROVE  /\ f.num \in NumsOf(w, w)' /\ f.data = Title(w, f.num)'
                    /\ \E p \in Running : Has(p, f.num, f.chunk)'
  BY DEF Bodies, Held
<1>3. CASE f \in OldOf(rep[n][m])
  <2>1. PICK g \in Held(rep[n][m]) :
          f.type = g.type /\ f.num = g.num /\ f.chunk = g.chunk /\ f.data = g.data
    BY <1>3, HeldFrames, OldFields
  <2>2. /\ f.num \in NumsOf(w, w) /\ f.data = Title(w, f.num)
        /\ \E p \in Running : Has(p, f.num, f.chunk)
    BY <2>1 DEF Bodies
  <2> QED
    BY <1>2, <2>2
<1>4. CASE NewReply(n, m, f)
  <2>1. m \in Running /\ Served(m, f)
    BY <1>4 DEF NewReply
  <2> QED
    BY <1>2, <2>1, ServedBody
<1> QED
  BY <1>1, <1>3, <1>4 DEF ReplyTraffic

\* The part of MarkedChunksAreStored about the chunks of one object.
OnDisk(n, o) ==
    \A c \in heap[n][o].has : disk[n][heap[n][o].name][c] = heap[n][o].name

LEMMA InsertStored ==
    ASSUME TypeInv, NEW w \in Running, NEW f \in File, Insert(w, f), MarkedChunksAreStored
    PROVE  MarkedChunksAreStored'
<1> USE PeerFacts
<1>1. PICK new, L : new = Len(heap[w]) + 1 /\ L = OneAt(w, w)
  OBVIOUS
<1>2. /\ Enters(w, L) /\ L[w] = {new}
      /\ heap'[w][new].name = f /\ heap'[w][new].has = Chunk
  <2>1. w \in Node
    OBVIOUS
  <2>2. OneAt(w, w)[w] = {Len(heap[w]) + 1}
    BY <2>1 DEF OneAt
  <2> QED
    BY <1>1, <2>2, InsertShape, InfoFields
<1>3. disk' = [disk EXCEPT ![w][f] = [c \in Chunk |-> f]]
  BY DEF Insert
<1>4. /\ \A s \in Running \ {w} : disk'[s] = disk[s]
      /\ \A g \in File \ {f} : disk'[w][g] = disk[w][g]
      /\ \A c \in Chunk : disk'[w][f][c] = f
  <2>1. disk \in [Running -> [File -> [Chunk -> File \cup {Garbage}]]]
    BY DEF TypeInv, TypeOK
  <2> QED
    BY <1>3, <2>1
<1>5. ASSUME NEW s \in Running, NEW o \in Listed(s, s)' PROVE OnDisk(s, o)'
  <2>1. CASE s # w
    <3>1. heap'[s] = heap[s] /\ Listed(s, s)' = Listed(s, s) /\ disk'[s] = disk[s]
      BY <1>2, <1>4, <2>1 DEF Enters, Listed
    <3>2. OnDisk(s, o)
      BY <1>5, <3>1 DEF MarkedChunksAreStored, OnDisk
    <3> QED
      BY <3>1, <3>2 DEF OnDisk
  <2>2. CASE s = w /\ o = new
    BY <1>2, <1>4, <2>2 DEF OnDisk
  <2>3. CASE s = w /\ o # new
    <3>1. o \in Listed(w, w) /\ o \in DOMAIN heap[w]
      <4>1. Listed(w, w)' = Listed(w, w) \cup L[w]
        BY <1>2 DEF Enters
      <4> QED
        BY <1>2, <1>5, <2>3, <4>1, ListTypes
    <3>2. heap'[w][o] = heap[w][o] /\ heap[w][o].name # f /\ heap[w][o].name \in File
      BY <1>2, <3>1, ListTypes DEF Insert, Enters, FileInfos
    <3>3. disk'[w][heap[w][o].name] = disk[w][heap[w][o].name]
      BY <1>4, <3>2
    <3>4. OnDisk(w, o)
      BY <3>1 DEF MarkedChunksAreStored, OnDisk
    <3> QED
      BY <2>3, <3>2, <3>3, <3>4 DEF OnDisk
  <2> QED
    BY <2>1, <2>2, <2>3
<1> QED
  BY <1>5 DEF MarkedChunksAreStored, OnDisk

\* A step that enters objects into the list n keeps of itself only unmarked.
LEMMA EntersStored ==
    ASSUME TypeInv, NEW n \in Running, NEW L, Enters(n, L), disk' = disk,
           \A o \in L[n] : heap'[n][o].has = {}, MarkedChunksAreStored
    PROVE  MarkedChunksAreStored'
<1> USE PeerFacts
<1>1. ASSUME NEW s \in Running, NEW o \in Listed(s, s)' PROVE OnDisk(s, o)'
  <2>1. CASE s # n
    <3>1. heap'[s] = heap[s] /\ Listed(s, s)' = Listed(s, s)
      BY <2>1 DEF Enters, Listed
    <3>2. OnDisk(s, o)
      BY <1>1, <3>1 DEF MarkedChunksAreStored, OnDisk
    <3> QED
      BY <3>1, <3>2 DEF OnDisk
  <2>2. CASE s = n /\ o \in L[n]
    BY <2>2 DEF OnDisk
  <2>3. CASE s = n /\ o \notin L[n]
    <3>1. o \in Listed(n, n) /\ o \in DOMAIN heap[n]
      <4>1. Listed(n, n)' = Listed(n, n) \cup L[n]
        BY DEF Enters
      <4> QED
        BY <1>1, <2>3, <4>1, ListTypes
    <3>2. heap'[n][o] = heap[n][o]
      BY <3>1 DEF Enters
    <3>3. OnDisk(n, o)
      BY <3>1 DEF MarkedChunksAreStored, OnDisk
    <3> QED
      BY <2>3, <3>2, <3>3 DEF OnDisk
  <2> QED
    BY <2>1, <2>2, <2>3
<1> QED
  BY <1>1 DEF MarkedChunksAreStored, OnDisk

\* A chunk is marked: in a list of another node, or it is on the disk.
LEMMA MarkedStored ==
    ASSUME TypeInv, NEW n \in Running, NEW o, NEW c, Marked(n, o, c), MarkedChunksAreStored,
           \A s \in Running \ {n} : disk'[s] = disk[s],
           \A q \in Listed(n, n) : \A k \in heap[n][q].has :
             \/ disk'[n][heap[n][q].name][k] = disk[n][heap[n][q].name][k]
             \/ disk'[n][heap[n][q].name][k] = heap[n][q].name,
           o \in Listed(n, n) => disk'[n][heap[n][o].name][c] = heap[n][o].name
    PROVE  MarkedChunksAreStored'
<1> USE PeerFacts
<1>1. ASSUME NEW s \in Running, NEW q \in Listed(s, s)' PROVE OnDisk(s, q)'
  <2>1. Listed(s, s)' = Listed(s, s)
    BY DEF Marked, Listed
  <2>2. q \in Listed(s, s) /\ q \in DOMAIN heap[s] /\ OnDisk(s, q)
    BY <1>1, <2>1, ListTypes DEF MarkedChunksAreStored, OnDisk
  <2>3. CASE s # n
    <3>1. heap'[s] = heap[s] /\ disk'[s] = disk[s]
      BY <2>3 DEF Marked
    <3> QED
      BY <2>2, <3>1 DEF OnDisk
  <2>4. CASE s = n
    <3>1. /\ heap'[n][q].name = heap[n][q].name
          /\ heap'[n][q].has = IF q = o THEN heap[n][q].has \cup {c} ELSE heap[n][q].has
      BY <2>2, <2>4 DEF Marked
    <3>2. \A k \in heap[n][q].has : disk'[n][heap[n][q].name][k] = heap[n][q].name
      BY <2>2, <2>4 DEF OnDisk
    <3> QED
      BY <2>2, <2>4, <3>1, <3>2 DEF OnDisk
  <2> QED
    BY <2>3, <2>4
<1> QED
  BY <1>1 DEF MarkedChunksAreStored, OnDisk

LEMMA OnChunkStored ==
    ASSUME NEW w \in Running, MarksInv(w), TypeInv', NEW n \in Running, NEW m \in Running,
           OnChunk(n, m)
    PROVE  MarkedChunksAreStored'
<1> USE PeerFacts DEF MarksInv, BeliefsInv, FilesInv
<1>1. PICK f : f = Head(rep[n][m])
  OBVIOUS
<1>2. PICK o : o = FileOf(n, n, f.num)
  OBVIOUS
<1>3. /\ f \in Frames /\ f \in Held(rep[n][m]) /\ f.type = "CHUNK"
      /\ f.num \in NumsOf(n, n) /\ o \in Listed(n, n) /\ Marked(n, o, f.chunk)
  BY <1>1, <1>2, ChunkShape
<1>4. PICK name : name = heap[n][o].name
  OBVIOUS
<1>5. o \in DOMAIN heap[n] /\ heap[n][o].num = f.num /\ name \in File /\ f.chunk \in Chunk
  BY <1>2, <1>3, <1>4, FileFound, ListTypes, FrameFields DEF FileInfos
<1>6. f.data = name
  <2>1. f.data = Title(w, f.num)
    BY <1>3 DEF Bodies
  <2> QED
    BY <1>4, <1>5, <2>1, TitleOf
<1>7. disk' = [disk EXCEPT ![n][name][f.chunk] = name]
  <2>1. disk' = [disk EXCEPT ![n][heap[n][o].name][f.chunk] = f.data]
    BY <1>1, <1>2 DEF OnChunk
  <2> QED
    BY <1>4, <1>6, <2>1
<1>8. disk \in [Running -> [File -> [Chunk -> File \cup {Garbage}]]]
  BY DEF TypeInv, TypeOK
<1>9. /\ \A s \in Running \ {n} : disk'[s] = disk[s]
      /\ \A g \in File, k \in Chunk :
           disk'[n][g][k] = IF g = name /\ k = f.chunk THEN name ELSE disk[n][g][k]
  BY <1>5, <1>7, <1>8
<1>10. \A q \in Listed(n, n) : heap[n][q].name \in File /\ heap[n][q].has \in SUBSET Chunk
  BY ListTypes DEF FileInfos
<1>11. /\ disk'[n][heap[n][o].name][f.chunk] = heap[n][o].name
       /\ \A q \in Listed(n, n) : \A k \in heap[n][q].has :
            \/ disk'[n][heap[n][q].name][k] = disk[n][heap[n][q].name][k]
            \/ disk'[n][heap[n][q].name][k] = heap[n][q].name
  BY <1>4, <1>5, <1>9, <1>10
<1> QED
  BY <1>3, <1>9, <1>11, MarkedStored

\* What is marked is stored, after a step as before it.
LEMMA StepStored ==
    ASSUME NEW w \in Running, \A f \in File : Owner[f] = w,
           MarksInv(w), TypeInv', NobodyIsLate, [Next]_vars
    PROVE  MarkedChunksAreStored'
<1> USE PeerFacts DEF MarksInv, BeliefsInv, FilesInv
<1>1. CASE UNCHANGED <<heap, files, disk>>
  BY <1>1 DEF MarkedChunksAreStored, Listed
<1>2. ASSUME NEW n \in Running, NEW f \in File, Insert(n, f)
      PROVE  MarkedChunksAreStored'
  BY <1>2, InsertStored
<1>3. ASSUME NEW n \in Running, NEW m \in Running, OnNewFile(n, m)
      PROVE  MarkedChunksAreStored'
  <2>1. PICK f : f = Head(req[m][n])
    OBVIOUS
  <2>2. f \in Held(req[m][n]) /\ f.type = "NEW_FILE_AVAILABLE"
    BY <1>3, <2>1, QueueTypes, HeldTail DEF OnNewFile, Request
  <2>3. PICK L : L = TwoAt(n, f.src)
    OBVIOUS
  <2>4. f.src # n
    BY <2>2 DEF Announced
  <2>5. /\ Enters(n, L) /\ heap'[n][Len(heap[n]) + 1].has = {}
    BY <1>3, <2>1, <2>3, <2>4, NewFileShape, InfoFields
  <2>6. \A o \in L[n] : o = Len(heap[n]) + 1
    BY <2>3 DEF TwoAt
  <2>7. disk' = disk
    BY <1>3 DEF OnNewFile
  <2> QED
    BY <2>5, <2>6, <2>7, EntersStored
<1>4. ASSUME NEW n \in Running, NEW m \in Running, OnNewChunk(n, m)
      PROVE  MarkedChunksAreStored'
  <2>1. PICK f : f = Head(req[m][n])
    OBVIOUS
  <2>2. /\ f \in Frames /\ f \in Held(req[m][n]) /\ f.type = "NEW_CHUNK_AVAILABLE"
        /\ NewChunkEffect(n, f)
    BY <1>4, <2>1, NewChunkShape
  <2>3. f.src # n /\ f.src \in Running
    BY <2>2, FrameFields DEF Announced
  <2>4. disk' = disk
    BY <1>4 DEF OnNewChunk
  <2>5. CASE UNCHANGED <<heap, files>>
    BY <2>4, <2>5 DEF MarkedChunksAreStored, Listed
  <2>6. CASE f.num \in NumsOf(n, f.src) /\ Marked(n, FileOf(n, f.src, f.num), f.chunk)
    <3>1. PICK o : o = FileOf(n, f.src, f.num)
      OBVIOUS
    <3>2. o \in Listed(n, f.src)
      BY <2>3, <2>6, <3>1, FileFound
    <3>3. o \notin Listed(n, n)
      BY <2>3, <3>2 DEF Apart
    <3> QED
      BY <2>4, <2>6, <3>1, <3>3, MarkedStored
  <2>7. CASE Enters(n, OneAt(n, f.src))
    <3>1. PICK L : L = OneAt(n, f.src)
      OBVIOUS
    <3>2. L[n] = {}
      BY <2>3, <3>1 DEF OneAt
    <3> QED
      BY <2>4, <2>7, <3>1, <3>2, EntersStored
  <2> QED
    BY <2>2, <2>5, <2>6, <2>7 DEF NewChunkEffect
<1>5. ASSUME NEW n \in Running, NEW m \in Running, OnChunk(n, m)
      PROVE  MarkedChunksAreStored'
  BY <1>5, OnChunkStored
<1> QED
  BY <1>1, <1>2, <1>3, <1>4, <1>5, FileSteps

LEMMA MarksInvHolds ==
    ASSUME NEW w \in Running, \A f \in File : Owner[f] = w
    PROVE  Spec /\ []NobodyIsLate => []MarksInv(w)
<1>1. Init => Titles(w) /\ TitledFrames(w) /\ Bodies(w) /\ MarkedChunksAreStored
  <2> SUFFICES ASSUME Init
               PROVE  Titles(w) /\ TitledFrames(w) /\ Bodies(w) /\ MarkedChunksAreStored
    OBVIOUS
  <2>1. \A n \in Running, m \in Node :
           Listed(n, m) = {} /\ Held(req[n][m]) = {} /\ Held(rep[n][m]) = {}
    <3> TAKE n \in Running, m \in Node
    <3>1. files[n][m] = <<>> /\ req[n][m] = <<>> /\ rep[n][m] = <<>>
      BY DEF Init
    <3> QED
      BY <3>1 DEF Listed, Held
  <2>2. \A n \in Running : DOMAIN heap[n] = {}
    BY DEF Init
  <2> QED
    BY <2>1, <2>2, PeerFacts DEF Titles, TitledFrames, Bodies, MarkedChunksAreStored
<1>2. MarksInv(w) /\ BeliefsInv' /\ NobodyIsLate /\ [Next]_vars => MarksInv(w)'
  <2> SUFFICES ASSUME MarksInv(w), BeliefsInv', NobodyIsLate, [Next]_vars
               PROVE  MarksInv(w)'
    OBVIOUS
  <2>1. TypeInv' /\ Grown
    BY StepBeliefs DEF MarksInv, BeliefsInv, FilesInv
  <2> QED
    BY <2>1, StepTitles, StepTitledFrames, StepBodies, StepStored DEF MarksInv
<1>3. BeliefsInv /\ Titles(w) /\ TitledFrames(w) /\ Bodies(w) /\ MarkedChunksAreStored => MarksInv(w)
  BY DEF MarksInv
<1> QED
  BY <1>1, <1>2, <1>3, BeliefsInvHolds, PTL DEF Spec

\* What a node has marked is on its disk, whole and under its own name, if one
\* user inserts the files and nobody joins a network that has some: a mark is
\* only made on the writing of the chunk, by insert() or from a CHUNK frame,
\* and what such a frame carries was read from a disk where this holds.
THEOREM MarksAreStored ==
    ASSUME NEW w \in Running, \A f \in File : Owner[f] = w
    PROVE  Spec /\ []NobodyIsLate => []MarkedChunksAreStored
<1>1. MarksInv(w) => MarkedChunksAreStored
  BY DEF MarksInv
<1> QED
  BY <1>1, MarksInvHolds, PTL

-----------------------------------------------------------------------------
(***************************************************************************)
(* The replica set.  As what is marked is stored, what a node serves can   *)
(* be read off its marks.                                                  *)
(***************************************************************************)
CopiesOf(n, o) == {<<heap[n][o].name, c, heap[n][o].name>> : c \in heap[n][o].has}
Copies(n) == UNION {CopiesOf(n, o) : o \in Listed(n, n)}
MarksAreHoldings == \A n \in Running : Holdings[n] = Copies(n)

\* n comes to serve S, and nobody anything else.
Gains(n, S) ==
    /\ Copies(n)' = Copies(n) \cup S
    /\ \A s \in Running \ {n} : Copies(s)' = Copies(s)

LEMMA StoredCopies == MarkedChunksAreStored => MarksAreHoldings
<1> SUFFICES ASSUME MarkedChunksAreStored, NEW n \in Running
             PROVE  Holdings[n] = Copies(n)
  BY DEF MarksAreHoldings
<1> DEFINE AsStored(o) == {<<heap[n][o].name, c, disk[n][heap[n][o].name][c]>> :
                             c \in heap[n][o].has}
<1>1. ASSUME NEW o \in Listed(n, n) PROVE AsStored(o) = CopiesOf(n, o)
  BY DEF MarkedChunksAreStored, CopiesOf
<1>2. Holdings[n] = UNION {AsStored(o) : o \in Listed(n, n)}
  BY DEF Holdings
<1> HIDE DEF AsStored
<1> QED
  BY <1>1, <1>2 DEF Copies

LEMMA SameCopies ==
    ASSUME NEW s \in Running, heap'[s] = heap[s], files'[s] = files[s]
    PROVE  Copies(s)' = Copies(s)
<1>1. Listed(s, s)' = Listed(s, s)
  BY DEF Listed
<1>2. \A o : CopiesOf(s, o)' = CopiesOf(s, o)
  BY DEF CopiesOf
<1> QED
  BY <1>1, <1>2 DEF Copies

LEMMA EntersCopies ==
    ASSUME TypeInv, NEW n \in Running, NEW L, Enters(n, L)
    PROVE  Gains(n, UNION {CopiesOf(n, o)' : o \in L[n]})
<1> USE PeerFacts
<1>1. Listed(n, n)' = Listed(n, n) \cup L[n]
  BY DEF Enters
<1>2. ASSUME NEW o \in Listed(n, n) PROVE CopiesOf(n, o)' = CopiesOf(n, o)
  <2>1. o \in DOMAIN heap[n]
    BY ListTypes
  <2>2. heap'[n][o] = heap[n][o]
    BY <2>1 DEF Enters
  <2> QED
    BY <2>2 DEF CopiesOf
<1>3. Copies(n)' = UNION {CopiesOf(n, o)' : o \in Listed(n, n)'}
  BY DEF Copies
<1> DEFINE New(o) == CopiesOf(n, o)'
<1>4. Copies(n)' = (UNION {New(o) : o \in Listed(n, n)}) \cup (UNION {New(o) : o \in L[n]})
  <2>1. Copies(n)' = UNION {New(o) : o \in Listed(n, n) \cup L[n]}
    BY <1>1, <1>3
  <2> HIDE DEF New
  <2> QED
    BY <2>1
<1>5. UNION {New(o) : o \in Listed(n, n)} = Copies(n)
  <2>1. \A o \in Listed(n, n) : New(o) = CopiesOf(n, o)
    BY <1>2
  <2> HIDE DEF New
  <2> QED
    BY <2>1 DEF Copies
<1>6. \A s \in Running \ {n} : Copies(s)' = Copies(s)
  BY SameCopies DEF Enters
<1> QED
  BY <1>4, <1>5, <1>6 DEF Gains

LEMMA MarkedCopies ==
    ASSUME TypeInv, NEW n \in Running, NEW o, NEW c, Marked(n, o, c)
    PROVE  /\ o \in Listed(n, n) => Gains(n, {<<heap[n][o].name, c, heap[n][o].name>>})
           /\ o \notin Listed(n, n) => Gains(n, {})
<1> USE PeerFacts
<1>1. \A s \in Running : Listed(s, s)' = Listed(s, s)
  BY DEF Marked, Listed
<1>2. ASSUME NEW q \in Listed(n, n), q # o PROVE CopiesOf(n, q)' = CopiesOf(n, q)
  <2>1. q \in DOMAIN heap[n]
    BY ListTypes
  <2>2. heap'[n][q].name = heap[n][q].name /\ heap'[n][q].has = heap[n][q].has
    BY <1>2, <2>1 DEF Marked
  <2> QED
    BY <2>2 DEF CopiesOf
<1>3. ASSUME o \in Listed(n, n)
      PROVE  CopiesOf(n, o)' = CopiesOf(n, o) \cup {<<heap[n][o].name, c, heap[n][o].name>>}
  <2>1. o \in DOMAIN heap[n]
    BY <1>3, ListTypes
  <2>2. heap'[n][o].name = heap[n][o].name /\ heap'[n][o].has = heap[n][o].has \cup {c}
    BY <2>1 DEF Marked
  <2> QED
    BY <2>2 DEF CopiesOf
<1> DEFINE New(q) == CopiesOf(n, q)'
<1>4. Copies(n)' = UNION {New(q) : q \in Listed(n, n)}
  BY <1>1 DEF Copies
<1>5. Copies(n) = UNION {CopiesOf(n, q) : q \in Listed(n, n)}
  BY DEF Copies
<1>6. \A s \in Running \ {n} : Copies(s)' = Copies(s)
  BY SameCopies DEF Marked
<1>7. /\ \A q \in Listed(n, n) : q # o => New(q) = CopiesOf(n, q)
      /\ o \in Listed(n, n) =>
           New(o) = CopiesOf(n, o) \cup {<<heap[n][o].name, c, heap[n][o].name>>}
  BY <1>2, <1>3
<1> HIDE DEF New
<1>8. o \in Listed(n, n) => Copies(n)' = Copies(n) \cup {<<heap[n][o].name, c, heap[n][o].name>>}
  BY <1>4, <1>5, <1>7
<1>9. o \notin Listed(n, n) => Copies(n)' = Copies(n) \cup {}
  BY <1>4, <1>5, <1>7
<1> QED
  BY <1>6, <1>8, <1>9 DEF Gains

\* What is gained, in terms of what is served.
LEMMA GainsHoldings ==
    ASSUME MarksAreHoldings, MarksAreHoldings', NEW n \in Running, NEW S, Gains(n, S)
    PROVE  Holdings' = [Holdings EXCEPT ![n] = @ \cup S]
<1>1. /\ Holdings = [s \in Running |-> Holdings[s]]
      /\ Holdings' = [s \in Running |-> Holdings'[s]]
  BY DEF Holdings
<1>2. \A s \in Running : Holdings'[s] = IF s = n THEN Holdings[s] \cup S ELSE Holdings[s]
  BY DEF Gains, MarksAreHoldings
<1> QED
  BY <1>1, <1>2

\* What a node serves is a chunk of a file that w has.
LEMMA HoldingsTitled ==
    ASSUME NEW w \in Running, MarksInv(w), MarksAreHoldings, NEW n \in Running,
           NEW x \in Holdings[n]
    PROVE  \E o \in DOMAIN heap[w] : x[1] = heap[w][o].name
<1> USE PeerFacts DEF MarksInv, BeliefsInv, FilesInv
<1>1. PICK o \in Listed(n, n) : x \in CopiesOf(n, o)
  BY DEF MarksAreHoldings, Copies
<1>2. x[1] = heap[n][o].name /\ o \in DOMAIN heap[n]
  BY <1>1, ListTypes DEF CopiesOf
<1>3. PICK num \in NumsOf(w, w) : heap[n][o].name = Title(w, num)
  BY <1>2 DEF Titles
<1>4. FileOf(w, w, num) \in DOMAIN heap[w]
  BY FileFound, ListTypes
<1> QED
  BY <1>2, <1>3, <1>4 DEF Title

LEMMA InsertPublishes ==
    ASSUME NEW w \in Running, MarksInv(w), MarksAreHoldings, MarksAreHoldings',
           NEW f \in File, Owner[f] = w, Insert(w, f)
    PROVE  Replicas!Publish(f)
<1> USE PeerFacts DEF MarksInv, BeliefsInv, FilesInv
<1>1. PICK new, L : new = Len(heap[w]) + 1 /\ L = OneAt(w, w)
  OBVIOUS
<1>2. /\ Enters(w, L) /\ L[w] = {new}
      /\ heap'[w][new].name = f /\ heap'[w][new].has = Chunk
  <2>1. w \in Node
    OBVIOUS
  <2>2. OneAt(w, w)[w] = {Len(heap[w]) + 1}
    BY <1>1, <2>1 DEF OneAt
  <2> QED
    BY <1>1, <2>2, InsertShape, InfoFields
<1>3. UNION {CopiesOf(w, o)' : o \in L[w]} = {<<f, c, f>> : c \in Chunk}
  <2>1. CopiesOf(w, new)' = {<<f, c, f>> : c \in Chunk}
    BY <1>2 DEF CopiesOf
  <2> DEFINE New(o) == CopiesOf(w, o)'
  <2>2. New(new) = {<<f, c, f>> : c \in Chunk}
    BY <2>1
  <2>3. {New(o) : o \in L[w]} = {New(new)}
    BY <1>2
  <2> HIDE DEF New
  <2>4. UNION {New(o) : o \in L[w]} = New(new)
    BY <2>3
  <2> QED
    BY <2>2, <2>4 DEF New
<1>4. Holdings' = [Holdings EXCEPT ![w] = @ \cup {<<f, c, f>> : c \in Chunk}]
  <2>1. PICK S : S = {<<f, c, f>> : c \in Chunk}
    OBVIOUS
  <2>2. Gains(w, S)
    BY <1>2, <1>3, <2>1, EntersCopies
  <2>3. Holdings' = [Holdings EXCEPT ![w] = @ \cup S]
    BY <2>2, GainsHoldings
  <2> QED
    BY <2>1, <2>3
<1>5. ASSUME NEW n \in Running, NEW x \in Holdings[n] PROVE x[1] # f
  <2>1. PICK o \in DOMAIN heap[w] : x[1] = heap[w][o].name
    BY <1>5, HoldingsTitled
  <2> QED
    BY <2>1 DEF Insert
<1> QED
  BY <1>4, <1>5 DEF Replicas!Publish

LEMMA ChunkCopies ==
    ASSUME NEW w \in Running, MarksInv(w), TypeInv', MarksAreHoldings, MarksAreHoldings',
           NEW n \in Running, NEW m \in Running, OnChunk(n, m)
    PROVE  \E p \in Running : Replicas!Copy(n, p)
<1> USE PeerFacts DEF MarksInv, BeliefsInv, FilesInv
<1>1. PICK f : f = Head(rep[n][m])
  OBVIOUS
<1>2. PICK o : o = FileOf(n, n, f.num)
  OBVIOUS
<1>3. /\ f \in Held(rep[n][m]) /\ f.type = "CHUNK"
      /\ f.num \in NumsOf(n, n) /\ o \in Listed(n, n) /\ Marked(n, o, f.chunk)
  BY <1>1, <1>2, ChunkShape
<1>4. PICK name : name = heap[n][o].name
  OBVIOUS
<1>5. name = Title(w, f.num)
  <2>1. o \in DOMAIN heap[n] /\ heap[n][o].num = f.num
    BY <1>2, <1>3, FileFound, ListTypes
  <2> QED
    BY <1>4, <2>1, TitleOf
<1>6. PICK x : x = <<name, f.chunk, name>>
  OBVIOUS
<1>7. Holdings' = [Holdings EXCEPT ![n] = @ \cup {x}]
  BY <1>3, <1>4, <1>6, MarkedCopies, GainsHoldings
<1>8. PICK p \in Running : Has(p, f.num, f.chunk)
  BY <1>3 DEF Bodies
<1>9. x \in Holdings[p]
  <2>1. PICK q : q = FileOf(p, p, f.num)
    OBVIOUS
  <2>2. q \in Listed(p, p) /\ q \in DOMAIN heap[p] /\ heap[p][q].num = f.num
        /\ f.chunk \in heap[p][q].has
    BY <1>8, <2>1, FileFound, ListTypes DEF Has
  <2>3. heap[p][q].name = name
    BY <1>5, <2>2, TitleOf
  <2>4. x \in CopiesOf(p, q)
    BY <1>6, <2>2, <2>3 DEF CopiesOf
  <2> QED
    BY <2>2, <2>4 DEF MarksAreHoldings, Copies
<1> QED
  BY <1>7, <1>9 DEF Replicas!Copy

\* No other step changes what is served.
LEMMA StepReplicas ==
    ASSUME NEW w \in Running, \A f \in File : Owner[f] = w,
           MarksInv(w), TypeInv', MarksAreHoldings, MarksAreHoldings', NobodyIsLate,
           [Next]_vars
    PROVE  [Replicas!Next]_Holdings
<1> USE PeerFacts DEF MarksInv, BeliefsInv, FilesInv
<1>1. CASE UNCHANGED <<heap, files, disk>>
  <2>1. \A s \in Running : Copies(s)' = Copies(s)
    BY <1>1, SameCopies
  <2>2. /\ Holdings = [s \in Running |-> Holdings[s]]
        /\ Holdings' = [s \in Running |-> Holdings'[s]]
    BY DEF Holdings
  <2> QED
    BY <2>1, <2>2 DEF MarksAreHoldings
<1>2. ASSUME NEW n \in Running, Gains(n, {}) PROVE UNCHANGED Holdings
  <2>1. Holdings' = [Holdings EXCEPT ![n] = @ \cup {}]
    BY <1>2, GainsHoldings
  <2>2. Holdings = [s \in Running |-> Holdings[s]]
    BY DEF Holdings
  <2>3. Holdings[n] \cup {} = Holdings[n]
    OBVIOUS
  <2> QED
    BY <2>1, <2>2, <2>3
<1>3. ASSUME NEW n \in Running, NEW f \in File, Insert(n, f)
      PROVE  Replicas!Next
  <2>1. n = w
    BY <1>3 DEF Insert
  <2>2. Replicas!Publish(f)
    BY <1>3, <2>1, InsertPublishes
  <2> QED
    BY <2>2 DEF Replicas!Next
<1>4. ASSUME NEW n \in Running, NEW m \in Running, OnNewFile(n, m)
      PROVE  UNCHANGED Holdings
  <2>1. PICK f : f = Head(req[m][n])
    OBVIOUS
  <2>2. f \in Held(req[m][n]) /\ f.type = "NEW_FILE_AVAILABLE"
    BY <1>4, <2>1, QueueTypes, HeldTail DEF OnNewFile, Request
  <2>3. PICK L : L = TwoAt(n, f.src)
    OBVIOUS
  <2>4. f.src # n
    BY <2>2 DEF Announced
  <2>5. Enters(n, L) /\ heap'[n][Len(heap[n]) + 1].has = {}
    BY <1>4, <2>1, <2>3, <2>4, NewFileShape, InfoFields
  <2>6. \A o \in L[n] : CopiesOf(n, o)' = {}
    BY <2>3, <2>5 DEF TwoAt, CopiesOf
  <2> DEFINE New(o) == CopiesOf(n, o)'
  <2>7. UNION {New(o) : o \in L[n]} = {}
    <3>1. \A o \in L[n] : New(o) = {}
      BY <2>6
    <3> HIDE DEF New
    <3> QED
      BY <3>1
  <2> QED
    BY <1>2, <2>5, <2>7, EntersCopies
<1>5. ASSUME NEW n \in Running, NEW m \in Running, OnNewChunk(n, m)
      PROVE  UNCHANGED Holdings
  <2>1. PICK f : f = Head(req[m][n])
    OBVIOUS
  <2>2. /\ f \in Frames /\ f \in Held(req[m][n]) /\ f.type = "NEW_CHUNK_AVAILABLE"
        /\ NewChunkEffect(n, f)
    BY <1>5, <2>1, NewChunkShape
  <2>3. f.src # n /\ f.src \in Running
    BY <2>2, FrameFields DEF Announced
  <2>4. disk' = disk
    BY <1>5 DEF OnNewChunk
  <2>5. CASE UNCHANGED <<heap, files>>
    <3>1. UNCHANGED <<heap, files, disk>>
      BY <2>4, <2>5
    <3> QED
      BY <3>1 DEF Holdings, Listed
  <2>6. CASE f.num \in NumsOf(n, f.src) /\ Marked(n, FileOf(n, f.src, f.num), f.chunk)
    <3>1. PICK o : o = FileOf(n, f.src, f.num)
      OBVIOUS
    <3>2. o \in Listed(n, f.src)
      BY <2>3, <2>6, <3>1, FileFound
    <3>3. o \notin Listed(n, n)
      BY <2>3, <3>2 DEF Apart
    <3> QED
      BY <1>2, <2>6, <3>1, <3>3, MarkedCopies
  <2>7. CASE Enters(n, OneAt(n, f.src))
    <3>1. PICK L : L = OneAt(n, f.src)
      OBVIOUS
    <3>2. L[n] = {}
      BY <2>3, <3>1 DEF OneAt
    <3> DEFINE New(o) == CopiesOf(n, o)'
    <3>3. UNION {New(o) : o \in L[n]} = {}
      <4> HIDE DEF New
      <4> QED
        BY <3>2
    <3> QED
      BY <1>2, <2>7, <3>1, <3>3, EntersCopies
  <2> QED
    BY <2>2, <2>5, <2>6, <2>7 DEF NewChunkEffect
<1>6. ASSUME NEW n \in Running, NEW m \in Running, OnChunk(n, m)
      PROVE  Replicas!Next
  BY <1>6, ChunkCopies DEF Replicas!Next
<1> QED
  BY <1>1, <1>3, <1>4, <1>5, <1>6, FileSteps

\* The network is a replica set: sessions, numbers, lists and announcements
\* left aside, each step puts a new file into it or copies to one node a chunk
\* that another one serves at that moment, byte for byte, or changes nothing
\* that is served.
THEOREM NetworkIsReplicaSet ==
    ASSUME NEW w \in Running, \A f \in File : Owner[f] = w
    PROVE  Spec /\ []NobodyIsLate => ImplementsReplicas
<1>1. Init => Replicas!Init
  <2> SUFFICES ASSUME Init PROVE Holdings = [n \in Running |-> {}]
    BY DEF Replicas!Init
  <2>1. \A n \in Running : Listed(n, n) = {}
    BY PeerFacts DEF Init, Listed
  <2> QED
    BY <2>1 DEF Holdings
<1>2. /\ MarksInv(w) /\ MarksInv(w)' /\ MarksAreHoldings /\ MarksAreHoldings'
      /\ NobodyIsLate /\ [Next]_vars
      => [Replicas!Next]_Holdings
  BY StepReplicas DEF MarksInv, BeliefsInv, FilesInv
<1>3. MarksInv(w) => MarksAreHoldings
  BY StoredCopies DEF MarksInv
<1> QED
  BY <1>1, <1>2, <1>3, MarksInvHolds, PTL DEF Spec, ImplementsReplicas, Replicas!Spec

-----------------------------------------------------------------------------
(***************************************************************************)
(* The figures of "query".                                                 *)
(***************************************************************************)

\* Chunks of another node that n counts are on the disk of that node.
LEMMA CountedIsStored ==
    ASSUME NEW w \in Running, MarksInv(w), NEW n \in Running, NEW m \in Running, m # n,
           NEW o \in Listed(n, n), NEW c \in ChunksAt(n, m, heap[n][o].num)
    PROVE  disk[m][heap[n][o].name][c] = heap[n][o].name
<1> USE PeerFacts
<1>1. TypeInv /\ Titles(w) /\ MarkedChunksAreStored /\ Credits(n, m)
  BY DEF MarksInv, BeliefsInv, FilesInv, Beliefs
<1>2. PICK num : num = heap[n][o].num
  OBVIOUS
<1>3. num \in NumsOf(n, m) /\ c \in heap[n][FileOf(n, m, num)].has
  BY <1>2 DEF ChunksAt
<1>4. FileOf(n, m, num) \in Listed(n, m) /\ heap[n][FileOf(n, m, num)].num = num
  BY <1>1, <1>3, FileFound
<1>5. Has(m, num, c)
  BY <1>1, <1>3, <1>4 DEF Credits
<1>6. PICK p \in Listed(m, m) : heap[m][p].num = num /\ c \in heap[m][p].has
  BY <1>1, <1>5, FileFound DEF Has
<1>7. disk[m][heap[m][p].name][c] = heap[m][p].name
  BY <1>1, <1>6 DEF MarkedChunksAreStored
<1>8. o \in DOMAIN heap[n] /\ p \in DOMAIN heap[m]
  BY <1>1, <1>6, ListTypes
<1>9. heap[n][o].name = Title(w, num) /\ heap[m][p].name = Title(w, num)
  BY <1>1, <1>2, <1>6, <1>8, TitleOf
<1> QED
  BY <1>7, <1>9

\* The elements of A and one pair for each element of H, which A lacks.
LEMMA CountedTogether ==
    ASSUME NEW U, IsFiniteSet(U), NEW A \in SUBSET U, NEW H, IsFiniteSet(H), NEW n,
           \A c \in H : <<n, c>> \in U \ A
    PROVE  Cardinality(A) + Cardinality(H) <= Cardinality(U)
<1> DEFINE B == {<<n, c>> : c \in H}
           f == [c \in H |-> <<n, c>>]
<1>1. f \in Bijection(H, B)
  <2>1. f \in [H -> B] /\ \A b \in B : \E c \in H : f[c] = b
    OBVIOUS
  <2>2. ASSUME NEW c \in H, NEW d \in H, f[c] = f[d] PROVE c = d
    BY <2>2
  <2> HIDE DEF B, f
  <2>3. f \in Injection(H, B)
    BY <2>1, <2>2 DEF Injection, IsInjective
  <2> QED
    BY <2>1, <2>3 DEF Bijection, Surjection
<1>2. IsFiniteSet(B) /\ Cardinality(B) = Cardinality(H)
  BY <1>1, FS_Bijection DEF ExistsBijection
<1>3. A \cup B \in SUBSET U /\ A \cap B = {}
  OBVIOUS
<1> HIDE DEF B, f
<1>4. IsFiniteSet(A) /\ Cardinality(A \cup B) <= Cardinality(U)
  BY <1>3, FS_Subset
<1>5. Cardinality(A \cup B) = Cardinality(A) + Cardinality(B) - Cardinality(A \cap B)
  BY <1>2, <1>4, FS_Union
<1>6. Cardinality(A \cap B) = 0
  BY <1>3, FS_EmptySet
<1>7. Cardinality(A) \in Nat /\ Cardinality(B) \in Nat
  BY <1>2, <1>4, FS_CardinalityType
<1> QED
  BY <1>2, <1>4, <1>5, <1>6, <1>7

LEMMA FiguresHold ==
    ASSUME NEW w \in Running, MarksInv(w), OnlineViewIsTrue PROVE ReportIsHonest
<1> SUFFICES ASSUME NEW n \in Running, NEW o \in Listed(n, n)
             PROVE  /\ WeightedReplication(n, o) <= Cardinality(Stored(heap[n][o].name))
                    /\ SystemChunks(n, o) \subseteq {p[2] : p \in Stored(heap[n][o].name)}
  BY DEF ReportIsHonest
<1> DEFINE U == Stored(heap[n][o].name)
           A == {p \in Reporting(n) \X Chunk : p[2] \in ChunksAt(n, p[1], heap[n][o].num)}
           H == heap[n][o].has
<1>1. n \in Node /\ TypeInv /\ MarkedChunksAreStored
  BY PeerFacts DEF MarksInv, BeliefsInv, FilesInv
<1>2. Reporting(n) \subseteq Running \ {n}
  BY DEF Reporting, OnlineViewIsTrue
<1>3. H \subseteq Chunk
  BY <1>1, ListTypes DEF FileInfos
<1>4. \A c \in H : disk[n][heap[n][o].name][c] = heap[n][o].name
  BY <1>1 DEF MarkedChunksAreStored
<1>5. \A m \in Reporting(n) : \A c \in ChunksAt(n, m, heap[n][o].num) :
         disk[m][heap[n][o].name][c] = heap[n][o].name
  BY <1>2, CountedIsStored
<1>6. \A m \in Reporting(n) : ChunksAt(n, m, heap[n][o].num) \subseteq Chunk
  <2> TAKE m \in Reporting(n)
  <2>1. m \in Node
    BY <1>2, PeerFacts
  <2>2. CASE heap[n][o].num \in NumsOf(n, m)
    <3>1. FileOf(n, m, heap[n][o].num) \in DOMAIN heap[n]
      BY <1>1, <2>1, <2>2, FileFound, ListTypes
    <3> QED
      BY <1>1, <2>2, <3>1, ListTypes DEF ChunksAt, FileInfos
  <2> QED
    BY <2>2 DEF ChunksAt
<1>7. IsFiniteSet(U) /\ IsFiniteSet(H)
  <2>1. IsFiniteSet(Chunk)
    BY FileAssumption, FS_Interval DEF Chunk
  <2>2. IsFiniteSet(Running)
    BY PeerAssumption, FS_Subset
  <2>3. IsFiniteSet(Running \X Chunk)
    BY <2>1, <2>2, FS_Product
  <2>4. U \in SUBSET (Running \X Chunk)
    BY DEF Stored
  <2> HIDE DEF U, H
  <2> QED
    BY <1>3, <2>1, <2>3, <2>4, FS_Subset
<1>8. A \in SUBSET U
  BY <1>2, <1>5 DEF Stored
<1>9. \A c \in H : <<n, c>> \in U \ A
  BY <1>2, <1>3, <1>4 DEF Stored
<1>10. Cardinality(A) + Cardinality(H) <= Cardinality(U)
  <2> HIDE DEF A, H, U
  <2> QED
    BY <1>7, <1>8, <1>9, CountedTogether
<1>11. SystemChunks(n, o) \subseteq {p[2] : p \in U}
  <2> SUFFICES ASSUME NEW c \in SystemChunks(n, o) PROVE \E p \in U : p[2] = c
    OBVIOUS
  <2>1. CASE c \in H
    BY <1>9, <2>1
  <2>2. CASE \E m \in Reporting(n) : c \in ChunksAt(n, m, heap[n][o].num)
    <3>1. PICK m \in Reporting(n) : c \in ChunksAt(n, m, heap[n][o].num)
      BY <2>2
    <3>2. <<m, c>> \in U
      BY <1>2, <1>5, <1>6, <3>1 DEF Stored
    <3> HIDE DEF U
    <3> QED
      BY <3>2
  <2> QED
    BY <2>1, <2>2 DEF SystemChunks
<1> QED
  BY <1>10, <1>11 DEF WeightedReplication, RemoteCount, Local

\* What query() prints is there, if one user inserts the files and nobody joins
\* a network that has some: the replication it gives for a file is never above
\* the number of copies of chunks on the disks of the network, and of each
\* chunk that it takes for present in the system some disk holds an intact copy.
\* No peer is counted for a chunk it lacks, and the node itself not twice.
THEOREM QueryIsHonest ==
    ASSUME NEW w \in Running, \A f \in File : Owner[f] = w
    PROVE  Spec /\ []NobodyIsLate => []ReportIsHonest
<1>1. MarksInv(w) /\ MembersInv => ReportIsHonest
  BY FiguresHold DEF MembersInv
<1> QED
  BY <1>1, MarksInvHolds, MembersInvHolds, PTL

\* The figure that is to name the least replicated chunk is always 0: the loop
\* over the chunks tests the flag of the chunk with the number of the peer, so
\* that all chunks count the same, and the first of them is taken.
THEOREM LeastReplicatedIsFirst ==
    ASSUME NEW n \in Running, NEW o PROVE LeastReplicated(n, o) = 0
<1> DEFINE S == {i \in 0..(MaxPeers - 1) : /\ state[n][PeerAt[n][i]] = "ONLINE"
                                           /\ i \in ChunksAt(n, PeerAt[n][i], heap[n][o].num)}
<1>1. PICK k : k = Cardinality(S)
  OBVIOUS
<1>2. k \in Nat
  <2>1. IsFiniteSet(0..(MaxPeers - 1))
    BY PeerFacts, FS_Interval
  <2>2. S \in SUBSET (0..(MaxPeers - 1))
    OBVIOUS
  <2> HIDE DEF S
  <2> QED
    BY <1>1, <2>1, <2>2, FS_Subset, FS_CardinalityType
<1>3. LeastReplicated(n, o) =
         CHOOSE c \in Chunk : \A d \in Chunk : k <= k /\ (k = k => c <= d)
  BY <1>1 DEF LeastReplicated
<1>4. 0 \in Chunk /\ \A d \in Chunk : d \in Nat
  BY FileAssumption DEF Chunk
<1>5. \A c \in Chunk : (\A d \in Chunk : k <= k /\ (k = k => c <= d)) <=> c = 0
  BY <1>2, <1>4
<1> QED
  BY <1>3, <1>4, <1>5

-----------------------------------------------------------------------------
(***************************************************************************)
(* Where nobody leaves or dies, and who has files takes all others to be   *)
(* ONLINE, every chunk that a node downloads is announced to each of them, *)
(* and counted there, or the announcement is on its way.                   *)
(***************************************************************************)
Gathered == \A n \in Running, m \in Running : heap[n] # <<>> => state[n][m] = "ONLINE"

\* A frame that tells n of chunk c of the file num at m.
TellsOf(f, m, num, c) ==
    f.type = "NEW_CHUNK_AVAILABLE" /\ f.src = m /\ f.num = num /\ f.chunk = c

\* n counts chunk c of the file num for m, or will.
Hears(n, m, num, c) ==
    \/ c \in ChunksAt(n, m, num)
    \/ \E f \in Held(req[m][n]) : TellsOf(f, m, num, c)

\* The step takes chunk c of the file of object o from a reply.
Taken(m, o, c) ==
    \E p \in Running : /\ OnChunk(m, p)
                        /\ c = Head(rep[m][p]).chunk /\ heap[m][o].num = Head(rep[m][p]).num

Heard ==
    \A n, m \in Running : \A o \in Listed(m, m) : \A c \in heap[m][o].has :
        n # m /\ Owner[heap[m][o].name] # m => Hears(n, m, heap[m][o].num, c)

\* Between two states of such a network.
Steps == AllStay /\ AllStay' /\ Unbroken /\ Gathered /\ NobodyIsLate /\ [Next]_vars

\* What is counted goes on being counted.
LEMMA CountKept ==
    ASSUME TypeInv, TypeInv', Grown, NEW n \in Running, NEW m \in Running, NEW num,
           NEW c \in ChunksAt(n, m, num)
    PROVE  c \in ChunksAt(n, m, num)'
<1> USE PeerFacts
<1>1. num \in NumsOf(n, m) /\ c \in heap[n][FileOf(n, m, num)].has
  BY DEF ChunksAt
<1>2. PICK o : o = FileOf(n, m, num)
  OBVIOUS
<1>3. o \in DOMAIN heap[n]
  BY <1>1, <1>2, FileFound, ListTypes
<1>4. num \in NumsOf(n, m)' /\ FileOf(n, m, num)' = o
  BY <1>1, <1>2, FileOfKept
<1>5. c \in heap'[n][o].has
  BY <1>1, <1>2, <1>3 DEF Grown
<1> QED
  BY <1>4, <1>5 DEF ChunksAt

\* A chunk that is announced is counted as soon as the frame is handled.
LEMMA HandledCounts ==
    ASSUME BeliefsInv, TypeInv', AllStay', NEW n \in Running, NEW m \in Running,
           OnNewChunk(n, m), NEW f, f = Head(req[m][n]), f.src = m
    PROVE  f.chunk \in ChunksAt(n, m, f.num)'
<1> USE PeerFacts DEF BeliefsInv, FilesInv
<1>1. /\ f \in Frames /\ f \in Held(req[m][n]) /\ f.type = "NEW_CHUNK_AVAILABLE"
      /\ NewChunkEffect(n, f)
  BY NewChunkShape
<1>2. life'[n] # "gone"
  BY DEF AllStay
<1>3. PICK num, c : num = f.num /\ c = f.chunk
  OBVIOUS
<1>4. CASE num \in NumsOf(n, m) /\ Marked(n, FileOf(n, m, num), c) /\ Grown
  <2>1. PICK o : o = FileOf(n, m, num)
    OBVIOUS
  <2>2. o \in DOMAIN heap[n]
    BY <1>4, <2>1, FileFound, ListTypes
  <2>3. num \in NumsOf(n, m)' /\ FileOf(n, m, num)' = o
    BY <1>4, <2>1, FileOfKept
  <2>4. c \in heap'[n][o].has
    BY <1>4, <2>1, <2>2 DEF Marked
  <2>5. c \in ChunksAt(n, m, num)'
    BY <2>3, <2>4 DEF ChunksAt
  <2> QED
    BY <1>3, <2>5
<1>5. CASE /\ num \in NumsOf(n, n) \ NumsOf(n, m)
           /\ Enters(n, OneAt(n, m))
           /\ heap'[n][Len(heap[n]) + 1]
                = FileInfo(num, heap[n][FileOf(n, n, num)].name, {c})
  <2>1. PICK new, L : new = Len(heap[n]) + 1 /\ L = OneAt(n, m)
    OBVIOUS
  <2>2. heap'[n][new].num = num /\ heap'[n][new].has = {c}
    BY <1>5, <2>1, InfoFields
  <2>3. L[m] = {new}
    BY <2>1 DEF OneAt
  <2>4. Listed(n, m)' = Listed(n, m) \cup {new}
    BY <1>5, <2>1, <2>3 DEF Enters
  <2>5. num \in NumsOf(n, m)'
    BY <2>2, <2>4 DEF NumsOf
  <2>6. PICK o : o = FileOf(n, m, num)'
    OBVIOUS
  <2>7. o \in Listed(n, m)' /\ heap'[n][o].num = num
    BY <2>5, <2>6, FileFoundAfter
  <2>8. o = new
    <3>1. SUFFICES ASSUME o \in Listed(n, m) PROVE FALSE
      BY <2>4, <2>7
    <3>2. o \in DOMAIN heap[n]
      BY <3>1, ListTypes
    <3>3. heap'[n][o] = heap[n][o]
      BY <1>5, <3>2 DEF Enters
    <3>4. num \in NumsOf(n, m)
      BY <2>7, <3>1, <3>3 DEF NumsOf
    <3> QED
      BY <1>5, <3>4
  <2>9. c \in ChunksAt(n, m, num)'
    BY <2>2, <2>5, <2>6, <2>8 DEF ChunksAt
  <2> QED
    BY <1>3, <2>9
<1> QED
  BY <1>1, <1>2, <1>3, <1>4, <1>5 DEF NewChunkEffect

\* A chunk that has come is announced to everybody.
LEMMA ChunkIsTold ==
    ASSUME MembersInv, Steps, NEW m \in Running, NEW p \in Running, OnChunk(m, p),
           NEW f, f = Head(rep[m][p]), NEW n \in Running, n # m
    PROVE  \E g \in Held(req'[m][n]) : TellsOf(g, m, f.num, f.chunk)
<1> USE PeerFacts
<1>1. TypeInv /\ FilesInv /\ Fresh
  BY DEF MembersInv, Base
<1>2. f \in Frames /\ f \in Held(rep[m][p]) /\ f.type = "CHUNK"
  BY <1>1, QueueTypes, HeldTail DEF OnChunk, Reply
<1>3. f.num \in Nat /\ f.chunk \in Chunk
  BY <1>2, FrameFields
<1>4. PICK g \in Frames : g = NewChunkFrame(m, f.num, f.chunk)
  BY <1>3 DEF NewChunkFrame, Frames
<1>5. TellsOf(g, m, f.num, f.chunk)
  BY <1>4 DEF TellsOf, NewChunkFrame
<1>6. PICK old \in [Node -> State] : old = state[m]
  BY <1>1, NetTypesFact DEF NetTypes, States
<1>7. PICK out \in [Node -> Seq(Frames)] : out = Broadcast(m, g, old)
  BY BroadcastTypes
<1>8. Sent(m, out, old, req)
  <2>1. SendFrames(m, out, old, req)
    BY <1>4, <1>6, <1>7 DEF OnChunk
  <2> QED
    BY <1>1, <2>1, SentFact
<1>9. state[m][n] = "ONLINE"
  <2>1. f.num \in NumsOf(m, m)
    <3>1. f.num \in DOMAIN numReq[m]
      BY <1>1, <1>2 DEF FilesInv, Carried
    <3> QED
      BY <1>1, <3>1 DEF FilesInv, Known
  <2>2. \E o : o \in DOMAIN heap[m]
    BY <1>1, <2>1, FileFound, ListTypes
  <2>3. heap[m] # <<>>
    BY <2>2
  <2> QED
    BY <2>3 DEF Steps, Gathered
<1>10. Connects(m, n)
  <2>1. state[n][n] = "ONLINE"
    BY <1>9 DEF MembersInv, OnlineViewIsTrue
  <2>2. life[n] = "serving"
    BY <1>1, <2>1 DEF Fresh, Steps, AllStay
  <2> QED
    BY <2>2 DEF Connects, Listening
<1>11. out[n] = <<g>>
  BY <1>6, <1>7, <1>9 DEF Broadcast
<1>12. req'[m][n] = req[m][n] \o <<g>>
  <2>1. link[m][n] # "closing"
    BY DEF Steps, Unbroken
  <2> QED
    BY <1>8, <1>10, <1>11, <2>1 DEF Sent
<1>13. g \in Held(req'[m][n])
  <2>1. PICK one \in Seq(Frames) : one = <<g>>
    <3>1. <<g>> \in Seq(Frames)
      OBVIOUS
    <3> QED
      BY <3>1
  <2>2. g \in Held(one)
    BY <2>1 DEF Held
  <2> QED
    BY <1>1, <1>12, <2>1, <2>2, QueueTypes, HeldBoth
<1> QED
  BY <1>5, <1>13

\* What a node has marked and did not insert, it had marked before, or has just
\* downloaded.
LEMMA OldOrTaken ==
    ASSUME BeliefsInv, TypeInv', Grown, NobodyIsLate, [Next]_vars,
           NEW m \in Running, NEW o \in Listed(m, m)', NEW c \in heap'[m][o].has,
           Owner[heap'[m][o].name] # m
    PROVE  o \in Listed(m, m) /\ (c \in heap[m][o].has \/ Taken(m, o, c))
<1> USE PeerFacts DEF BeliefsInv, FilesInv
<1>1. CASE UNCHANGED <<heap, files, disk>>
  BY <1>1 DEF Listed
<1>2. ASSUME NEW s \in Running, NEW L, Enters(s, L),
             s # m \/ \A q \in L[m] : heap'[m][q].has = {} \/ Owner[heap'[m][q].name] = m
      PROVE  o \in Listed(m, m) /\ c \in heap[m][o].has
  <2>1. CASE s # m
    BY <1>2, <2>1 DEF Enters, Listed
  <2>2. CASE s = m
    <3>1. o \notin L[m]
      BY <1>2, <2>2
    <3>2. o \in Listed(m, m) /\ o \in DOMAIN heap[m]
      <4>1. Listed(m, m)' = Listed(m, m) \cup L[m]
        BY <1>2, <2>2 DEF Enters
      <4> QED
        BY <3>1, <4>1, ListTypes
    <3> QED
      BY <1>2, <2>2, <3>2 DEF Enters
  <2> QED
    BY <2>1, <2>2
<1>3. ASSUME NEW s \in Running, NEW q, NEW k, Marked(s, q, k)
      PROVE  o \in Listed(m, m) /\ (c \in heap[m][o].has \/ (s = m /\ o = q /\ c = k))
  <2>1. o \in Listed(m, m) /\ o \in DOMAIN heap[m]
    <3>1. Listed(m, m)' = Listed(m, m)
      BY <1>3 DEF Marked, Listed
    <3> QED
      BY <3>1, ListTypes
  <2>2. CASE s # m
    BY <1>3, <2>1, <2>2 DEF Marked
  <2>3. CASE s = m
    <3>1. heap'[m][o].has = IF o = q THEN heap[m][o].has \cup {k} ELSE heap[m][o].has
      BY <1>3, <2>1, <2>3 DEF Marked
    <3> QED
      BY <2>1, <2>3, <3>1
  <2> QED
    BY <2>2, <2>3
<1>4. ASSUME NEW n \in Running, NEW f \in File, Insert(n, f)
      PROVE  o \in Listed(m, m) /\ c \in heap[m][o].has
  <2>1. PICK L : L = OneAt(n, n)
    OBVIOUS
  <2>2. Enters(n, L) /\ heap'[n][Len(heap[n]) + 1].name = f
    BY <1>4, <2>1, InsertShape, InfoFields
  <2>3. Owner[f] = n
    BY <1>4 DEF Insert
  <2>4. n # m \/ \A q \in L[m] : Owner[heap'[m][q].name] = m
    BY <2>1, <2>2, <2>3 DEF OneAt
  <2> QED
    BY <1>2, <2>2, <2>4
<1>5. ASSUME NEW n \in Running, NEW s \in Running, OnNewFile(n, s)
      PROVE  o \in Listed(m, m) /\ c \in heap[m][o].has
  <2>1. PICK f : f = Head(req[s][n])
    OBVIOUS
  <2>2. f \in Held(req[s][n]) /\ f.type = "NEW_FILE_AVAILABLE"
    BY <1>5, <2>1, QueueTypes, HeldTail DEF OnNewFile, Request
  <2>3. PICK L : L = TwoAt(n, f.src)
    OBVIOUS
  <2>4. f.src # n
    BY <2>2 DEF Announced
  <2>5. Enters(n, L) /\ heap'[n][Len(heap[n]) + 1].has = {}
    BY <1>5, <2>1, <2>3, <2>4, NewFileShape, InfoFields
  <2>6. n # m \/ \A q \in L[m] : heap'[m][q].has = {}
    BY <2>3, <2>5 DEF TwoAt
  <2> QED
    BY <1>2, <2>5, <2>6
<1>6. ASSUME NEW n \in Running, NEW s \in Running, OnNewChunk(n, s)
      PROVE  o \in Listed(m, m) /\ c \in heap[m][o].has
  <2>1. PICK f : f = Head(req[s][n])
    OBVIOUS
  <2>2. /\ f \in Frames /\ f \in Held(req[s][n]) /\ f.type = "NEW_CHUNK_AVAILABLE"
        /\ NewChunkEffect(n, f)
    BY <1>6, <2>1, NewChunkShape
  <2>3. f.src # n /\ f.src \in Running
    BY <2>2, FrameFields DEF Announced
  <2>4. CASE UNCHANGED <<heap, files>>
    BY <2>4 DEF Listed
  <2>5. CASE f.num \in NumsOf(n, f.src) /\ Marked(n, FileOf(n, f.src, f.num), f.chunk)
    <3>1. PICK q : q = FileOf(n, f.src, f.num)
      OBVIOUS
    <3>2. q \in Listed(n, f.src)
      BY <2>3, <2>5, <3>1, FileFound
    <3>3. q \notin Listed(n, n)
      BY <2>3, <3>2 DEF Apart
    <3> QED
      BY <1>3, <2>5, <3>1, <3>3
  <2>6. CASE Enters(n, OneAt(n, f.src))
    <3>1. PICK L : L = OneAt(n, f.src)
      OBVIOUS
    <3>2. n # m \/ L[m] = {}
      BY <2>3, <3>1 DEF OneAt
    <3> QED
      BY <1>2, <2>6, <3>1, <3>2
  <2> QED
    BY <2>2, <2>4, <2>5, <2>6 DEF NewChunkEffect
<1>7. ASSUME NEW n \in Running, NEW s \in Running, OnChunk(n, s)
      PROVE  o \in Listed(m, m) /\ (c \in heap[m][o].has \/ Taken(m, o, c))
  <2>1. PICK f : f = Head(rep[n][s])
    OBVIOUS
  <2>2. PICK q : q = FileOf(n, n, f.num)
    OBVIOUS
  <2>3. f.num \in NumsOf(n, n) /\ Marked(n, q, f.chunk)
    BY <1>7, <2>1, <2>2, ChunkShape
  <2>4. heap[n][q].num = f.num
    BY <2>2, <2>3, FileFound
  <2>5. CASE n = m /\ o = q /\ c = f.chunk
    <3>1. Taken(m, o, c)
      BY <1>7, <2>1, <2>4, <2>5 DEF Taken
    <3>2. o \in Listed(m, m)
      BY <1>3, <2>3
    <3> QED
      BY <3>1, <3>2
  <2> QED
    BY <1>3, <2>3, <2>5
<1> QED
  BY <1>1, <1>4, <1>5, <1>6, <1>7, FileSteps

\* An announcement under way is still there after a step, or is counted.
LEMMA HeardStays ==
    ASSUME BeliefsInv, TypeInv', Grown, Steps, NEW n \in Running, NEW m \in Running,
           NEW num, NEW c, Hears(n, m, num, c)
    PROVE  Hears(n, m, num, c)'
<1> USE PeerFacts DEF BeliefsInv, FilesInv
<1>1. CASE c \in ChunksAt(n, m, num)
  <2>1. c \in ChunksAt(n, m, num)'
    BY <1>1, CountKept
  <2> QED
    BY <2>1 DEF Hears
<1>2. CASE \E f \in Held(req[m][n]) : TellsOf(f, m, num, c)
  <2>1. PICK f \in Held(req[m][n]) : TellsOf(f, m, num, c)
    BY <1>2
  <2>2. RequestsKept
    BY StayersKeep DEF Steps
  <2>3. CASE f \in Held(req'[m][n])
    <3>1. \E g \in Held(req'[m][n]) : TellsOf(g, m, num, c)
      BY <2>1, <2>3
    <3> QED
      BY <3>1 DEF Hears, Held, TellsOf
  <2>4. CASE f = Head(req[m][n]) /\ HandleRequest(n, m)
    <3>1. OnNewChunk(n, m)
      BY <2>1, <2>4 DEF TellsOf, HandleRequest, Request, OnHandshakeRequest, OnFileListRequest,
         OnChunkInfoRequest, OnNewFile, OnChunkRequest, OnJoinNotification, OnLeaveNotification
    <3>2. f.src = m /\ f.num = num /\ f.chunk = c /\ AllStay'
      BY <2>1 DEF TellsOf, Steps
    <3>3. f.chunk \in ChunksAt(n, m, f.num)'
      BY <2>4, <3>1, <3>2, HandledCounts
    <3>4. c \in ChunksAt(n, m, num)'
      BY <3>2, <3>3
    <3> QED
      BY <3>4 DEF Hears
  <2> QED
    BY <2>1, <2>2, <2>3, <2>4 DEF RequestsKept
<1> QED
  BY <1>1, <1>2 DEF Hears

LEMMA StepHeard ==
    ASSUME BeliefsInv, MembersInv, TypeInv', Grown, Steps, Heard PROVE Heard'
<1> USE PeerFacts
<1> SUFFICES ASSUME NEW n \in Running, NEW m \in Running, NEW o \in Listed(m, m)',
                    NEW c \in heap'[m][o].has, n # m, Owner[heap'[m][o].name] # m
             PROVE  Hears(n, m, heap[m][o].num, c)'
  BY DEF Heard
<1>1. TypeInv /\ NobodyIsLate /\ [Next]_vars
  BY DEF Steps, MembersInv, Base
<1>2. o \in Listed(m, m) /\ (c \in heap[m][o].has \/ Taken(m, o, c))
  BY <1>1, OldOrTaken
<1>3. o \in DOMAIN heap[m]
  BY <1>1, <1>2, ListTypes
<1>4. PICK num : num = heap[m][o].num
  OBVIOUS
<1>5. heap'[m][o].num = num /\ heap'[m][o].name = heap[m][o].name
  BY <1>3, <1>4 DEF Grown
<1>6. Hears(n, m, num, c)'
  <2>1. CASE c \in heap[m][o].has
    <3>1. Hears(n, m, num, c)
      BY <1>2, <1>4, <1>5, <2>1 DEF Heard
    <3> QED
      BY <3>1, HeardStays
  <2>2. CASE Taken(m, o, c)
    <3>1. PICK p \in Running : /\ OnChunk(m, p) /\ c = Head(rep[m][p]).chunk
                               /\ num = Head(rep[m][p]).num
      BY <1>4, <2>2 DEF Taken
    <3>2. \E g \in Held(req'[m][n]) : TellsOf(g, m, num, c)
      BY <3>1, ChunkIsTold
    <3> QED
      BY <3>2 DEF Hears, Held, TellsOf
  <2> QED
    BY <1>2, <2>1, <2>2
<1> QED
  BY <1>5, <1>6 DEF Hears, ChunksAt

LEMMA HeardHolds ==
    Spec /\ []NobodyIsLate /\ []AllStay /\ []Gathered => []Heard
<1>1. Init => Heard /\ Unbroken
  <2> SUFFICES ASSUME Init PROVE Heard /\ Unbroken
    OBVIOUS
  <2>1. \A n \in Running : Listed(n, n) = {}
    BY PeerFacts DEF Init, Listed
  <2> QED
    BY <2>1 DEF Init, Heard, Unbroken
<1>2. TypeInv /\ AllStay /\ AllStay' /\ Unbroken /\ [Next]_vars => Unbroken'
  BY StayersKeep DEF Unbroken, LinkSteps
<1>3. /\ BeliefsInv /\ BeliefsInv' /\ MembersInv /\ Heard
      /\ AllStay /\ AllStay' /\ Unbroken /\ Gathered /\ NobodyIsLate /\ [Next]_vars
      => Heard'
  <2> SUFFICES ASSUME BeliefsInv, BeliefsInv', MembersInv, Heard, AllStay, AllStay', Unbroken,
                      Gathered, NobodyIsLate, [Next]_vars
               PROVE  Heard'
    OBVIOUS
  <2>1. TypeInv' /\ Grown
    BY StepBeliefs DEF BeliefsInv, FilesInv
  <2> QED
    BY <2>1, StepHeard DEF Steps
<1>4. BeliefsInv => TypeInv
  BY DEF BeliefsInv, FilesInv
<1> QED
  BY <1>1, <1>2, <1>3, <1>4, BeliefsInvHolds, MembersInvHolds, PTL DEF Spec

\* What query() leaves out is not there, or announced and not yet heard of: in
\* a network that is complete before its first file, and stays so, a node
\* counts every chunk that another one has downloaded once nothing is under
\* way between them.  OnChunk() tells everybody of a chunk as it marks it, a
\* session that stays loses no frame, and who is told of a chunk knows the file.
THEOREM QueryIsComplete ==
    Spec /\ []NobodyIsLate /\ []AllStay /\ []Gathered => []ReportIsComplete
<1>1. Heard => ReportIsComplete
  <2> SUFFICES ASSUME Heard, NEW n \in Running, NEW m \in Running, NEW o \in Listed(m, m),
                      n # m, Owner[heap[m][o].name] # m, req[m][n] = <<>>,
                      NEW c \in heap[m][o].has
               PROVE  c \in ChunksAt(n, m, heap[m][o].num)
    BY DEF ReportIsComplete
  <2>1. Held(req[m][n]) = {}
    BY DEF Held
  <2> QED
    BY <2>1 DEF Heard, Hears
<1> QED
  BY <1>1, HeardHolds, PTL

-----------------------------------------------------------------------------
(***************************************************************************)
(* In such a network a file that one node has, every other one has, or is  *)
(* being told of; so a chunk is announced only after its file, though not  *)
(* on the same session.                                                    *)
(***************************************************************************)
\* n has the file num, or the frame that tells it of the file is on its way.
Knows(n, num) ==
    \/ num \in NumsOf(n, n)
    \/ \E p \in Running : \E f \in Held(req[p][n]) : f.type = "NEW_FILE_AVAILABLE" /\ f.num = num

AllKnow == \A n, m \in Running : \A num \in NumsOf(m, m) : Knows(n, num)

\* An announcement under way is still there after a step, or the file is listed.
LEMMA KnowsStays ==
    ASSUME BeliefsInv, TypeInv', Grown, Steps, NEW n \in Running, NEW num, Knows(n, num)
    PROVE  Knows(n, num)'
<1> USE PeerFacts DEF BeliefsInv, FilesInv
<1>1. CASE num \in NumsOf(n, n)
  <2>1. num \in NumsOf(n, n)'
    BY <1>1, NumsKept
  <2> QED
    BY <2>1 DEF Knows
<1>2. CASE num \notin NumsOf(n, n)
  <2>0. PICK p \in Running :
            \E f \in Held(req[p][n]) : f.type = "NEW_FILE_AVAILABLE" /\ f.num = num
    BY <1>2 DEF Knows
  <2>1. PICK f \in Held(req[p][n]) : f.type = "NEW_FILE_AVAILABLE" /\ f.num = num
    BY <2>0
  <2>2. RequestsKept
    BY StayersKeep DEF Steps
  <2>3. CASE f \in Held(req'[p][n])
    BY <2>1, <2>3 DEF Knows, Held
  <2>4. CASE f = Head(req[p][n]) /\ HandleRequest(n, p)
    <3>1. OnNewFile(n, p)
      <4>1. PICK type : type = Head(req[p][n]).type
        OBVIOUS
      <4>2. type = "NEW_FILE_AVAILABLE"
        BY <2>1, <2>4, <4>1
      <4>3. ~OnHandshakeRequest(n, p)
        BY <4>1, <4>2 DEF OnHandshakeRequest, Request
      <4>4. ~OnFileListRequest(n, p)
        BY <4>1, <4>2 DEF OnFileListRequest, Request
      <4>5. ~OnChunkInfoRequest(n, p)
        BY <4>1, <4>2 DEF OnChunkInfoRequest, Request
      <4>6. ~OnNewChunk(n, p)
        BY <4>1, <4>2, NewChunkShape
      <4>7. ~OnChunkRequest(n, p)
        BY <4>1, <4>2 DEF OnChunkRequest, Request
      <4>8. ~OnJoinNotification(n, p)
        BY <4>1, <4>2 DEF OnJoinNotification, Request
      <4>9. ~OnLeaveNotification(n, p)
        BY <4>1, <4>2 DEF OnLeaveNotification, Request
      <4> QED
        BY <2>4, <4>3, <4>4, <4>5, <4>6, <4>7, <4>8, <4>9 DEF HandleRequest
    <3>2. f.src # n
      BY <2>1 DEF Announced
    <3>3. PICK new, L : new = Len(heap[n]) + 1 /\ L = TwoAt(n, f.src)
      OBVIOUS
    <3>4. Enters(n, L) /\ heap'[n][new].num = num
      BY <2>1, <2>4, <3>1, <3>2, <3>3, NewFileShape, InfoFields
    <3>5. new \in Listed(n, n)'
      <4>1. new \in L[n]
        BY <3>3 DEF TwoAt
      <4> QED
        BY <3>4, <4>1 DEF Enters
    <3>6. num \in NumsOf(n, n)'
      BY <3>4, <3>5 DEF NumsOf
    <3> QED
      BY <3>6 DEF Knows
  <2> QED
    BY <2>1, <2>2, <2>3, <2>4 DEF RequestsKept
<1> QED
  BY <1>1, <1>2

\* A file that is inserted is announced to everybody.
LEMMA FileIsTold ==
    ASSUME MembersInv, Steps, Gathered', NEW m \in Running, NEW x \in File, Insert(m, x),
           NEW n \in Running, n # m
    PROVE  \E g \in Held(req'[m][n]) : g.type = "NEW_FILE_AVAILABLE" /\ g.num = NextNum(m)
<1> USE PeerFacts
<1>1. TypeInv /\ Fresh
  BY DEF MembersInv, Base, FilesInv
<1>2. NextNum(m) \in Nat
  BY <1>1, NextNumIsNew
<1>3. PICK num \in Nat : num = NextNum(m)
  BY <1>2
<1>4. PICK g \in Frames : g = [type |-> "NEW_FILE_AVAILABLE", orphan |-> FALSE,
                               num |-> num, name |-> x, src |-> m]
  BY DEF Frames
<1>5. PICK old \in [Node -> State] : old = state[m]
  BY <1>1, NetTypesFact DEF NetTypes, States
<1>6. PICK out \in [Node -> Seq(Frames)] : out = Broadcast(m, g, old)
  BY BroadcastTypes
<1>7. Sent(m, out, old, req)
  <2>1. SendFrames(m, out, old, req)
    BY <1>3, <1>4, <1>5, <1>6 DEF Insert
  <2> QED
    BY <1>1, <2>1, SentFact
<1>8. state[m][n] = "ONLINE"
  <2>1. Len(heap[m]) + 1 \in DOMAIN heap'[m]
    BY <1>1, InsertShape DEF Enters, OneAt
  <2>2. heap'[m] # <<>>
    BY <2>1
  <2>3. state'[m][n] = "ONLINE"
    BY <2>2 DEF Gathered
  <2>4. state'[m][n] # old[n] => state'[m][n] = "OFFLINE"
    BY <1>7 DEF Sent
  <2> QED
    BY <1>5, <2>3, <2>4
<1>9. Connects(m, n)
  <2>1. state[n][n] = "ONLINE"
    BY <1>8 DEF MembersInv, OnlineViewIsTrue
  <2>2. life[n] = "serving"
    BY <1>1, <2>1 DEF Fresh, Steps, AllStay
  <2> QED
    BY <2>2 DEF Connects, Listening
<1>10. out[n] = <<g>>
  BY <1>5, <1>6, <1>8 DEF Broadcast
<1>11. req'[m][n] = req[m][n] \o <<g>>
  <2>1. link[m][n] # "closing"
    BY DEF Steps, Unbroken
  <2> QED
    BY <1>7, <1>9, <1>10, <2>1 DEF Sent
<1>12. g \in Held(req'[m][n])
  <2>1. PICK one \in Seq(Frames) : one = <<g>>
    <3>1. <<g>> \in Seq(Frames)
      OBVIOUS
    <3> QED
      BY <3>1
  <2>2. g \in Held(one)
    BY <2>1 DEF Held
  <2> QED
    BY <1>1, <1>11, <2>1, <2>2, QueueTypes, HeldBoth
<1> QED
  BY <1>3, <1>4, <1>12

\* The files a node has: those it had, the one its user inserts, and the one it
\* has been told of.
LEMMA NewNumbers ==
    ASSUME BeliefsInv, TypeInv', NobodyIsLate, [Next]_vars,
           NEW m \in Running, NEW num \in NumsOf(m, m)'
    PROVE  \/ num \in NumsOf(m, m)
           \/ \E x \in File : Insert(m, x) /\ num = NextNum(m)
           \/ \E p \in Running : OnNewFile(m, p) /\ num = Head(req[p][m]).num
<1> USE PeerFacts DEF BeliefsInv, FilesInv
<1>1. PICK o \in Listed(m, m)' : heap'[m][o].num = num
  BY DEF NumsOf
<1>2. CASE UNCHANGED <<heap, files, disk>>
  BY <1>2 DEF NumsOf, Listed
<1>3. ASSUME NEW s \in Running, NEW L, Enters(s, L), num \notin NumsOf(m, m)
      PROVE  s = m /\ o \in L[m]
  <2>1. s = m
    BY <1>1, <1>3 DEF Enters, Listed, NumsOf
  <2>2. Listed(m, m)' = Listed(m, m) \cup L[m]
    BY <1>3, <2>1 DEF Enters
  <2>3. o \notin Listed(m, m)
    <3>1. SUFFICES ASSUME o \in Listed(m, m) PROVE FALSE
      OBVIOUS
    <3>2. o \in DOMAIN heap[m]
      BY <3>1, ListTypes
    <3>3. heap'[m][o] = heap[m][o]
      BY <1>3, <2>1, <3>2 DEF Enters
    <3> QED
      BY <1>1, <1>3, <3>1, <3>3 DEF NumsOf
  <2> QED
    BY <1>1, <2>1, <2>2, <2>3
<1>4. ASSUME NEW s \in Running, NEW q, NEW k, Marked(s, q, k)
      PROVE  num \in NumsOf(m, m)
  <2>1. o \in Listed(m, m) /\ o \in DOMAIN heap[m]
    <3>1. Listed(m, m)' = Listed(m, m)
      BY <1>4 DEF Marked, Listed
    <3> QED
      BY <1>1, <3>1, ListTypes
  <2>2. heap'[m][o].num = heap[m][o].num
    BY <1>4, <2>1 DEF Marked
  <2> QED
    BY <1>1, <2>1, <2>2 DEF NumsOf
<1>5. ASSUME NEW n \in Running, NEW x \in File, Insert(n, x), num \notin NumsOf(m, m)
      PROVE  Insert(m, x) /\ num = NextNum(m)
  <2>1. PICK L : L = OneAt(n, n)
    OBVIOUS
  <2>2. Enters(n, L) /\ heap'[n][Len(heap[n]) + 1].num = NextNum(n)
    BY <1>5, <2>1, InsertShape, InfoFields
  <2>3. n = m /\ o \in L[m]
    BY <1>3, <1>5, <2>2
  <2>4. o = Len(heap[n]) + 1
    BY <2>1, <2>3 DEF OneAt
  <2> QED
    BY <1>1, <1>5, <2>2, <2>3, <2>4
<1>6. ASSUME NEW n \in Running, NEW s \in Running, OnNewFile(n, s), num \notin NumsOf(m, m)
      PROVE  n = m /\ num = Head(req[s][m]).num
  <2>1. PICK f : f = Head(req[s][n])
    OBVIOUS
  <2>2. f \in Held(req[s][n]) /\ f.type = "NEW_FILE_AVAILABLE"
    BY <1>6, <2>1, QueueTypes, HeldTail DEF OnNewFile, Request
  <2>3. PICK L : L = TwoAt(n, f.src)
    OBVIOUS
  <2>4. f.src # n
    BY <2>2 DEF Announced
  <2>5. Enters(n, L) /\ heap'[n][Len(heap[n]) + 1].num = f.num
    BY <1>6, <2>1, <2>3, <2>4, NewFileShape, InfoFields
  <2>6. n = m /\ o \in L[m]
    BY <1>3, <1>6, <2>5
  <2>7. o = Len(heap[n]) + 1
    BY <2>3, <2>6 DEF TwoAt
  <2> QED
    BY <1>1, <2>1, <2>5, <2>6, <2>7
<1>7. ASSUME NEW n \in Running, NEW s \in Running, OnNewChunk(n, s)
      PROVE  num \in NumsOf(m, m)
  <2>1. PICK f : f = Head(req[s][n])
    OBVIOUS
  <2>2. /\ f \in Frames /\ f \in Held(req[s][n]) /\ f.type = "NEW_CHUNK_AVAILABLE"
        /\ NewChunkEffect(n, f)
    BY <1>7, <2>1, NewChunkShape
  <2>3. f.src # n /\ f.src \in Running
    BY <2>2, FrameFields DEF Announced
  <2>4. CASE UNCHANGED <<heap, files>>
    BY <2>4 DEF Listed, NumsOf
  <2>5. CASE Marked(n, FileOf(n, f.src, f.num), f.chunk)
    BY <1>4, <2>5
  <2>6. CASE Enters(n, OneAt(n, f.src))
    <3>1. PICK L : L = OneAt(n, f.src)
      OBVIOUS
    <3>2. n = m => L[m] = {}
      BY <2>3, <3>1 DEF OneAt
    <3> QED
      BY <1>3, <2>6, <3>1, <3>2
  <2> QED
    BY <2>2, <2>4, <2>5, <2>6 DEF NewChunkEffect
<1>8. ASSUME NEW n \in Running, NEW s \in Running, OnChunk(n, s)
      PROVE  num \in NumsOf(m, m)
  BY <1>4, <1>8, ChunkShape
<1> QED
  BY <1>2, <1>5, <1>6, <1>7, <1>8, FileSteps

LEMMA StepAllKnow ==
    ASSUME BeliefsInv, MembersInv, TypeInv', Grown, Steps, Gathered', AllKnow
    PROVE  AllKnow'
<1> USE PeerFacts DEF BeliefsInv, FilesInv
<1> SUFFICES ASSUME NEW n \in Running, NEW m \in Running, NEW num \in NumsOf(m, m)'
             PROVE  Knows(n, num)'
  BY DEF AllKnow
<1>1. CASE \E p \in Running : num \in NumsOf(p, p)
  BY <1>1, KnowsStays DEF AllKnow
<1>2. CASE num \in NumsOf(n, n)'
  BY <1>2 DEF Knows
<1>3. ASSUME NEW x \in File, Insert(m, x), num = NextNum(m), n # m
      PROVE  Knows(n, num)'
  <2>1. \E g \in Held(req'[m][n]) : g.type = "NEW_FILE_AVAILABLE" /\ g.num = num
    BY <1>3, FileIsTold
  <2> QED
    BY <2>1 DEF Knows, Held
<1>4. ASSUME NEW p \in Running, OnNewFile(m, p), num = Head(req[p][m]).num
      PROVE  \E q \in Running : num \in NumsOf(q, q)
  <2>1. PICK f : f = Head(req[p][m])
    OBVIOUS
  <2>2. f \in Frames /\ f \in Held(req[p][m]) /\ f.type = "NEW_FILE_AVAILABLE"
    BY <1>4, <2>1, QueueTypes, HeldTail DEF OnNewFile, Request
  <2> QED
    BY <1>4, <2>1, <2>2, FrameFields DEF Announced
<1>5. \/ num \in NumsOf(m, m)
      \/ \E x \in File : Insert(m, x) /\ num = NextNum(m)
      \/ \E p \in Running : OnNewFile(m, p) /\ num = Head(req[p][m]).num
  BY NewNumbers DEF Steps
<1> QED
  BY <1>1, <1>2, <1>3, <1>4, <1>5

\* The look-up of a local file in the handler of NEW_CHUNK_AVAILABLE can fail in
\* one way only: in a network that is complete before its first file, and stays
\* so, a chunk that is announced to a node is of a file the node has, or of one
\* whose announcement is on its way.  Insert() tells everybody, a session that
\* stays loses no frame, and who announces a chunk has the file.
THEOREM ChunksComeAfterFiles ==
    Spec /\ []NobodyIsLate /\ []AllStay /\ []Gathered => []ChunksFollowFiles
<1>1. Init => AllKnow /\ Unbroken
  <2> SUFFICES ASSUME Init PROVE AllKnow /\ Unbroken
    OBVIOUS
  <2>1. \A n \in Running : NumsOf(n, n) = {}
    BY PeerFacts DEF Init, Listed, NumsOf
  <2> QED
    BY <2>1 DEF Init, AllKnow, Unbroken
<1>2. TypeInv /\ AllStay /\ AllStay' /\ Unbroken /\ [Next]_vars => Unbroken'
  BY StayersKeep DEF Unbroken, LinkSteps
<1>3. /\ BeliefsInv /\ BeliefsInv' /\ MembersInv /\ AllKnow /\ AllStay /\ AllStay'
      /\ Unbroken /\ Gathered /\ Gathered' /\ NobodyIsLate /\ [Next]_vars
      => AllKnow'
  <2> SUFFICES ASSUME BeliefsInv, BeliefsInv', MembersInv, AllKnow, AllStay, AllStay', Unbroken,
                      Gathered, Gathered', NobodyIsLate, [Next]_vars
               PROVE  AllKnow'
    OBVIOUS
  <2>1. TypeInv' /\ Grown
    BY StepBeliefs DEF BeliefsInv, FilesInv
  <2> QED
    BY <2>1, StepAllKnow DEF Steps
<1>4. BeliefsInv => TypeInv
  BY DEF BeliefsInv, FilesInv
<1>5. BeliefsInv /\ AllKnow => ChunksFollowFiles
  <2> SUFFICES ASSUME BeliefsInv, AllKnow, NEW n \in Running, NEW m \in Running,
                      NEW i \in DOMAIN req[m][n], req[m][n][i].type = "NEW_CHUNK_AVAILABLE"
               PROVE  \/ req[m][n][i].num \in NumsOf(n, n)
                      \/ FileUnderWay(n, req[m][n][i].num)
    BY DEF ChunksFollowFiles
  <2>1. PICK f : f = req[m][n][i]
    OBVIOUS
  <2>2. f \in Held(req[m][n]) /\ f.type = "NEW_CHUNK_AVAILABLE" /\ f \in Frames
    BY <2>1, PeerFacts, QueueTypes DEF Held, BeliefsInv, FilesInv
  <2>3. f.src \in Running /\ f.num \in NumsOf(f.src, f.src)
    BY <2>2, PeerFacts, FrameFields DEF BeliefsInv, Announced, Has
  <2>4. Knows(n, f.num)
    BY <2>3 DEF AllKnow
  <2> QED
    BY <2>1, <2>4 DEF Knows, Held, FileUnderWay
<1> QED
  BY <1>1, <1>2, <1>3, <1>4, <1>5, BeliefsInvHolds, MembersInvHolds, PTL DEF Spec
=============================================================================
