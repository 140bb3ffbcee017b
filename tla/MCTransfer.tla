----------------------------- MODULE MCTransfer -----------------------------
(***************************************************************************)
(* Instances of Transfer for TLC: bytes of four bits, chunks of eight.     *)
(***************************************************************************)
EXTENDS Transfer, TLC

\* A name of full width, and a shorter one.
Long == <<7, 8>>
Short == <<7>>

\* Two full chunks and one byte, and two full chunks.
Files == Long :> [i \in 0..16 |-> (i * 3) % Base] @@ Short :> [i \in 0..15 |-> i]

\* A file that was there before is longer, or shorter.
Left == {<<>>, Long :> [i \in 0..19 |-> 5], Short :> [i \in 0..2 |-> 5]}

Deleted == {Short}

\* The address is of full width, a port is not, or that of the copy is.
ShortPorts == "source" :> [ip |-> <<5>>, port |-> <<1>>] @@ "copy" :> [ip |-> <<5>>, port |-> <<2>>]
FullPort == "source" :> [ip |-> <<5>>, port |-> <<1>>] @@ "copy" :> [ip |-> <<5>>, port |-> <<2, 4>>]
=============================================================================
