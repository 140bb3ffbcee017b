---------------------------- MODULE MCConnection ----------------------------
(***************************************************************************)
(* Instances of Connection for TLC.                                        *)
(***************************************************************************)
EXTENDS Connection, TLC

\* The sending threads are interchangeable (safety runs only).
Interchangeable == Permutations(Senders)

\* The server listens and nobody leaves: a session ends by a death only, and by
\* the errors that follow.  No fairness is asked of what is left out.
UpSpec ==
    /\ Init /\ serving = "on"
    /\ [][Next /\ UNCHANGED serving /\ ~StopConnection]_vars
    /\ Fairness
=============================================================================
