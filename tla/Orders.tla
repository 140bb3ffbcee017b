------------------------------- MODULE Orders -------------------------------
(***************************************************************************)
(* Lists that are put together from others in their order.                 *)
(***************************************************************************)
EXTENDS Naturals, FiniteSets

\* The numbers of a finite set, in ascending order.
InOrder(S) ==
    CHOOSE s \in [1..Cardinality(S) -> S] : \A j, k \in DOMAIN s : j < k => s[j] < s[k]
=============================================================================
