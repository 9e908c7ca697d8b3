------------------------------ MODULE Positions ------------------------------
(***************************************************************************)
(* Positions in a list, as sets of natural numbers: the first of them, and *)
(* all of them in order.  A list filtered is the list at the positions     *)
(* that pass, in order.                                                    *)
(***************************************************************************)
EXTENDS Naturals, Sequences, FiniteSets

Earliest(S) == CHOOSE n \in S : \A m \in S : n <= m

(* The member of S that has i members up to it.                            *)
Ranked(S, i) == CHOOSE k \in S : Cardinality({j \in S : j <= k}) = i

(* The members of the list at the positions S.                             *)
Picked(list, S) == [i \in 1 .. Cardinality(S) |-> list[Ranked(S, i)]]
=============================================================================
