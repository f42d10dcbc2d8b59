------------------------------- MODULE Sublists --------------------------------
(***************************************************************************)
(* Lists as the code builds them from other lists: what a loop keeps.      *)
(***************************************************************************)
EXTENDS Naturals, Sequences, FiniteSets

\* The elements of s at the positions K, in the order they have in s.
Picked(s, K) ==
    [k \in 1 .. Cardinality(K) |->
        s[CHOOSE n \in K : Cardinality({m \in K : m < n}) = k - 1]]

===============================================================================
