------------------------------- MODULE Sorting -------------------------------
(***************************************************************************)
(* Sorting a finite set by a strict total order, by counting what comes    *)
(* before each element. (SetToSortSeq needs TLC to choose among            *)
(* permutations, which leaves a prover nothing to reason with.)            *)
(***************************************************************************)
EXTENDS Naturals, FiniteSets

SortedSeq(S, Before(_, _)) ==
    [i \in 1..Cardinality(S) |-> CHOOSE x \in S : Cardinality({y \in S : Before(y, x)}) = i - 1]

\* The elements of a sequence at the indices I, in order. (SelectSeq is opaque to the prover.)
Sublist(s, I) == LET is == SortedSeq(I, <) IN [n \in DOMAIN is |-> s[is[n]]]
=============================================================================
