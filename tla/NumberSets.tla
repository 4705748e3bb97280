----------------------------- MODULE NumberSets -----------------------------
(***************************************************************************)
(* Finite sets of numbers as sequences.                                    *)
(***************************************************************************)
EXTENDS Integers, Sequences, FiniteSets

\* The elements of a finite set of integers in ascending order: its i-th element is the one
\* up to which there are i.
Ascending(S) == [i \in 1 .. Cardinality(S) |-> CHOOSE n \in S : Cardinality({m \in S : m <= n}) = i]
=============================================================================
