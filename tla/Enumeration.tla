---------------------------- MODULE Enumeration ----------------------------
(***************************************************************************)
(* A loop over numbers that reports those it selects reports the selected  *)
(* set in ascending order.                                                 *)
(***************************************************************************)
EXTENDS Integers, FiniteSets

\* The elements of a finite set of numbers, smallest first: element i has i - 1 below it.
Ascending(S) ==
    [i \in 1 .. Cardinality(S) |-> CHOOSE x \in S : Cardinality({y \in S : y < x}) = i - 1]
=============================================================================
