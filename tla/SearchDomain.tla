---------------------------- MODULE SearchDomain ----------------------------
(***************************************************************************)
(* The data of a C-level search: slots of the searched range, unsigned     *)
(* slot values, candidate sets, and the comparison one refinement applies. *)
(***************************************************************************)
EXTENDS Integers

CONSTANTS N,         \* slots of the searched range, numbered 0 .. N-1
          MaxValue   \* slot values are 0 .. MaxValue

ASSUME SessionAssumption == N \in Nat \ {0} /\ MaxValue \in Nat

Slots  == 0 .. N - 1
Values == 0 .. MaxValue
Absent == -1                       \* "this slot is not a candidate"
Cands  == [Slots -> Values \cup {Absent}]
NoCands == [s \in Slots |-> Absent]

\* SearchOperationRefine*: the five refinements of search.h.
RefineOps == {"exact", "changed", "unchanged", "increased", "decreased"}

(***************************************************************************)
(* searchCompareUnsigned: the filter applied to one slot.                  *)
(***************************************************************************)
searchCompareUnsigned(op, oldValue, newValue, exactValue) ==
    \/ op = "exact"     /\ newValue = exactValue
    \/ op = "changed"   /\ newValue # oldValue
    \/ op = "unchanged" /\ newValue = oldValue
    \/ op = "increased" /\ newValue > oldValue
    \/ op = "decreased" /\ newValue < oldValue
=============================================================================
