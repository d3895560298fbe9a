------------------------------ MODULE FreezeMap ------------------------------
(***************************************************************************)
(* What the freeze commands promise (commands.md, "freeze", "unFreeze",    *)
(* "freezeClear"): a partial map from addresses to the value to hold       *)
(* there, of at most Capacity entries.                                     *)
(***************************************************************************)
EXTENDS Integers, FiniteSets

CONSTANTS Addresses, Data, NoData, Capacity

VARIABLE frozen     \* address -> value, NoData when not frozen

Held(map) == {a \in Addresses : map[a] # NoData}

Init == frozen = [a \in Addresses |-> NoData]

Freeze(a, v) ==
    /\ frozen[a] # NoData \/ Cardinality(Held(frozen)) < Capacity
    /\ frozen' = [frozen EXCEPT ![a] = v]

UnFreeze(a) == frozen' = [frozen EXCEPT ![a] = NoData]

Clear == frozen' = [a \in Addresses |-> NoData]

Next == \/ \E a \in Addresses, v \in Data : Freeze(a, v)
        \/ \E a \in Addresses : UnFreeze(a)
        \/ Clear

Spec == Init /\ [][Next]_frozen
=============================================================================
