----------------------------- MODULE FreezeTable -----------------------------
(***************************************************************************)
(* The freeze table of freeze.c and the commands that edit it (main.c,     *)
(* "freeze", "unFreeze", "freezeClear").  The table has no free list: a    *)
(* slot is empty when its address is 0, and removal frees the value buffer *)
(* but leaves the pointer in the slot.  The heap is modelled because of    *)
(* that pointer: a buffer is Free or holds one value, malloc returns any   *)
(* free buffer, free() of a dangling pointer frees whatever now lives      *)
(* there.                                                                  *)
(***************************************************************************)
EXTENDS Integers, FiniteSets

CONSTANTS FREEZE_DIC_LENGTH,  \* slots (255 in freeze.h)
          Addresses,          \* heap offsets that clients freeze
          Titles,             \* title ids of applications, none of them 0
          Data,               \* values
          Buffers,            \* addresses malloc may return, none of them 0
          Free                \* content of a buffer that is not allocated

ASSUME FreezeAssumption ==
    /\ FREEZE_DIC_LENGTH \in Nat \ {0}
    /\ Addresses \subseteq Nat
    /\ Titles \subseteq Nat \ {0}
    /\ Buffers \subseteq Nat \ {0}
    /\ Free \notin Data

VARIABLES freezes,   \* the table
          heap       \* buffer -> its value, or Free

Slots == 0 .. FREEZE_DIC_LENGTH - 1

Block == [address : Addresses \cup {0}, state : {0, 1}, vData : Buffers \cup {0},
          titleId : Titles \cup {0}]

\* calloc
EmptyBlock == [address |-> 0, state |-> 0, vData |-> 0, titleId |-> 0]

\* The first slot with the address, -1 if there is none.
findAddrSlot(t, addr) ==
    LET hits == {i \in Slots : t[i].address = addr} IN
    IF hits = {} THEN -1 ELSE CHOOSE i \in hits : \A j \in hits : i <= j

findNextEmptySlot(t) == findAddrSlot(t, 0)

\* free(p); free(NULL) does nothing.
free(h, p) == IF p = 0 THEN h ELSE [h EXCEPT ![p] = Free]

\* Mutated form of removeFromFreezeMap: the buffer is released, the slot kept.
removeFromFreezeMapFreeOnly(t, h, addr) ==
    LET slot == findAddrSlot(t, addr) IN
    IF slot = -1 THEN <<t, h>>
    ELSE << [t EXCEPT ![slot].state = 0], free(h, t[slot].vData) >>

\* The table and the heap after removeFromFreezeMap(addr).
removeFromFreezeMap(t, h, addr) ==
    LET slot == findAddrSlot(t, addr) IN
    IF slot = -1 THEN <<t, h>>
    ELSE << [t EXCEPT ![slot].address = 0, ![slot].state = 0], free(h, t[slot].vData) >>

\* The same after addToFreezeMap; a full table drops the request (and the buffer).
addToFreezeMap(t, h, addr, buffer, tid) ==
    LET known   == findAddrSlot(t, addr)
        slot    == IF known = -1 THEN findNextEmptySlot(t) ELSE known
        removed == IF known = -1 THEN <<t, h>> ELSE removeFromFreezeMap(t, h, addr)
        block   == [address |-> addr, state |-> 1, vData |-> buffer, titleId |-> tid]
    IN IF slot = -1 THEN <<t, h>>
       ELSE << [removed[1] EXCEPT ![slot] = block], removed[2] >>

active(t) == {i \in Slots : t[i].state # 0}

getFreezeCount(t) == Cardinality(active(t))

\* clearFreezes: one removal by address for each slot in use, in slot order.
clearFreezes(t, h) ==
    LET sweep[n \in 0 .. FREEZE_DIC_LENGTH] ==
            IF n = 0 THEN <<t, h>>
            ELSE LET th == sweep[n - 1] IN
                 IF th[1][n - 1].state # 0
                 THEN removeFromFreezeMap(th[1], th[2], th[1][n - 1].address)
                 ELSE th
    IN sweep[FREEZE_DIC_LENGTH]

-----------------------------------------------------------------------------
TableInit == /\ freezes = [i \in Slots |-> EmptyBlock]
             /\ heap = [b \in Buffers |-> Free]

\* "freeze": parseStringToByteBuffer allocates, addToFreezeMap stores.
freeze(addr, value, tid) ==
    \E b \in Buffers :
        /\ heap[b] = Free
        /\ LET th == addToFreezeMap(freezes, [heap EXCEPT ![b] = value], addr, b, tid)
           IN freezes' = th[1] /\ heap' = th[2]

unFreeze(addr) ==
    LET th == removeFromFreezeMap(freezes, heap, addr)
    IN freezes' = th[1] /\ heap' = th[2]

freezeClear ==
    LET th == clearFreezes(freezes, heap)
    IN freezes' = th[1] /\ heap' = th[2]

TableNext ==
    \/ \E a \in Addresses, v \in Data, tid \in Titles : freeze(a, v, tid)
    \/ \E a \in Addresses : unFreeze(a)
    \/ freezeClear

tableVars == <<freezes, heap>>

TableSpec == TableInit /\ [][TableNext]_tableVars

-----------------------------------------------------------------------------
TableTypeOK == /\ freezes \in [Slots -> Block]
               /\ heap \in [Buffers -> Data \cup {Free}]

(***************************************************************************)
(* The value the worker would write at an address: the content of the      *)
(* buffer of its slot in use.                                              *)
(***************************************************************************)
ValueAt(a) ==
    LET hits == {i \in active(freezes) : freezes[i].address = a} IN
    IF hits = {} THEN Free ELSE LET i == CHOOSE j \in hits : TRUE IN heap[freezes[i].vData]

Map == INSTANCE FreezeMap WITH
    NoData <- Free, Capacity <- FREEZE_DIC_LENGTH,
    frozen <- [a \in Addresses |-> ValueAt(a)]

(***************************************************************************)
(* For non-zero addresses the table implements the map: every command      *)
(* changes only the address it names, no entry is held twice, and the      *)
(* buffer of an entry is never freed or reused while the entry lives,      *)
(* although removal leaves dangling pointers in empty slots.  About        *)
(* addToFreezeMap, removeFromFreezeMap and clearFreezes.                   *)
(***************************************************************************)
ImplementsFreezeMap == Map!Spec
=============================================================================
