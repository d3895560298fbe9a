---------------------------- MODULE SearchRange ----------------------------
(***************************************************************************)
(* Addresses, memory mappings and the range planning shared by both        *)
(* scanners: searchPlanMapping (search_range.c) and alignUp                *)
(* (unknown_search.c).  Addresses are unsigned and wrap at AddressLimit,   *)
(* which stands for 2^64.                                                  *)
(***************************************************************************)
EXTENDS Integers

CONSTANT AddressLimit
ASSUME RangeAssumption == AddressLimit \in Nat \ {0}

Addresses == 0 .. AddressLimit - 1

Mapping == [addr : Addresses, size : 1 .. AddressLimit, readable : BOOLEAN]

Least(a, b) == IF a <= b THEN a ELSE b

\* mappingAddress + mappingSize, in the width of an address.
EndOf(m) == (m.addr + m.size) % AddressLimit

(***************************************************************************)
(* svcQueryProcessMemory / dmntchtQueryCheatProcessMemory: the mapping     *)
(* that contains the address, or, in a hole, the next one.  A layout is a  *)
(* sequence of mappings in address order; its last one reaches past every  *)
(* searched address.                                                       *)
(***************************************************************************)
queryMapping(layout, address) ==
    layout[CHOOSE i \in DOMAIN layout :
               /\ address < layout[i].addr + layout[i].size
               /\ \A j \in DOMAIN layout :
                      address < layout[j].addr + layout[j].size => i <= j]

searchPlanMapping(cursor, searchEnd, m) ==
    LET mappingEnd == Least(EndOf(m), searchEnd)
        plan(action, end) == [action |-> action, end |-> end]
    IN
    IF cursor >= searchEnd \/ m.size = 0 \/ EndOf(m) <= m.addr
    THEN plan("invalid", cursor)
    ELSE IF m.addr > cursor
    THEN plan("skip", Least(m.addr, searchEnd))
    ELSE IF mappingEnd <= cursor
    THEN plan("invalid", cursor)
    ELSE plan(IF m.readable THEN "read" ELSE "skip", mappingEnd)

\* alignUp: UINT64_MAX when the rounding would wrap.
alignUp(value, alignment) ==
    IF value > AddressLimit - alignment
    THEN AddressLimit - 1
    ELSE ((value + alignment - 1) \div alignment) * alignment
=============================================================================
