---------------------------- MODULE SnapshotScan ----------------------------
(***************************************************************************)
(* The chunk arithmetic of runBegin (unknown_search.c), the generation-0   *)
(* snapshot of an unknown-value search: which slots of the range are       *)
(* stored, and which bytes their stored values are made of.                *)
(*                                                                         *)
(* A byte is represented by where it came from: raw[i] is the address that *)
(* was last read into raw + i, or Garbage for memory malloc returned.      *)
(***************************************************************************)
EXTENDS SearchRange, Sequences

CONSTANTS Chunk,     \* UNKNOWN_CHUNK_SIZE
          Slack,     \* the 8 bytes by which raw and values exceed a chunk
          Layouts,   \* the memory layouts considered: sequences of mappings
          Requests   \* [width, alignment, start, end] of searchBegin

(***************************************************************************)
(* Mappings are disjoint, in address order and made of pages, and a page   *)
(* and a chunk are multiples of every width.  A request is one that        *)
(* searchBegin accepts: the range has room for a value, whose width raw    *)
(* and values have to spare, and the alignment is a power of two; all that *)
(* is used of that is that it divides 2^64, and the width divides it or is *)
(* larger.                                                                 *)
(***************************************************************************)
ASSUME SnapshotAssumption ==
    /\ Chunk \in Nat \ {0} /\ Slack \in Nat
    /\ \A l \in Layouts :
           /\ l \in Seq(Mapping)
           /\ \A i, j \in DOMAIN l : i < j => l[i].addr + l[i].size <= l[j].addr
    /\ \A r \in Requests :
           /\ r \in [width : Nat \ {0}, alignment : Nat \ {0}, start : Addresses, end : Addresses]
           /\ r.width <= r.end - r.start /\ r.width <= Slack
           /\ Chunk % r.width = 0 /\ AddressLimit % r.alignment = 0
           /\ r.alignment >= r.width => r.alignment % r.width = 0
    /\ \A l \in Layouts, r \in Requests :
           /\ \E i \in DOMAIN l : r.end <= l[i].addr + l[i].size
           /\ \A i \in DOMAIN l : l[i].addr % r.width = 0 /\ l[i].size % r.width = 0

Garbage == -1

VARIABLES layout, req,    \* the session
          state,          \* "running", or how the loop was left
          cursor, mappingEnd,
          raw,            \* the read buffer
          blocks          \* what searchStoreWriterAddBlock was given

vars == <<layout, req, state, cursor, mappingEnd, raw, blocks>>

Init ==
    /\ layout \in Layouts
    /\ req \in Requests
    /\ state = "running"
    /\ cursor = req.start /\ mappingEnd = req.start
    /\ raw = [i \in 0 .. Chunk + Slack - 1 |-> Garbage]
    /\ blocks = <<>>

\* Mutated form of maximumSpan: a chunk is read whole whatever the alignment.
maximumSpanWhole == Chunk

\* Mutated form of maximumSpan: the limit is off by one and cuts slots in two.
maximumSpanUneven == Least((Chunk \div req.width) * req.alignment, Chunk - 1)

\* A chunk holds no more slots than `values' has room for.
maximumSpan == Least((Chunk \div req.width) * req.alignment, Chunk)

amount == Least(maximumSpan, mappingEnd - cursor)

\* The bytes asked of readMemory: the chunk and, if mapped, the tail of its last slot.
readSize ==
    IF amount + req.width - 1 <= mappingEnd - cursor
    THEN amount + req.width - 1
    ELSE amount

first == alignUp(cursor, req.alignment)

\* Mutated form of slots: the last slots may run past the mapping.
slotsUntrimmed ==
    IF first < cursor + amount
    THEN (cursor + amount - first + req.alignment - 1) \div req.alignment
    ELSE 0

\* The slots that begin in this chunk and end inside the mapping.
slots ==
    LET fits(n) == n = 0 \/ first + (n - 1) * req.alignment + req.width <= mappingEnd
        begun   == (cursor + amount - first + req.alignment - 1) \div req.alignment
    IN
    IF first # AddressLimit - 1 /\ first < cursor + amount /\ first + req.width <= mappingEnd
    THEN CHOOSE n \in 0 .. begun : fits(n) /\ \A m \in n + 1 .. begun : ~fits(m)
    ELSE 0

proceeding == state = "running" /\ cursor < req.end

Plan ==
    /\ proceeding /\ cursor >= mappingEnd
    /\ LET plan == searchPlanMapping(cursor, req.end, queryMapping(layout, cursor)) IN
       \/ /\ plan.action = "invalid"
          /\ state' = "error"
          /\ UNCHANGED <<cursor, mappingEnd>>
       \/ /\ plan.action = "skip"
          /\ cursor' = plan.end
          /\ UNCHANGED <<state, mappingEnd>>
       \/ /\ plan.action = "read"
          /\ mappingEnd' = plan.end
          /\ UNCHANGED <<state, cursor>>
    /\ UNCHANGED <<layout, req, raw, blocks>>

SnapshotChunk ==
    /\ proceeding /\ cursor < mappingEnd
    /\ raw' = [i \in DOMAIN raw |-> IF i < readSize THEN cursor + i ELSE raw[i]]
    /\ blocks' = IF slots = 0 THEN blocks
                 ELSE Append(blocks,
                        [base |-> first, count |-> slots,
                         values |-> [n \in 0 .. slots - 1 |-> [b \in 0 .. req.width - 1 |->
                             raw'[first + n * req.alignment + b - cursor]]]])
    /\ cursor' = cursor + amount
    /\ UNCHANGED <<layout, req, state, mappingEnd>>

\* A failed query, read or store, a lost process, or a cancellation ends the snapshot.
Stop ==
    /\ proceeding
    /\ state' = "error"
    /\ UNCHANGED <<layout, req, cursor, mappingEnd, raw, blocks>>

Done ==
    /\ state = "running" /\ cursor >= req.end
    /\ state' = "done"
    /\ UNCHANGED <<layout, req, cursor, mappingEnd, raw, blocks>>

Next == Plan \/ SnapshotChunk \/ Stop \/ Done

Spec == Init /\ [][Next]_vars

-----------------------------------------------------------------------------
\* Address of slot n of a block.
Address(block, n) == block.base + n * req.alignment

LastSlot(block) == Address(block, block.count - 1)

\* Address a is stored in some block.
Stored(a) == \E i \in DOMAIN blocks : \E n \in 0 .. blocks[i].count - 1 :
                 a = Address(blocks[i], n)

\* An aligned slot that lies inside one readable mapping of the range.
Readable(a) ==
    /\ a % req.alignment = 0
    /\ a + req.width <= req.end
    /\ \E i \in DOMAIN layout :
           /\ layout[i].readable
           /\ layout[i].addr <= a
           /\ a + req.width <= layout[i].addr + layout[i].size

(***************************************************************************)
(* The slots stored are exactly the aligned slots the scan has passed that *)
(* lie inside a readable mapping of the range, ascending and each once, at *)
(* every chunk boundary, whatever the alignment and however the range cuts *)
(* mappings and chunks.  About first, slots and the cursor of runBegin.    *)
(***************************************************************************)
SlotsAreExact ==
    /\ \A i \in DOMAIN blocks : LastSlot(blocks[i]) < cursor
    /\ \A i, j \in DOMAIN blocks : i < j => LastSlot(blocks[i]) < blocks[j].base
    /\ \A a \in Addresses : Stored(a) <=> a \in req.start .. cursor - 1 /\ Readable(a)

\* The two writes of a chunk stay in raw and in values.
ReadFits ==
    state = "running" /\ cursor < mappingEnd =>
        readSize <= Chunk + Slack /\ slots * req.width <= Chunk + Slack

\* A block spans no more than a refinement reads at once.
SpansFit ==
    \A i \in DOMAIN blocks :
        (blocks[i].count - 1) * req.alignment + req.width <= Chunk + Slack

(***************************************************************************)
(* Nothing is written past raw or values, and no block spans more memory   *)
(* than a refinement is prepared to read, so a refinement never takes a    *)
(* block of its own baseline for a corrupt one.  About maximumSpan and the *)
(* span check of runRefine.                                                *)
(***************************************************************************)
BuffersSuffice == ReadFits /\ SpansFit

\* Every byte of every stored value was read from that byte's own address.
FreshValues ==
    \A i \in DOMAIN blocks : \A n \in 0 .. blocks[i].count - 1 : \A b \in 0 .. req.width - 1 :
        blocks[i].values[n][b] = Address(blocks[i], n) + b

(***************************************************************************)
(* Of a search whose slots do not overlap and whose range starts on a      *)
(* slot, every stored value was read from its own slot: no byte of it is   *)
(* left over from another chunk.  About readSize in runBegin.              *)
(***************************************************************************)
AlignedValuesAreRead ==
    req.alignment >= req.width /\ req.start % req.alignment = 0 => FreshValues

-----------------------------------------------------------------------------
(***************************************************************************)
(* The inductive invariant behind the three properties.                    *)
(***************************************************************************)
Byte == Addresses \cup {Garbage}

TypeOK ==
    /\ layout \in Layouts /\ req \in Requests
    /\ state \in {"running", "error", "done"}
    /\ cursor \in Addresses /\ mappingEnd \in Addresses
    /\ raw \in [0 .. Chunk + Slack - 1 -> Byte]
    /\ blocks \in Seq({blocks[i] : i \in DOMAIN blocks})
    /\ \A i \in DOMAIN blocks : blocks[i].base \in Addresses /\ blocks[i].count \in 1 .. Chunk

\* The scan stays in its range.
Within == req.start <= cursor /\ cursor <= req.end /\ mappingEnd <= req.end

\* Mapping i is the one being read: it holds the cursor, and mappingEnd is where it ends.
Reading(i) ==
    /\ layout[i].readable
    /\ layout[i].addr <= cursor
    /\ mappingEnd = Least(layout[i].addr + layout[i].size, req.end)

Inside == cursor < mappingEnd => \E i \in DOMAIN layout : Reading(i)

\* Of a search whose slots do not overlap, no chunk begins inside a value.
OnValue ==
    req.alignment >= req.width /\ req.start % req.alignment = 0 =>
        cursor % req.width = 0 \/ cursor = req.end

IndInv ==
    /\ TypeOK /\ Within /\ Inside /\ OnValue
    /\ SlotsAreExact /\ SpansFit /\ AlignedValuesAreRead
=============================================================================
