---------------------------- MODULE SearchStore ----------------------------
(***************************************************************************)
(* The candidate file of search_store.c: blocks in three representations,  *)
(* the index of cumulative counts written when the file is finished, the   *)
(* sequential reader a refinement uses and the paging reader behind        *)
(* searchResults.                                                          *)
(*                                                                         *)
(* A slot's value is represented by the slot's address, so that a value    *)
(* decoded into the wrong slot is recognised; CRCs, magic numbers and file *)
(* offsets are abstracted (a block's index stands for its offset).         *)
(***************************************************************************)
EXTENDS Enumeration, SequencesExt

CONSTANTS Width,       \* header.metadata.width
          MaxSlots,    \* bound: slots of one block
          MaxBlocks,   \* bound: blocks of one file
          MaxAddress   \* bound: addresses of the slots

ASSUME StoreAssumption ==
    /\ Width \in 1 .. 8
    /\ MaxSlots \in Nat \ {0} /\ MaxBlocks \in Nat /\ MaxAddress \in Nat

VARIABLES file,    \* "writing", "sealed" or "absent"
          writerFailed,  \* writer.failed
          header,  \* candidateCount and blockCount
          data,    \* the blocks
          index,   \* the index entries
          given    \* history: what AddBlock was called with and accepted

storeVars == <<file, writerFailed, header, data, index, given>>

StoreInit ==
    /\ file = "writing" /\ writerFailed = FALSE
    /\ header = [candidateCount |-> 0, blockCount |-> 0]
    /\ data = <<>> /\ index = <<>> /\ given = <<>>

-----------------------------------------------------------------------------
(* Encoding and decoding of one block.                                     *)

maskSize(slotCount) == (slotCount + 7) \div 8

representation(slotCount, candidateCount) ==
    IF candidateCount = slotCount THEN "all"
    ELSE IF candidateCount * (4 + Width) < maskSize(slotCount) + slotCount * Width
    THEN "sparse"
    ELSE "bitmap"

\* What follows the block header.  `mask' is the set of candidate slots.
payload(base, slotCount, mask) ==
    LET values == [s \in 0 .. slotCount - 1 |-> base + s] IN
    CASE representation(slotCount, Cardinality(mask)) = "all"    -> values
      [] representation(slotCount, Cardinality(mask)) = "bitmap" -> <<mask, values>>
      [] OTHER -> LET slots == Ascending(mask)
                  IN  [i \in DOMAIN slots |-> <<slots[i], values[slots[i]]>>]

\* Mutated form of decode: a sparse block's values are taken to be dense.
decodeDense(block) ==
    CASE block.representation = "all" ->
            [mask |-> 0 .. block.slotCount - 1, values |-> block.payload]
      [] block.representation = "bitmap" ->
            [mask |-> block.payload[1], values |-> block.payload[2]]
      [] OTHER ->
            [mask |-> {block.payload[i][1] : i \in DOMAIN block.payload},
             values |-> [s \in 0 .. block.slotCount - 1 |->
                IF s + 1 \in DOMAIN block.payload THEN block.payload[s + 1][2] ELSE 0]]

\* searchStoreReaderNext: the mask and the values of the candidate slots.
decode(block) ==
    CASE block.representation = "all" ->
            [mask |-> 0 .. block.slotCount - 1, values |-> block.payload]
      [] block.representation = "bitmap" ->
            [mask |-> block.payload[1], values |-> block.payload[2]]
      [] OTHER ->
            [mask |-> {block.payload[i][1] : i \in DOMAIN block.payload},
             values |-> [s \in 0 .. block.slotCount - 1 |->
                LET at == {i \in DOMAIN block.payload : block.payload[i][1] = s}
                IN  IF at = {} THEN 0 ELSE block.payload[CHOOSE i \in at : TRUE][2]]]

-----------------------------------------------------------------------------
(* The writer.                                                             *)

(***************************************************************************)
(* searchStoreWriterAddBlock: a block without candidates is accepted and   *)
(* not written.                                                            *)
(***************************************************************************)
AddBlock(base, slotCount, mask) ==
    /\ file = "writing" /\ ~writerFailed
    /\ \/ /\ mask = {}
          /\ UNCHANGED <<header, data, given>>
       \/ /\ mask # {}
          /\ LET n == Cardinality(mask) IN
             /\ data' = Append(data,
                    [representation |-> representation(slotCount, n),
                     base |-> base, cumulativeCandidates |-> header.candidateCount,
                     slotCount |-> slotCount, candidateCount |-> n,
                     payload |-> payload(base, slotCount, mask)])
             /\ header' = [candidateCount |-> header.candidateCount + n,
                           blockCount |-> header.blockCount + 1]
          /\ given' = Append(given, [base |-> base, mask |-> mask])
    /\ UNCHANGED <<file, writerFailed, index>>

\* malloc or fwrite failed: no later block is accepted.
FailBlock ==
    /\ file = "writing" /\ ~writerFailed
    /\ writerFailed' = TRUE
    /\ UNCHANGED <<file, header, data, index, given>>

\* searchStoreWriterFinish with writeIndex; every failure removes the file.
Finish ==
    /\ file = "writing"
    /\ \/ /\ ~writerFailed
          /\ index' = [i \in 1 .. header.blockCount |->
                [fileOffset |-> i, cumulativeCandidates |-> data[i].cumulativeCandidates,
                 base |-> data[i].base, slotCount |-> data[i].slotCount,
                 candidateCount |-> data[i].candidateCount]]
          /\ file' = "sealed"
          /\ UNCHANGED <<writerFailed, header, data, given>>
       \/ /\ file' = "absent"
          /\ UNCHANGED <<writerFailed, header, data, index, given>>

\* searchStoreWriterAbort.
Abort ==
    /\ file = "writing"
    /\ file' = "absent"
    /\ UNCHANGED <<writerFailed, header, data, index, given>>

\* The first address after every block accepted so far: scans move forward.
frontier == IF given = <<>> THEN 0 ELSE Last(given).base + data[Len(data)].slotCount

StoreNext ==
    \/ /\ Len(data) < MaxBlocks
       /\ \E base \in frontier .. MaxAddress, slotCount \in 1 .. MaxSlots :
              /\ base + slotCount - 1 <= MaxAddress
              /\ \E mask \in SUBSET (0 .. slotCount - 1) : AddBlock(base, slotCount, mask)
    \/ FailBlock
    \/ Finish
    \/ Abort

StoreSpec == StoreInit /\ [][StoreNext]_storeVars

-----------------------------------------------------------------------------
(* searchStoreReadAddresses, on a file that searchStoreReaderOpen accepts. *)

endOrdinal(entry) == entry.cumulativeCandidates + entry.candidateCount

\* Mutated form of firstBlock: the comparison of the binary search is off by one.
firstBlockOffByOne(offset) ==
    LET search[range \in (0 .. header.blockCount) \X (0 .. header.blockCount)] ==
            LET low    == range[1]
                high   == range[2]
                middle == low + (high - low) \div 2
            IN  IF low >= high THEN low
                ELSE IF offset + 1 >= endOrdinal(index[middle + 1])
                THEN search[<<middle + 1, high>>]
                ELSE search[<<low, middle>>]
    IN  search[<<0, header.blockCount>>]

\* The binary search for the block that holds the candidate numbered offset, from zero.
firstBlock(offset) ==
    LET search[range \in (0 .. header.blockCount) \X (0 .. header.blockCount)] ==
            LET low    == range[1]
                high   == range[2]
                middle == low + (high - low) \div 2
            IN  IF low >= high THEN low
                ELSE IF offset >= endOrdinal(index[middle + 1])
                THEN search[<<middle + 1, high>>]
                ELSE search[<<low, middle>>]
    IN  search[<<0, header.blockCount>>]

\* The addresses of one block from ordinal `offset' on.
blockAddresses(entry, offset) ==
    LET block  == data[entry.fileOffset]
        slots  == Ascending(decode(block).mask)
        passed == offset - block.cumulativeCandidates
        from   == IF passed > 0 THEN passed ELSE 0
    IN  [i \in 1 .. Len(slots) - from |-> block.base + slots[from + i]]

searchStoreReadAddresses(offset, count) ==
    IF offset >= header.candidateCount \/ count = 0 THEN <<>>
    ELSE LET found == FlattenSeq([i \in 1 .. header.blockCount - firstBlock(offset) |->
                          blockAddresses(index[firstBlock(offset) + i], offset)])
         IN  SubSeq(found, 1, IF Len(found) <= count THEN Len(found) ELSE count)

-----------------------------------------------------------------------------
\* The candidates in the order they were written.
Candidates ==
    FlattenSeq([i \in DOMAIN given |->
        LET slots == Ascending(given[i].mask)
        IN  [k \in DOMAIN slots |-> given[i].base + slots[k]]])

(***************************************************************************)
(* A page of a finished file is exactly that stretch of the candidates, in *)
(* order: no page repeats or skips an address whichever block, and         *)
(* whichever representation, its first candidate falls in.  About the      *)
(* cumulative counts, the index and searchStoreReadAddresses.              *)
(***************************************************************************)
PagesTile ==
    file = "sealed" =>
        \A offset \in 0 .. header.candidateCount, count \in 0 .. header.candidateCount + 1 :
            LET last == offset + count IN
            searchStoreReadAddresses(offset, count) =
                SubSeq(Candidates, offset + 1,
                       IF last <= Len(Candidates) THEN last ELSE Len(Candidates))

(***************************************************************************)
(* A refinement reads back the candidates and the values the previous      *)
(* generation stored, whatever representation each block was given.  About *)
(* searchStoreWriterAddBlock and searchStoreReaderNext.                    *)
(***************************************************************************)
BlocksRoundTrip ==
    \A i \in DOMAIN data :
        LET block == decode(data[i]) IN
        /\ block.mask = given[i].mask
        /\ \A s \in block.mask : block.values[s] = given[i].base + s
=============================================================================
