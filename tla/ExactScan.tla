----------------------------- MODULE ExactScan -----------------------------
(***************************************************************************)
(* runSearch (search.c): the exact byte search of one queued session, with *)
(* its chunked reads, the bytes carried from one chunk to the next, the    *)
(* alignment filter of searchExactBufferAligned and the bounded result     *)
(* array of recordMatch.                                                   *)
(*                                                                         *)
(* The searched memory and its mappings do not change during a scan here;  *)
(* what a live game does to a scan is the subject of UnknownSearch.  Reads *)
(* and queries fail, the process vanishes and a client cancels at any      *)
(* point between two steps.                                                *)
(***************************************************************************)
EXTENDS SearchRange, Enumeration, Sequences

CONSTANTS Chunk,      \* SEARCH_CHUNK_SIZE
          MaxResults, \* SEARCH_MAX_RESULTS
          Bytes,      \* byte values
          Layouts,    \* the memory layouts considered: sequences of mappings
          Patterns,   \* searched byte sequences
          Alignments, \* their alignments
          Ranges      \* searched ranges <<start, end>>

(***************************************************************************)
(* Mappings are disjoint and in address order, and the last one reaches    *)
(* past every searched range.                                              *)
(***************************************************************************)
ASSUME ExactAssumption ==
    /\ Chunk \in Nat \ {0} /\ MaxResults \in Nat
    /\ \A l \in Layouts :
           /\ l \in Seq(Mapping)
           /\ \A i, j \in DOMAIN l : i < j => l[i].addr + l[i].size <= l[j].addr
           /\ \A r \in Ranges : \E i \in DOMAIN l : r[2] <= l[i].addr + l[i].size
    /\ \A p \in Patterns : p \in Seq(Bytes) /\ Len(p) > 0
    /\ \A r \in Ranges : r \in Addresses \X Addresses
    /\ Alignments \subseteq Nat \ {0}

VARIABLES memory, layout, pattern, alignment, start, end,  \* the request
          state,          \* manager.status.state
          failed,         \* a failure ended the loop
          cancelRequested,
          cursor, mappingEnd,
          buffer,         \* the carried bytes; Len(buffer) is `carry'
          results, totalMatches, truncated,
          unread          \* addresses whose read failed (readErrors)

request == <<memory, layout, pattern, alignment, start, end>>
output  == <<results, totalMatches, truncated, unread>>
vars    == <<request, state, failed, cancelRequested, cursor, mappingEnd, buffer, output>>

Init ==
    /\ layout \in Layouts /\ pattern \in Patterns /\ alignment \in Alignments
    /\ \E r \in Ranges : start = r[1] /\ end = r[2] /\ Len(pattern) <= r[2] - r[1]
    /\ memory \in [start .. end - 1 -> Bytes]
    /\ state = "running" /\ failed = FALSE /\ cancelRequested = FALSE
    /\ cursor = start /\ mappingEnd = start
    /\ buffer = <<>>
    /\ results = <<>> /\ totalMatches = 0 /\ truncated = FALSE /\ unread = {}

(***************************************************************************)
(* searchExactBufferAligned: the aligned addresses, in ascending order,    *)
(* at which the buffer holds the pattern.                                  *)
(***************************************************************************)
searchExactBufferAligned(buf, bufferAddress) ==
    Ascending({a \in bufferAddress .. bufferAddress + Len(buf) - Len(pattern) :
                   /\ a % alignment = 0
                   /\ \A i \in DOMAIN pattern : buf[a - bufferAddress + i] = pattern[i]})

\* Mutated form of Overlap: one byte more than can begin an unseen match.
OverlapWhole(buf) ==
    LET carry == Least(Len(buf), Len(pattern)) IN SubSeq(buf, Len(buf) - carry + 1, Len(buf))

\* The tail of the buffer that may begin a match ending in the next chunk.
Overlap(buf) ==
    LET carry == Least(Len(buf), Len(pattern) - 1)
    IN  SubSeq(buf, Len(buf) - carry + 1, Len(buf))

scanning  == state = "running" /\ ~failed
proceeding == scanning /\ cursor < end /\ ~cancelRequested

\* Mutated form of PassOver: the cursor stays where it is.
PassOverNothing(address) == UNCHANGED <<failed, cursor, mappingEnd, buffer>>

\* A hole or an unreadable mapping is passed over.
PassOver(address) ==
    /\ cursor' = address
    /\ UNCHANGED <<failed, mappingEnd, buffer>>

\* The head of the outer loop once the process is current and the query succeeded.
Plan ==
    /\ proceeding /\ cursor >= mappingEnd
    /\ LET plan == searchPlanMapping(cursor, end, queryMapping(layout, cursor)) IN
       \/ /\ plan.action = "invalid"
          /\ failed' = TRUE
          /\ UNCHANGED <<cursor, mappingEnd, buffer>>
       \/ /\ plan.action = "skip"
          /\ PassOver(plan.end)
       \/ /\ plan.action = "read"
          /\ mappingEnd' = plan.end
          /\ buffer' = <<>>
          /\ UNCHANGED <<failed, cursor>>
    /\ UNCHANGED <<request, state, cancelRequested, output>>

\* processIsCurrent or queryMapping failed: the whole search fails.
LoseProcess ==
    /\ proceeding /\ cursor >= mappingEnd
    /\ failed' = TRUE
    /\ UNCHANGED <<request, state, cancelRequested, cursor, mappingEnd, buffer, output>>

amount == Least(Chunk, mappingEnd - cursor)

\* recordMatch for each match of one chunk, in order.
recordMatches(found) ==
    /\ totalMatches' = totalMatches + Len(found)
    /\ results' = SubSeq(results \o found, 1, Least(MaxResults, Len(results) + Len(found)))
    /\ truncated' = (truncated \/ Len(results) + Len(found) > MaxResults)

ReadChunk ==
    /\ proceeding /\ cursor < mappingEnd
    /\ LET combined == buffer \o [i \in 1 .. amount |-> memory[cursor + i - 1]] IN
       /\ recordMatches(searchExactBufferAligned(combined, cursor - Len(buffer)))
       /\ buffer' = Overlap(combined)
    /\ cursor' = cursor + amount
    /\ UNCHANGED <<request, state, failed, cancelRequested, mappingEnd, unread>>

\* A failed read is counted, forgets the carried bytes and is passed over.
SkipChunk ==
    /\ proceeding /\ cursor < mappingEnd
    /\ unread' = unread \cup cursor .. cursor + amount - 1
    /\ buffer' = <<>>
    /\ cursor' = cursor + amount
    /\ UNCHANGED <<request, state, failed, cancelRequested, mappingEnd, results,
                   totalMatches, truncated>>

\* searchCancel of the running session.
searchCancel ==
    /\ state = "running"
    /\ cancelRequested' = TRUE
    /\ UNCHANGED <<request, state, failed, cursor, mappingEnd, buffer, output>>

\* The loop is left and finishSearch records how.
finishSearch ==
    /\ state = "running" /\ ~proceeding
    /\ state' = IF cancelRequested THEN "cancelled" ELSE IF failed THEN "error" ELSE "done"
    /\ UNCHANGED <<request, failed, cancelRequested, cursor, mappingEnd, buffer, output>>

Worker == Plan \/ ReadChunk \/ SkipChunk \/ finishSearch
Next   == Worker \/ LoseProcess \/ searchCancel

Spec == Init /\ [][Next]_vars

\* The worker thread is scheduled and its debug calls return.
FairSpec == Spec /\ WF_vars(Worker)

-----------------------------------------------------------------------------
(***************************************************************************)
(* What the search should have found by the time it stands at address c:   *)
(* every aligned occurrence of the pattern that lies inside one readable   *)
(* mapping of the range, ends at or before c, and has no byte in a chunk   *)
(* whose read failed.                                                      *)
(***************************************************************************)
Occurs(a, c) ==
    /\ a + Len(pattern) <= c
    /\ a % alignment = 0
    /\ \A i \in DOMAIN pattern :
           memory[a + i - 1] = pattern[i] /\ a + i - 1 \notin unread
    /\ \E i \in DOMAIN layout :
           /\ layout[i].readable
           /\ layout[i].addr <= a
           /\ a + Len(pattern) <= layout[i].addr + layout[i].size

(***************************************************************************)
(* The result array is exactly the first MaxResults occurrences up to the  *)
(* cursor, ascending and without repetition, the total counts all of them  *)
(* and `truncated' says whether some were dropped: at every chunk          *)
(* boundary, whatever failed, and also when the search was cancelled.      *)
(* About the carry of runSearch, searchExactBufferAligned and recordMatch. *)
(***************************************************************************)
ResultsAreExact ==
    LET expected == Ascending({a \in start .. end - 1 : Occurs(a, cursor)}) IN
    /\ totalMatches = Len(expected)
    /\ results = SubSeq(expected, 1, Least(MaxResults, Len(expected)))
    /\ truncated <=> Len(expected) > MaxResults

(***************************************************************************)
(* A search that was started ends: whatever reads fail and however the     *)
(* range falls on mappings, runSearch reaches finishSearch.                *)
(***************************************************************************)
SearchEnds == <>(state # "running")


-----------------------------------------------------------------------------
(* What the loop maintains, for the proofs.                                *)

TypeOK ==
    /\ layout \in Layouts /\ pattern \in Patterns /\ alignment \in Alignments
    /\ <<start, end>> \in Ranges /\ start < end
    /\ memory \in [start .. end - 1 -> Bytes]
    /\ cursor \in start .. end /\ mappingEnd \in start .. end
    /\ buffer \in Seq(Bytes)
    /\ unread \subseteq start .. cursor - 1

\* bufferAddress: where the carried bytes begin.
Run == cursor - Len(buffer)

\* Inside mapping i: the buffer is what was last read of it, and where it is too short for the
\* overlap nothing can begin before it and end behind the cursor.
Carries(i) ==
    /\ layout[i].readable
    /\ start <= Run /\ layout[i].addr <= Run
    /\ mappingEnd = Least(layout[i].addr + layout[i].size, end)
    /\ \A k \in DOMAIN buffer : buffer[k] = memory[Run + k - 1] /\ Run + k - 1 \notin unread
    /\ Len(buffer) < Len(pattern)
    /\ Len(buffer) = Len(pattern) - 1 \/ Run = start \/ Run = layout[i].addr \/ Run - 1 \in unread

\* Between two mappings no mapping has been begun but not finished.
Between ==
    \/ cursor = start \/ cursor = end
    \/ \A i \in DOMAIN layout :
           cursor <= layout[i].addr \/ layout[i].addr + layout[i].size <= cursor

\* The cursor is inside a mapping that is read, or between two.
Position == IF cursor < mappingEnd THEN \E i \in DOMAIN layout : Carries(i) ELSE Between

\* The inductive invariant.
IndInv == TypeOK /\ Position /\ ResultsAreExact
=============================================================================
