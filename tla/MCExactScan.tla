---------------------------- MODULE MCExactScan ----------------------------
(***************************************************************************)
(* Exact scans of every range inside ten addresses: chunks of three bytes, *)
(* patterns shorter than, as long as and longer than a chunk, mappings     *)
(* that start and end inside a chunk, unreadable mappings and holes.       *)
(***************************************************************************)
EXTENDS ExactScan

Map(a, n, r) == [addr |-> a, size |-> n, readable |-> r]

\* One mapping; two readable ones that touch; a hole and an unreadable one; the last mapping
\* ends exactly at the address limit, where its end wraps to zero.
MCLayouts == { << Map(0, 15, TRUE) >>,
               << Map(0, 4, TRUE), Map(4, 11, TRUE) >>,
               << Map(1, 4, TRUE), Map(5, 1, FALSE), Map(7, 8, TRUE) >>,
               << Map(0, 3, TRUE), Map(3, 13, FALSE) >> }

MCPatterns == { <<1>>, <<1, 1>>, <<0, 1, 1>>, <<1, 1, 1, 1>> }
MCRanges   == { <<0, 7>>, <<1, 8>>, <<2, 9>> }
=============================================================================
