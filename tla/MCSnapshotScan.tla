--------------------------- MODULE MCSnapshotScan ---------------------------
(***************************************************************************)
(* Snapshots with chunks of eight bytes of one-, two- and four-byte values *)
(* at every alignment from one to eight, over every range that starts in   *)
(* the first chunk and ends by address 22.  Mappings are multiples of a    *)
(* page of four bytes.                                                     *)
(***************************************************************************)
EXTENDS SnapshotScan

Map(a, n, r) == [addr |-> a, size |-> n, readable |-> r]

MCLayouts == { << Map(0, 28, TRUE) >>,
               << Map(0, 8, TRUE), Map(8, 4, FALSE), Map(16, 12, TRUE) >>,
               << Map(0, 12, TRUE), Map(12, 20, FALSE) >> }

MCRequests == { r \in [width : {1, 2, 4}, alignment : {1, 2, 4, 8},
                       start : 0 .. 9, end : 1 .. 22] : r.width <= r.end - r.start }
=============================================================================
