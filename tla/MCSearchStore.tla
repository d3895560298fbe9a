--------------------------- MODULE MCSearchStore ---------------------------
(***************************************************************************)
(* Candidate files of up to three blocks of up to three four-byte slots:   *)
(* one candidate of three is stored sparse, two as a bitmap, three as all. *)
(***************************************************************************)
EXTENDS SearchStore
=============================================================================
