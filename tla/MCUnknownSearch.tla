--------------------------- MODULE MCUnknownSearch ---------------------------
(* Instances of UnknownSearch for TLC.                                      *)
EXTENDS UnknownSearch
=============================================================================
