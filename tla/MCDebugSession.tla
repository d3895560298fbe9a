--------------------------- MODULE MCDebugSession ---------------------------
(* Two processes, two cores, one failing call, up to two hits a session.   *)
EXTENDS DebugSession
=============================================================================
