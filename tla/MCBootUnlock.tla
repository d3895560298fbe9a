---------------------------- MODULE MCBootUnlock ----------------------------
(* The shortest schedule that suffices for both lock screens.              *)
EXTENDS BootUnlock
=============================================================================
