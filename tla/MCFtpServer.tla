---------------------------- MODULE MCFtpServer ----------------------------
(* FtpServer with the source's own error limit; nothing else is bounded.   *)
EXTENDS FtpServer
=============================================================================
