----------------------------- MODULE MCFtpFiles -----------------------------
EXTENDS FtpFiles
CONSTANTS a, b, file, session
=============================================================================
