--------------------------- MODULE MCFreezeTable ----------------------------
EXTENDS FreezeTable
=============================================================================
