--------------------------- MODULE MCFreezeWorker ---------------------------
EXTENDS FreezeWorker
=============================================================================
