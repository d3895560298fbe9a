--------------------------- MODULE MCInputWorkers ---------------------------
EXTENDS InputWorkers
CONSTANTS p1, p2
MCPadOrder   == <<p1, p2>>
MCSequences  == {<<"+", "-">>, <<"click">>, <<"wait">>}
=============================================================================
