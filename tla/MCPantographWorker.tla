------------------------- MODULE MCPantographWorker -------------------------
EXTENDS PantographWorker
MCFiles == 1..4
============================================================================
