------------------------- MODULE MCServerLifespan -------------------------
EXTENDS ServerLifespan
CONSTANTS s1, s2
MCServers == {s1, s2}
MCInodes  == 1..3
============================================================================
