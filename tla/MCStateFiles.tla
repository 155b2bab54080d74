--------------------------- MODULE MCStateFiles ---------------------------
EXTENDS StateFiles
CONSTANTS t1, t2, i1, i2, f1
MCTokens  == {t1, t2}
MCItems   == {i1, i2}
MCScratch == {f1}
\* One of the states alone is over a budget of 1, the other one fills it.
MCSize    == [t \in Tokens |-> IF t = t2 THEN 2 ELSE 1]
============================================================================
