--------------------------- MODULE MCReplManager ---------------------------
EXTENDS ReplManager, TLC
CONSTANTS q1, q2, q3, mathlib, blank
MCChecks  == {q1, q2, q3}
MCHeaders == {mathlib, blank}
MCRepls   == 1..4
MCWarm    == <<mathlib>>
Symmetry  == Permutations(MCChecks)
============================================================================
