------------------------ MODULE MCMicrobatchJournal ------------------------
EXTENDS MicrobatchJournal
CONSTANTS p1, p2, p3, a, b, c, d
MCPlans == {p1, p2, p3}
\* p2 has other items in its second microbatch, p3 starts with other items and
\* ends sooner.
MCRequest == [p \in MCPlans |-> CASE p = p1 -> <<a, b, c>> [] p = p2 -> <<a, d, c>> [] p = p3 -> <<d>>]
============================================================================
