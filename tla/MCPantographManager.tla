------------------------ MODULE MCPantographManager ------------------------
\* Three clients, a pool of one or two, two headers of one profile and one of
\* another; a profile cap that binds and one that does not.  With one worker two
\* clients wait at the same time.
EXTENDS PantographManager, TLC

MCProfileOf == [k \in Keys |-> IF k = "q1" THEN "q" ELSE "p"]
MCLimits == {<<1, 1>>, <<2, 1>>, <<2, 2>>}
MCSymmetry == Permutations(Clients) \cup Permutations(Workers)
============================================================================
