--------------------------- MODULE MCStepBatcher ---------------------------
EXTENDS StepBatcher
CONSTANTS c1, c2, c3, c4, n1, n2, n3
MCCalls == {c1, c2, c3, c4}
MCFickle == {c2}
\* Two items; c1 and c4 step the same node.
MCNode == [c \in MCCalls |-> CASE c \in {c1, c4} -> n1 [] c = c2 -> n2 [] c = c3 -> n3]
MCItem == [c \in MCCalls |-> IF c \in {c1, c4} THEN 1 ELSE 2]
============================================================================
