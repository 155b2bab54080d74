---------------------------- MODULE MCExecItems ----------------------------
\* Two items of one profile, two tokens (a parent and a child, or a root for
\* each item), one create operation, and a step_batch of two items over two
\* lanes, which may name the same token twice or an unknown one.
EXTENDS ExecItems

MCProfile == [i \in Items |-> "p"]
============================================================================
