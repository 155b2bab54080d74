----------------------- MODULE MCExecRequestLimiter -----------------------
\* Five handlers, two slots, a line of two: a full line, a newcomer that takes
\* the slot of a notified task, and cancellations of waiting and of notified
\* tasks all occur.
EXTENDS ExecRequestLimiter
============================================================================
