SPECIFICATION Spec
CONSTANTS
    q1 = q1
    q2 = q2
    q3 = q3
    mathlib = mathlib
    blank = blank
    None = None
    Blank = blank
    Checks <- MCChecks
    Headers <- MCHeaders
    Repls <- MCRepls
    Warm <- MCWarm
    MaxRepls = 2
    MaxUses = 1
SYMMETRY Symmetry
INVARIANTS TypeOK ReplsAccounted NoLostWakeup BodyOnItsHeader
CHECK_DEADLOCK FALSE
