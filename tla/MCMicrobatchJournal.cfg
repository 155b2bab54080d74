SPECIFICATION JournalSpec
CONSTANTS
    p1 = p1
    p2 = p2
    p3 = p3
    a = a
    b = b
    c = c
    d = d
    None = None
    Plans <- MCPlans
    Request <- MCRequest
    MaxRuns = 2
INVARIANTS AtMostOnce ReturnsWhatRan
