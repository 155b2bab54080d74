SPECIFICATION FairSpec
CONSTANTS
    c1 = c1
    c2 = c2
    c3 = c3
    c4 = c4
    n1 = n1
    n2 = n2
    n3 = n3
    Calls <- MCCalls
    Node <- MCNode
    Item <- MCItem
    Fickle <- MCFickle
    MaxItems = 2
    MaxInFlight = 2
    MaxRetries = 1
    NoWait = FALSE
INVARIANTS OneRequestPerItem NeverRepeated NobodyStuck
PROPERTIES EveryCallEnds
CHECK_DEADLOCK FALSE
