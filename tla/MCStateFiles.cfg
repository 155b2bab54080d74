SPECIFICATION FairSpec
CONSTANTS
    t1 = t1
    t2 = t2
    i1 = i1
    i2 = i2
    f1 = f1
    None = None
    Tokens <- MCTokens
    Items <- MCItems
    Scratch <- MCScratch
    Size <- MCSize
    Ttl = 2
    MaxBytes = 1
    MaxPins = 2
INVARIANTS TypeOK IndexOnDisk
PROPERTIES DurableSpec BudgetRestored OrphansReclaimed
