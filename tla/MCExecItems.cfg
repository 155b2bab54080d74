SPECIFICATION FairSpec
CONSTANTS
    Items = {i1, i2}
    Tokens = {k1, k2}
    None = None
    Creates = {c1}
    Batches = {b1}
    BatchSize = 2
    MaxLanes = 2
    MaxStates = 1
    Profile <- MCProfile
INVARIANTS TypeOK BracketsExact CleanedIsEmpty StepKeepsParent
PROPERTIES CancelledCommitsNothing CancelSticks LifecycleProtocol CancelDrains
