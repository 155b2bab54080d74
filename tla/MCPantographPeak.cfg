SPECIFICATION Spec
CONSTANTS
    Clients = {c1, c2, c3}
    Workers = {w1, w2, w3, w4}
    Keys = {"p1", "p2", "q1"}
    Profiles = {"p", "q"}
    ProfileOf <- MCProfileOf
    Limits <- MCLimits
    MaxUses = 2
    None = None
INVARIANT PeakProcesses
SYMMETRY MCSymmetry
