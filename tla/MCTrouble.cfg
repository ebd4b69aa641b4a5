SPECIFICATION Spec
CONSTANTS
    c1 = c1
    c2 = c2
    k1 = k1
    k2 = k2
    None = None
    Servers <- TwoAreas
    Chars <- TwoChars
    Clients <- OneClient
    NumSlots = 1
    Subscriber <- SameAccount
    Prefers <- FirstMirror
    Optional <- Unruly
    MaxData = 0
    MaxCrashes = 0
    MaxQueue = 0
SYMMETRY SymmetryBoth
INVARIANTS OneCharPerAccount
