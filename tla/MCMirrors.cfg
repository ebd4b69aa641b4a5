SPECIFICATION Spec
CONSTANTS
    c1 = c1
    c2 = c2
    k1 = k1
    k2 = k2
    None = None
    Servers <- TwoMirrors
    Chars <- OneChar
    Clients <- OneClient
    NumSlots = 1
    Subscriber <- SameAccount
    Prefers <- SecondMirror
    Optional <- Refreshing
    MaxData = 0
    MaxCrashes = 1
    MaxQueue = 1
INVARIANTS SingleCopy CopyOwnsRow
