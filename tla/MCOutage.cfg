SPECIFICATION Spec
CONSTANTS
    c1 = c1
    c2 = c2
    k1 = k1
    k2 = k2
    None = None
    Servers <- TwoAreas
    Chars <- OneChar
    Clients <- OneClient
    NumSlots = 1
    Subscriber <- SameAccount
    Prefers <- FirstMirror
    Optional <- Stopping
    MaxData = 1
    MaxCrashes = 1
    MaxQueue = 1
PROPERTIES ImplementsCheckOut
