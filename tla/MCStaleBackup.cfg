SPECIFICATION Spec
CONSTANTS
    c1 = c1
    c2 = c2
    k1 = k1
    k2 = k2
    None = None
    Servers <- OneArea
    Chars <- OneChar
    Clients <- TwoClients
    NumSlots = 2
    Subscriber <- SameAccount
    Prefers <- FirstMirror
    Optional <- Derelict
    MaxData = 1
    MaxCrashes = 0
    MaxQueue = 1
PROPERTIES ProgressKept
