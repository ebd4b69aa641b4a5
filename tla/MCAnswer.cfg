SPECIFICATION FairSpec
CONSTANTS
    c1 = c1
    c2 = c2
    k1 = k1
    k2 = k2
    None = None
    Servers <- TwoAreas
    Chars <- OneChar
    Clients <- OneClient
    NumSlots = 1
    Subscriber <- SameAccount
    Prefers <- FirstMirror
    Optional <- Everyday
    MaxData = 0
    MaxCrashes = 0
    MaxQueue = 0
PROPERTIES LoginAnswered LostCharacterFreed
