SPECIFICATION Spec
CONSTANTS
    s1 = s1
    s2 = s2
    t1 = t1
    t2 = t2
    NoServer = NoServer
    TaskServers = {s1, s2}
    TaskIDs = {t1, t2}
    MaxQueued = 2
    MaxDowns = 1
    MaxTroubles = 1
    Doors = {1, 2}
    Users = {"u"}
    Admins = {}
    Heroes = {"hero", "twin"}
    ACC_MAXCHARS = 1
    MaxAsks = 2
    MaxFaults = 1
    LoginServers = {"a", "b"}
    NoName = ""
    OBUFSIZE = 5
    OUTBUFSIZE = 3
    MaxMessage = 3
    MaxBytes = 12
    MaxChat = 4
    Peers = {1, 2}
    Alarms = {"a", "b", "c"}
    LastTick = 3
    Players = {"u", "v"}
    Monsters = {"m"}
    Width = 5
    Rest = 1
    Birth = 5
    DoorTile = 2
    Gate = 4
    MaxCalls = 3
CHECK_DEADLOCK FALSE
INVARIANTS OncePerTrouble AccountsKept StreamsIntact TimersKeep
PROPERTIES TaskDone AccountAnswered RowPassable
