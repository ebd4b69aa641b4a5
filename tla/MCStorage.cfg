SPECIFICATION StorageSpec
CONSTANTS
    s1 = s1
    s2 = s2
    s3 = s3
    Servers = {s1, s2, s3}
    Owners = {s1, s2}
    Loads <- SmallLoads
    MaxChanges = 2
    MaxRecord = 2
    MaxFaults = 1
    MaxRestarts = 1
    MaxSaves = 3
CHECK_DEADLOCK FALSE
INVARIANTS ClientsAgree
PROPERTIES StoredGrows RecordStored
