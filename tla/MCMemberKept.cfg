SPECIFICATION Spec
CONSTANTS
    a = a
    b = b
    Chars = {a, b}
    MAXCLAN = 2
    MaxWishes = 0
    MaxClans = 0
    Ranks = {0, 4}
    MaxFounded = 2
    MaxSlot = 1
    MaxFaults = 0
    MaxJewels = 0
    MaxBonus = 0
    MaxMonths = 0
    MaxRaids = 0
CHECK_DEADLOCK FALSE
INVARIANTS MemberKept
