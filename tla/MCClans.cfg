SPECIFICATION Spec
CONSTANTS
    a = a
    b = b
    Chars = {a, b}
    MAXCLAN = 3
    MaxWishes = 3
    MaxClans = 3
    Ranks = {0, 4}
    MaxFounded = 2
    MaxSlot = 1
    MaxFaults = 1
    MaxJewels = 15
    MaxBonus = 3
    MaxMonths = 2
    MaxRaids = 3
CHECK_DEADLOCK FALSE
INVARIANTS NoFalseMember
PROPERTIES TreatiesKept RelationsSettle SolventSurvives
