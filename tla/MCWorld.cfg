SPECIFICATION Spec
CONSTANTS
    Tiles = {1, 2, 3}
    Dist = 2
    DoorTile = 2
    LampTile = 3
    EffectSlots = {1, 2, 3}
    CacheSlots = {1}
  Humans = {"hero", "thief"}
  Beasts = {"beast"}
  Slots = {1, 2}
  Items = {1, 2, 3, 4}
  Ground = {1}
  AutoPocket = {"hero"}
  Thieves = {"thief"}
  StartingKit <- KitDef
  MaxRaised = 1
  MaxDeaths = 2
  Folk = {"p", "q", "r"}
  Seats = {1, 2}
  Goods = {"x", "z"}
  Owns <- OwnsDef
  Room = 2
  MaxGifts = 1
  MaxLogins = 3
  Kinds = {"rod", "jewel", "coin"}
  Value <- ValueDef
  OneCarry = {"jewel"}
  NoDepot = {"jewel"}
  NotSold = {"jewel"}
  Coins = {"coin"}
  Stock <- StockDef
  Kit <- PurseDef
  Wares = {1, 2, 3}
  Packs = {1, 2}
  Depots = {1, 2}
  PriceMulti = 400
  Barters = {0, 100, 250}
  StartGold = 12
  TableSize = 3
  Visitors = {"v"}
  MaxWeapons = 1
  Agents = {"a", "b"}
  Dens = {1}
  Targets = 1
  Wage = 1
  Jobs = {1}
  Price = 1
  MaxPoints = 1
  MaxOwed = 1
  SkillCounts = {2}
  Brewers = {"a"}
  Fellows = {"f", "h"}
  Places = {1}
  Gold = 3
  ClubFee = 2
  MaxFounded = 2
  Fighters = {"p", "q"}
  GateRooms = {1, 2}
  Duels = {1}
  Bonuses = {1, 2, 3}
  Fee = 1
  Pence = 1
  FirstBase = 8
  LastBase = 8
  Citizens = {"c"}
  Guards = {"g", "h"}
  MaxFine = 1
  Wealth = 2
INVARIANTS
  ItemsKept
  RubyFair
  FounderOnly
  ClubBooks
  JobsKept
  GuestsBehave
  ViewCurrent
PROPERTIES
  NoMoneyMade
  TradesFair
  NoProfit
  TrialsSound
CHECK_DEADLOCK FALSE
