SPECIFICATION Spec
CONSTANTS
    h1 = h1
    h2 = h2
    Nobody = Nobody
    Person = {1, 2, 3, 4}
    House = {h1, h2}
    Item = {"timber", "food", "poison", "sword"}
    Weapon = {"sword"}
    Base <- MCBase
    Players = {1}
    Helpless = {3}
    Restless = {3}
    MaxClaim = 1
    Region = {"r1", "r2"}
    Site = {"s1", "s2"}
    HomeSite <- MCHomeSite
    RegionOf <- MCRegionOf
    Basis <- MCBasis
    Floor <- MCFloor
    Timber = "timber"
    IdleWait = 2
    Labour = 3
    Parcel = 2
    WallGrowth = 1
    MaxLevel = 2
    MaxProject = 2
    Trades <- MCTrades
    Food = "food"
    Poison = "poison"
    Price <- MCPrice
    FoodGoal = 1
    AidFloor <- MCAidFloor
    AidNeed <- MCAidNeed
    Protected = Nobody
    Month = 4
    Storehouse = 2
    Settings <- MCSettings
INVARIANTS
    LandIsEnough
    WorkHasAWake
    NobodyTwice
PROPERTIES
    MoneyIsKept
    ItemsAreConserved
CHECK_DEADLOCK FALSE
