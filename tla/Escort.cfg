SPECIFICATION Spec
CONSTANTS
    c1 = c1
    c2 = c2
    client = client
    Contracts = {c1, c2}
    Goods <- MCGoods
    ClientOf <- MCClientOf
    Player = player
    Retainers = {retainer}
    Guildsmen = {g1, g2}
    Raiders = {r1, r2}
    Clients = {client}
    Unlisted = unlisted
    Reward = 2
    Toll = 1
    Lodging = 1
    Term = 2
    Legs = 2
    MaxDeaths = 2
    InitialCash = 5
    InitialStock = 2
INVARIANTS CashIsConserved GoodsAreConserved PerformanceHasOwner NobodyOnTwoRoads
PROPERTIES GuildContractsEnd
CHECK_DEADLOCK FALSE
