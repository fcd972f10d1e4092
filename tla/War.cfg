SPECIFICATION Spec
CONSTANTS
    a = a
    b = b
    c = c
    a1 = a1
    a2 = a2
    b1 = b1
    c1 = c1
    Nobody = Nobody
    Factions <- MCFactions
    Members <- MCMembers
    Place <- MCPlace
    Household <- MCHousehold
    Allied <- MCAllied
    Plans <- MCPlans
    Frontage = 1
    Carry = 1
    Toll = 1
    Ransom = 1
    Cash = 2
    Goods = 1
    Stock = 1
    MaxLaunches = 1
    MaxMishaps = 2
INVARIANTS
    ValueIsAccounted
    OnePlacePerPerson
    PrisonerIsWhereRecorded
CHECK_DEADLOCK FALSE
